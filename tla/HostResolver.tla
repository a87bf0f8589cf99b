---------------------------- MODULE HostResolver ----------------------------
(***************************************************************************)
(* TcpClient::Impl::connect (tcp_client.cpp) in several threads, each with *)
(* a client of its own, over the one s_host_resolver of the process and    *)
(* its cache of DNS results.                                               *)
(*                                                                         *)
(* The cache is locked for a lookup and for an update, not between the two *)
(* nor during getaddrinfo(): several threads may miss, ask and store.  The *)
(* cache is never cleared (clear_cache has no caller) and stores failures  *)
(* like addresses.  What DNS answers may differ from one query to the next.*)
(***************************************************************************)
EXTENDS Integers, FiniteSets

CONSTANTS
  Threads,
  Hosts,        \* the host names
  Services,     \* the ports: the cache's key is a pair host, service
  Addresses     \* the addresses that DNS may answer

Keys == Hosts \X Services

Failed == "failed"      \* an ec other than 0
Absent == "absent"      \* no entry in the map
Closed == "closed"      \* fd_ = -1

ASSUME ResolverAssumption ==
  /\ Hosts # {} /\ Services # {}
  /\ {Failed, Absent, Closed} \cap Addresses = {}

\* HostEntry: an endpoint, or a failure.
Entries == Addresses \cup {Failed}

VARIABLES
  dns_cache_,   \* an entry or Absent for every key
  fd_,          \* per thread: the address its socket is connected to
  pc,           \* per thread: which step of connect() comes next
  key,          \* per thread: the key it connects to
  endpoint,     \* per thread: what the key was resolved to
  given,        \* external: the addresses DNS has given for a key
  asks          \* ghost: how often a thread has asked DNS for a key, up to 2

vars == <<dns_cache_, fd_, pc, key, endpoint, given, asks>>

Steps == {"idle", "lookup", "resolve", "update", "socket"}

Init ==
  /\ dns_cache_ = [k \in Keys |-> Absent]
  /\ fd_ = [t \in Threads |-> Closed]
  /\ pc = [t \in Threads |-> "idle"]
  /\ key = [t \in Threads |-> CHOOSE k \in Keys : TRUE]
  /\ endpoint = [t \in Threads |-> Failed]
  /\ given = [k \in Keys |-> {}]
  /\ asks = [t \in Threads |-> [k \in Keys |-> 0]]

Goto(t, step) == pc' = [pc EXCEPT ![t] = step]

\* connect() begins with close().
connect(t) ==
  /\ pc[t] = "idle"
  /\ \E k \in Keys : key' = [key EXCEPT ![t] = k]
  /\ fd_' = [fd_ EXCEPT ![t] = Closed]
  /\ Goto(t, "lookup")
  /\ UNCHANGED <<dns_cache_, endpoint, given, asks>>

\* Mutant of Found: a failure is looked up again.
FoundAddress(k) == dns_cache_[k] \in Addresses

\* Mutant of Found: the end of the map is taken for an entry.
FoundAlways(k) == k \in Keys

Found(k) == dns_cache_[k] # Absent

\* __lookup_cache under the shared lock.
lookup_hit(t) ==
  /\ pc[t] = "lookup"
  /\ Found(key[t])
  /\ endpoint' = [endpoint EXCEPT ![t] = dns_cache_[key[t]]]
  /\ Goto(t, "socket")
  /\ UNCHANGED <<dns_cache_, fd_, key, given, asks>>

lookup_miss(t) ==
  /\ pc[t] = "lookup"
  /\ ~Found(key[t])
  /\ Goto(t, "resolve")
  /\ UNCHANGED <<dns_cache_, fd_, key, endpoint, given, asks>>

\* getaddrinfo() without a lock.
__resolve(t) ==
  /\ pc[t] = "resolve"
  /\ \E e \in Entries :
       /\ endpoint' = [endpoint EXCEPT ![t] = e]
       /\ given' = [given EXCEPT ![key[t]] = @ \cup ({e} \ {Failed})]
  /\ asks' = [asks EXCEPT ![t][key[t]] = IF @ < 2 THEN @ + 1 ELSE @]
  /\ Goto(t, "update")
  /\ UNCHANGED <<dns_cache_, fd_, key>>

\* Mutant of Stored: the service is not part of the key.
StoredForHost(k, e) ==
  [j \in Keys |-> IF j[1] = k[1] THEN e ELSE dns_cache_[j]]

Stored(k, e) == [dns_cache_ EXCEPT ![k] = e]

\* The unique lock; the last thread to store wins.
__update_cache(t) ==
  /\ pc[t] = "update"
  /\ dns_cache_' = Stored(key[t], endpoint[t])
  /\ Goto(t, "socket")
  /\ UNCHANGED <<fd_, key, endpoint, given, asks>>

\* connect() returns an error, ec, and leaves the client closed.
Fail(t) ==
  /\ Goto(t, "idle")
  /\ UNCHANGED <<dns_cache_, fd_, key, endpoint, given, asks>>

resolve_failed(t) ==
  /\ pc[t] = "socket"
  /\ endpoint[t] = Failed
  /\ Fail(t)

\* socket() or timed_connect() fails; the new descriptor is closed.
connect_failed(t) ==
  /\ pc[t] = "socket"
  /\ endpoint[t] # Failed
  /\ Fail(t)

connected(t) ==
  /\ pc[t] = "socket"
  /\ endpoint[t] # Failed
  /\ fd_' = [fd_ EXCEPT ![t] = endpoint[t]]
  /\ Goto(t, "idle")
  /\ UNCHANGED <<dns_cache_, key, endpoint, given, asks>>

Next ==
  \E t \in Threads :
    \/ connect(t)
    \/ lookup_hit(t)
    \/ lookup_miss(t)
    \/ __resolve(t)
    \/ __update_cache(t)
    \/ resolve_failed(t)
    \/ connect_failed(t)
    \/ connected(t)

Spec == Init /\ [][Next]_vars

-----------------------------------------------------------------------------
\* The cache, the descriptors and the ghosts keep their types: an address or
\* a failure, never a missing entry, is what a lookup hands over.
TypeOK ==
  /\ dns_cache_ \in [Keys -> Entries \cup {Absent}]
  /\ fd_ \in [Threads -> Addresses \cup {Closed}]
  /\ pc \in [Threads -> Steps]
  /\ key \in [Threads -> Keys]
  /\ endpoint \in [Threads -> Entries]
  /\ given \in [Keys -> SUBSET Addresses]
  /\ asks \in [Threads -> [Keys -> 0..2]]

\* A client is connected to an address that DNS gave for the very host and
\* service it asked for, whichever thread had asked.
ReachesItsHost ==
  \A t \in Threads : fd_[t] # Closed => fd_[t] \in given[key[t]]

\* No thread asks DNS twice for the same host and service: between a miss
\* and the update other threads may ask too, but once each.
AskedOnce == \A t \in Threads, k \in Keys : asks[t][k] <= 1

\* The cache settles: from some moment on every thread gets the same answer,
\* the one of the last fill, be it an address or a failure.
Settles == <>[][dns_cache_' = dns_cache_]_vars
=============================================================================
