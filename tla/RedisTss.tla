------------------------------ MODULE RedisTss ------------------------------
(***************************************************************************)
(* The pool of client objects that threads share: RedisTss::Impl            *)
(* (redis_tss.cpp) with its thread-specific slot (tss.h).                  *)
(*                                                                         *)
(* get() and put() are cut at the accesses to free_redis_, which one mutex *)
(* makes atomic; everything between two of them concerns the calling       *)
(* thread only.  The application follows the three usages of redis_tss.h:  *)
(* get(kThreadSpecific) with or without a later put(kThreadSpecific), and  *)
(* get(kNotThreadSpecific) with put(kNotThreadSpecific).                   *)
(***************************************************************************)
EXTENDS Integers, Sequences, FiniteSets

CONSTANTS
  Threads,
  Clients,        \* addresses of RedisBase2 objects
  pool_size_,
  NULL

ASSUME PoolAssumption ==
  /\ pool_size_ \in Nat
  /\ NULL \notin Clients
  /\ NULL \notin Threads
  /\ "idle" \notin Threads \cup {NULL}     \* a name that owner needs
  /\ Clients \cap Threads = {}
  /\ IsFiniteSet(Clients)

Flags == {"kThreadSpecific", "kNotThreadSpecific"}

VARIABLES
  live,           \* objects allocated and not deleted
  free_redis_,    \* the pool, last in first out
  client_,        \* the thread-specific slot of each thread
  held,           \* what each thread got with kNotThreadSpecific, or NULL
  job,            \* the get() or put() that each thread is inside of
  alive           \* the RedisTss object exists

vars == <<live, free_redis_, client_, held, job, alive>>

Slots == Clients \cup {NULL}

\* pop: about to lock and look at free_redis_; create: found it empty;
\* push: about to lock and put ptr back; delete: found it full.
Jobs == [step : {"none", "pop", "create", "push", "delete"},
         flag : Flags, ptr : Slots]

NoJob == [step |-> "none", flag |-> "kThreadSpecific", ptr |-> NULL]

TypeOK ==
  /\ live \subseteq Clients
  /\ free_redis_ \in Seq(Clients)
  /\ client_ \in [Threads -> Slots]
  /\ held \in [Threads -> Slots]
  /\ job \in [Threads -> Jobs]
  /\ alive \in BOOLEAN

Init ==
  /\ live = {}
  /\ free_redis_ = << >>
  /\ client_ = [t \in Threads |-> NULL]
  /\ held = [t \in Threads |-> NULL]
  /\ job = [t \in Threads |-> NoJob]
  /\ alive = TRUE

-----------------------------------------------------------------------------
\* The clients in the pool.
Pooled == {free_redis_[i] : i \in 1..Len(free_redis_)}

\* get(flag).  With kThreadSpecific and a client in the slot it returns that
\* client and changes nothing.
get(t, flag) ==
  /\ alive
  /\ job[t] = NoJob
  /\ flag = "kThreadSpecific" => client_[t] = NULL
  /\ flag = "kNotThreadSpecific" => held[t] = NULL
  /\ job' = [job EXCEPT ![t] = [step |-> "pop", flag |-> flag, ptr |-> NULL]]
  /\ UNCHANGED <<live, free_redis_, client_, held, alive>>

\* get() hands c to the thread: client_.reset(c) or just the return value.
Deliver(t, c) ==
  /\ IF job[t].flag = "kThreadSpecific"
       THEN client_' = [client_ EXCEPT ![t] = c] /\ UNCHANGED held
       ELSE held' = [held EXCEPT ![t] = c] /\ UNCHANGED client_
  /\ job' = [job EXCEPT ![t] = NoJob]

\* Mutant of get_free_redis: back() without pop_back().
get_free_redis_no_pop(t) ==
  /\ job[t].step = "pop"
  /\ \/ /\ free_redis_ # << >>
        /\ Deliver(t, free_redis_[Len(free_redis_)])
     \/ /\ free_redis_ = << >>
        /\ job' = [job EXCEPT ![t].step = "create"]
        /\ UNCHANGED <<client_, held>>
  /\ UNCHANGED <<live, free_redis_, alive>>

\* get_free_redis: the pool gives its last client, or NULL.
get_free_redis(t) ==
  /\ job[t].step = "pop"
  /\ \/ /\ free_redis_ # << >>
        /\ Deliver(t, free_redis_[Len(free_redis_)])
        /\ free_redis_' = SubSeq(free_redis_, 1, Len(free_redis_) - 1)
     \/ /\ free_redis_ = << >>
        /\ job' = [job EXCEPT ![t].step = "create"]
        /\ UNCHANGED <<free_redis_, client_, held>>
  /\ UNCHANGED <<live, alive>>

\* get_free_or_create_redis: new Redis2 or new Redis2P, outside the lock.
create_redis(t) ==
  /\ job[t].step = "create"
  /\ \E c \in Clients \ live :
       /\ live' = live \cup {c}
       /\ Deliver(t, c)
  /\ UNCHANGED <<free_redis_, alive>>

\* Mutants of ReleaseSlot: no check for NULL; no release() of the slot.
ReleaseAnySlot(t) ==
  /\ client_' = [client_ EXCEPT ![t] = NULL]
  /\ job' = [job EXCEPT ![t] = [step |-> "push", flag |-> "kThreadSpecific",
                                ptr |-> client_[t]]]

KeepSlot(t) ==
  /\ client_[t] # NULL
  /\ job' = [job EXCEPT ![t] = [step |-> "push", flag |-> "kThreadSpecific",
                                ptr |-> client_[t]]]
  /\ UNCHANGED client_

\* The slot is emptied without a cleanup, its client is about to be pooled.
ReleaseSlot(t) ==
  /\ client_[t] # NULL
  /\ client_' = [client_ EXCEPT ![t] = NULL]
  /\ job' = [job EXCEPT ![t] = [step |-> "push", flag |-> "kThreadSpecific",
                                ptr |-> client_[t]]]

\* put(redis, kThreadSpecific) of the thread's own client.
put_thread_specific(t) ==
  /\ alive
  /\ job[t] = NoJob
  /\ ReleaseSlot(t)
  /\ UNCHANGED <<live, free_redis_, held, alive>>

\* put(redis, kNotThreadSpecific): redis is not the one in the slot.
put_not_thread_specific(t) ==
  /\ alive
  /\ job[t] = NoJob
  /\ held[t] # NULL
  /\ held' = [held EXCEPT ![t] = NULL]
  /\ job' = [job EXCEPT ![t] = [step |-> "push", flag |-> "kNotThreadSpecific",
                                ptr |-> held[t]]]
  /\ UNCHANGED <<live, free_redis_, client_, alive>>

\* Mutant of IsFull: > for >=.
IsOverfull == Len(free_redis_) > pool_size_

IsFull == Len(free_redis_) >= pool_size_

\* Mutants of put_free_redis: no else before push_back(); no delete.
put_and_delete(t) ==
  /\ job[t].step = "push"
  /\ \/ /\ IsFull
        /\ job' = [job EXCEPT ![t].step = "delete"]
     \/ /\ ~IsFull
        /\ job' = [job EXCEPT ![t] = NoJob]
  /\ free_redis_' = Append(free_redis_, job[t].ptr)
  /\ UNCHANGED <<live, client_, held, alive>>

put_without_delete(t) ==
  /\ job[t].step = "push"
  /\ job' = [job EXCEPT ![t] = NoJob]
  /\ free_redis_' = IF IsFull THEN free_redis_
                             ELSE Append(free_redis_, job[t].ptr)
  /\ UNCHANGED <<live, client_, held, alive>>

\* put_free_redis: keep the client, or unlock and delete it when full.
put_free_redis(t) ==
  /\ job[t].step = "push"
  /\ \/ /\ IsFull
        /\ job' = [job EXCEPT ![t].step = "delete"]
        /\ UNCHANGED free_redis_
     \/ /\ ~IsFull
        /\ free_redis_' = Append(free_redis_, job[t].ptr)
        /\ job' = [job EXCEPT ![t] = NoJob]
  /\ UNCHANGED <<live, client_, held, alive>>

delete_redis(t) ==
  /\ job[t].step = "delete"
  /\ live' = live \ {job[t].ptr}
  /\ job' = [job EXCEPT ![t] = NoJob]
  /\ UNCHANGED <<free_redis_, client_, held, alive>>

\* The thread ends; the cleanup handler of its slot is put_free_redis.
thread_exit(t) ==
  /\ alive
  /\ job[t] = NoJob
  /\ held[t] = NULL
  /\ ReleaseSlot(t)
  /\ UNCHANGED <<live, free_redis_, held, alive>>

\* delete free_redis_[i] for every i, then clear().
clear_free_redis ==
  /\ live' = live \ Pooled
  /\ free_redis_' = << >>

\* ~Impl in thread t, once all other threads have ended and all clients lent
\* with kNotThreadSpecific are back: clear_free_redis, then the destructor of
\* client_, whose handler pools the client in t's own slot.
destroy(t) ==
  /\ alive
  /\ \A u \in Threads :
       job[u] = NoJob /\ held[u] = NULL /\ (u # t => client_[u] = NULL)
  /\ alive' = FALSE
  /\ clear_free_redis
  /\ ReleaseSlot(t) \/ (client_[t] = NULL /\ UNCHANGED <<client_, job>>)
  /\ UNCHANGED held

Next ==
  \E t \in Threads :
    \/ \E flag \in Flags : get(t, flag)
    \/ get_free_redis(t)
    \/ create_redis(t)
    \/ put_thread_specific(t)
    \/ put_not_thread_specific(t)
    \/ put_free_redis(t)
    \/ delete_redis(t)
    \/ thread_exit(t)
    \/ destroy(t)

Spec == Init /\ [][Next]_vars

-----------------------------------------------------------------------------
(***************************************************************************)
(* Properties.                                                             *)
(***************************************************************************)

\* The clients that a thread has a pointer to.
Owned(t) == {client_[t], held[t], job[t].ptr} \ {NULL}

\* No two threads ever use the same client (a Redis2 is not thread safe), and
\* no client is both in use and on offer in the pool or there twice.
Exclusive ==
  /\ \A t, u \in Threads : t # u => Owned(t) \cap Owned(u) = {}
  /\ \A t \in Threads : Owned(t) \cap Pooled = {}
  /\ \A t \in Threads :
       /\ client_[t] = held[t] => client_[t] = NULL
       /\ client_[t] = job[t].ptr => client_[t] = NULL
       /\ held[t] = job[t].ptr => held[t] = NULL
  /\ \A i, j \in 1..Len(free_redis_) :
       free_redis_[i] = free_redis_[j] => i = j

\* A pointer that a thread or the pool still has is never to a deleted object.
NoDangling == Pooled \subseteq live /\ \A t \in Threads : Owned(t) \subseteq live

\* As long as the pool exists, no client is lost: each one is in the pool or
\* a thread has it.
NoLeak == alive => live \subseteq Pooled \cup UNION {Owned(t) : t \in Threads}

\* The pool never keeps more than pool_size_ idle connections.
PoolBound == Len(free_redis_) <= pool_size_

\* redis_tss.h:48-54: with the three usages a client leaks only if one
\* obtained with kNotThreadSpecific is not put back.  So when the RedisTss is
\* gone and its threads are out of it, nothing is left.
NothingLeaks ==
  ~alive /\ (\A t \in Threads : job[t] = NoJob) => live = {}

-----------------------------------------------------------------------------
(***************************************************************************)
(* The inductive invariant behind Exclusive, NoDangling and NoLeak: what   *)
(* get() and put() rely on between two accesses to free_redis_.            *)
(***************************************************************************)

\* Inside get() a thread has no pointer in hand and nothing in the place where
\* the client is going to be put; inside put() it has one.
JobsReady ==
  \A t \in Threads :
    /\ job[t].step \in {"pop", "create"} =>
         /\ job[t].ptr = NULL
         /\ job[t].flag = "kThreadSpecific" => client_[t] = NULL
         /\ job[t].flag = "kNotThreadSpecific" => held[t] = NULL
    /\ job[t].step \in {"push", "delete"} => job[t].ptr # NULL

Ownership ==
  /\ TypeOK
  /\ JobsReady
  /\ Exclusive
  /\ NoDangling
  /\ NoLeak
  /\ PoolBound

-----------------------------------------------------------------------------
(***************************************************************************)
(* RedisTss implements ClientPool: a client belongs to the thread that has *)
(* a pointer to it, is idle when free_redis_ holds it, is absent otherwise.*)
(***************************************************************************)
owner ==
  [c \in Clients |->
     IF \E t \in Threads : c \in Owned(t)
       THEN CHOOSE t \in Threads : c \in Owned(t)
       ELSE IF c \in Pooled THEN "idle" ELSE NULL]

Pool == INSTANCE ClientPool WITH PoolSize <- pool_size_, Absent <- NULL,
                                 Idle <- "idle"

\* Each client is borrowed by one thread at a time, comes from the pool or is
\* new, and goes back to it or is destroyed, as ClientPool prescribes.
ImplementsPool == Pool!Spec
=============================================================================
