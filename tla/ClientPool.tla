----------------------------- MODULE ClientPool -----------------------------
(***************************************************************************)
(* What RedisTss promises its callers.  Each client object is absent, idle *)
(* in the pool, or lent to exactly one thread.  A thread borrows an idle   *)
(* client or a new one; a client that comes back is kept only while fewer  *)
(* than PoolSize clients are idle.                                         *)
(***************************************************************************)
EXTENDS Naturals, FiniteSets

CONSTANTS Threads, Clients, PoolSize, Absent, Idle

VARIABLE owner        \* where each client is

IdleClients == {c \in Clients : owner[c] = Idle}

Init == owner = [c \in Clients |-> Absent]

Borrow(t, c) ==
  /\ owner[c] \in {Idle, Absent}
  /\ owner' = [owner EXCEPT ![c] = t]

GiveBack(t, c) ==
  /\ owner[c] = t
  /\ Cardinality(IdleClients) < PoolSize
  /\ owner' = [owner EXCEPT ![c] = Idle]

Destroy(t, c) ==
  /\ owner[c] = t
  /\ owner' = [owner EXCEPT ![c] = Absent]

Clear ==
  owner' = [c \in Clients |-> IF owner[c] = Idle THEN Absent ELSE owner[c]]

Next ==
  \/ \E t \in Threads, c \in Clients :
       Borrow(t, c) \/ GiveBack(t, c) \/ Destroy(t, c)
  \/ Clear

Spec == Init /\ [][Next]_owner
=============================================================================
