------------------------------ MODULE Redis2P ------------------------------
(***************************************************************************)
(* The partitioned client: class Redis2P (redis_partition.cpp).  The hosts *)
(* form groups_ groups of host_num hosts; each group is a full copy of the *)
(* data, in which a key lives on the host that its hash selects.  A write  *)
(* goes to that host of every group, a read to one group after another     *)
(* until one answers.                                                      *)
(*                                                                         *)
(* Several threads, each with a Redis2P of its own (from RedisTss), work   *)
(* on the same servers.  A method is cut into its calls of Redis2, one per *)
(* host, each of which may fail with the server having executed it or not. *)
(* What a key holds is one value.  The methods built by                    *)
(* FOR_EACH_GROUP_READ are read.  Those built by FOR_EACH_GROUP_WRITE are  *)
(* write when they replace what the key holds (set, setex, getset), update *)
(* when the result depends on what each server held before (incr, append,  *)
(* setnx, hset, lpop), and spop, move and hsetnx.  Keys do not expire.     *)
(* Each object works in a database per host, which select changes at one   *)
(* host after another.                                                     *)
(***************************************************************************)
EXTENDS Integers, Sequences, FiniteSets

CONSTANTS
  Callers,        \* threads, each with its own Redis2P
  Keys,
  KeyLists,       \* the key vectors passed to del, mget and mset
  Values,
  Nil,            \* the key does not exist
  Changes,        \* calls of incr, append, setnx, lpop ...
  effect,         \* of each change: the new contents for the old ones
  Databases,      \* database numbers
  HostCount,      \* hosts_.size()
  partitions_,
  hash_fn_,       \* of each key
  thread_id       \* of each caller: the seed

ASSUME Redis2PAssumption ==
  /\ IsFiniteSet(Keys)
  /\ KeyLists \subseteq Seq(Keys) \ {<< >>}
  /\ Nil \notin Values
  /\ effect \in [Changes -> [Values \cup {Nil} -> Values \cup {Nil}]]
  /\ Databases # {}
  /\ HostCount \in Nat \ {0}
  /\ partitions_ \in Nat
  /\ hash_fn_ \in [Keys -> Nat]
  /\ thread_id \in [Callers -> Nat]

groups_ == HostCount \div partitions_

\* The constructor throws unless this holds.
inner_init ==
  /\ partitions_ # 0
  /\ groups_ # 0
  /\ HostCount % groups_ = 0

host_num == HostCount \div groups_

Hosts == 0..(HostCount - 1)
Contents == Values \cup {Nil}

-----------------------------------------------------------------------------
(***************************************************************************)
(* Routing.                                                                *)
(***************************************************************************)

\* Mutant of get_key_host_index: modulo the number of all hosts.
get_key_host_index_of_all(k) == hash_fn_[k] % HostCount

get_key_host_index(k) == hash_fn_[k] % host_num

\* The copy of key k in group g.
Index(k, g) == get_key_host_index(k) + host_num * g

Replicas(k) == {Index(k, g) : g \in 0..(groups_ - 1)}

\* Mutant of get_key_client: the group's number without host_num.
get_key_client_unscaled(c, k) ==
  [i \in 1..groups_ |->
     get_key_host_index(k) + ((thread_id[c] + i - 1) % groups_)]

\* All groups, beginning with the one that the thread's seed selects.
get_key_client(c, k) ==
  [i \in 1..groups_ |-> Index(k, (thread_id[c] + i - 1) % groups_)]

get_keys_client(k) == [i \in 1..groups_ |-> Index(k, i - 1)]

\* The hosts of the group that the seed selects.
get_group_client(c) ==
  [i \in 1..host_num |-> (thread_id[c] % groups_) * host_num + i - 1]

-----------------------------------------------------------------------------
VARIABLES
  store,      \* external: what each server has stored in each database
  db,         \* db_index_ of the Redis2 that each caller has for each host
  job,        \* the method that each caller is inside of
  last,       \* ghost: what the last complete write of each key left
  torn,       \* ghost: the copies of the key may differ
  right       \* ghost: the last method that returned true did what it says

vars == <<store, db, job, last, torn, right>>

KeyedWrites == {"write", "update", "hsetnx", "spop", "move", "mset", "del"}
Reads == {"read", "mget"}
Flushes == {"flushdb", "flushall"}
Ops == {"none", "keys", "select"} \cup KeyedWrites \cup Reads \cup Flushes

(***************************************************************************)
(* A method: its keys and the one it has come to, the value it writes, the *)
(* change it makes or the database it selects or moves the key to, the     *)
(* hosts still to be called (for that key), what it has collected, the     *)
(* number that it will return, whether no call has failed.  Ghosts: clash, *)
(* another write of the same key overlaps; calm, nobody else wrote since   *)
(* the method began; before, the data at that time, as long as calm holds. *)
(***************************************************************************)
Jobs == [op : Ops, keys : Seq(Keys), i : Nat, value : Contents \cup Changes \cup Databases,
         hosts : Seq(Hosts), got : Seq(Contents \cup Keys), n : Nat,
         ok : BOOLEAN, clash : BOOLEAN, calm : BOOLEAN,
         before : [Keys -> Contents]]

Nothing == [k \in Keys |-> Nil]
Everywhere(x) == [d \in Databases |-> x]

NoJob == [op |-> "none", keys |-> << >>, i |-> 1, value |-> Nil,
          hosts |-> << >>, got |-> << >>, n |-> 0, ok |-> TRUE,
          clash |-> FALSE, calm |-> TRUE, before |-> Nothing]

TypeOK ==
  /\ store \in [Hosts -> [Databases -> [Keys -> Contents]]]
  /\ db \in [Callers -> [Hosts -> Databases]]
  /\ job \in [Callers -> Jobs]
  /\ \A c \in Callers : job[c].op \in KeyedWrites \cup Reads =>
       job[c].i \in 1..Len(job[c].keys)
  /\ \A c \in Callers : job[c].op # "none" => job[c].hosts # << >>
  /\ last \in [Databases -> [Keys -> Contents]]
  /\ torn \in [Databases -> [Keys -> BOOLEAN]]
  /\ right \in BOOLEAN

Init ==
  /\ inner_init
  /\ store = [h \in Hosts |-> Everywhere(Nothing)]
  /\ \E d \in Databases : db = [c \in Callers |-> [h \in Hosts |-> d]]
  /\ job = [c \in Callers |-> NoJob]
  /\ last = Everywhere(Nothing)
  /\ torn = Everywhere([k \in Keys |-> FALSE])
  /\ right = TRUE

-----------------------------------------------------------------------------
(***************************************************************************)
(* Beginning a method, or its next key.                                    *)
(***************************************************************************)

\* The databases in which c sees the hosts hs.
DbsAt(c, hs) == {db[c][h] : h \in hs \cap Hosts}

\* The key that j has come to, and what j, a method of c, is writing now.
KeyOf(j) == j.keys[j.i]
Writing(c, j) ==
  CASE j.op = "move" -> (DbsAt(c, Replicas(KeyOf(j))) \cup {j.value}) \X {KeyOf(j)}
    [] j.op \in KeyedWrites \ {"move"} -> DbsAt(c, Replicas(KeyOf(j))) \X {KeyOf(j)}
    [] j.op = "flushdb"  -> DbsAt(c, Hosts) \X Keys
    [] j.op = "flushall" -> Databases \X Keys
    [] OTHER -> {}

\* c goes on with j, which may cross the writes of others.
Enter(c, j) ==
  LET crosses(u) == Writing(u, job[u]) \cap Writing(c, j) # {}
  IN  job' = [u \in Callers |->
        IF u = c
          THEN [j EXCEPT !.clash = \E w \in Callers \ {c} : crosses(w)]
          ELSE IF Writing(c, j) = {} \/ job[u].op = "none" THEN job[u]
          ELSE [job[u] EXCEPT !.clash = @ \/ crosses(u), !.calm = FALSE,
                              !.before = Nothing]]

HostsFor(c, op, k) ==
  IF op = "del" THEN get_keys_client(k) ELSE get_key_client(c, k)

\* Nobody is writing, and all groups agree on the one database of c.
IsCalm(c) ==
  /\ \A d1, d2 \in DbsAt(c, Hosts) : d1 = d2
  /\ \A d \in DbsAt(c, Hosts), k \in Keys : ~torn[d][k]
  /\ \A u \in Callers : Writing(u, job[u]) = {}

Begin(c, op, ks, value, hosts) ==
  /\ job[c].op = "none"
  /\ Enter(c, [NoJob EXCEPT !.op = op, !.keys = ks, !.value = value,
                 !.hosts = hosts, !.calm = IsCalm(c),
                 !.before = IF IsCalm(c) THEN last[db[c][0]] ELSE Nothing])
  /\ UNCHANGED <<store, db, last, torn, right>>

\* FOR_EACH_GROUP_WRITE of what replaces the old contents: set, setex, getset,
\* del of one key.
write(c) ==
  \E k \in Keys, v \in Contents :
    Begin(c, "write", <<k>>, v, get_key_client(c, k))

\* FOR_EACH_GROUP_WRITE of what each server computes from its own contents:
\* incr, append, setnx, restore, hset, hincrby, lpush, lpop, sadd ...
update(c) ==
  \E k \in Keys, x \in Changes :
    Begin(c, "update", <<k>>, x, get_key_client(c, k))

\* hsetnx calls hset, which overwrites; what is stored stands for the field.
hsetnx(c) ==
  \E k \in Keys, v \in Values :
    Begin(c, "hsetnx", <<k>>, v, get_key_client(c, k))

\* spop removes a member that each server chooses.
spop(c) ==
  \E k \in Keys : Begin(c, "spop", <<k>>, Nil, get_key_client(c, k))

\* move to another database of the same servers.
move(c) ==
  \E k \in Keys, d \in Databases :
    Begin(c, "move", <<k>>, d, get_key_client(c, k))

\* FOR_EACH_GROUP_READ: get, exists, and all others of its kind.
read(c) ==
  \E k \in Keys : Begin(c, "read", <<k>>, Nil, get_key_client(c, k))

mget(c) ==
  \E ks \in KeyLists : Begin(c, "mget", ks, Nil, get_key_client(c, ks[1]))

mset(c) ==
  \E ks \in KeyLists, v \in Values :
    Begin(c, "mset", ks, v, get_key_client(c, ks[1]))

del(c) ==
  \E ks \in KeyLists : Begin(c, "del", ks, Nil, get_keys_client(ks[1]))

keys(c) == Begin(c, "keys", << >>, Nil, get_group_client(c))

\* redis2_sp_vector_, which flushall, flushdb and select go through.
AllHosts == [i \in 1..HostCount |-> i - 1]

flush(c) == \E op \in Flushes : Begin(c, op, << >>, Nil, AllHosts)

select(c) == \E index \in Databases : Begin(c, "select", << >>, index, AllHosts)

-----------------------------------------------------------------------------
(***************************************************************************)
(* Calling one host.                                                       *)
(***************************************************************************)

Host(c) == Head(job[c].hosts)
Held(c) == store[Host(c)][db[c][Host(c)]]    \* what the host has for c
LastHost(c) == Len(job[c].hosts) = 1
LastKey(c) == job[c].i = Len(job[c].keys)

Finish(c) == job' = [job EXCEPT ![c] = NoJob]

\* j with one more key done, on its way to the next.
NextKey(c, j) ==
  [j EXCEPT !.i = @ + 1, !.hosts = HostsFor(c, j.op, j.keys[j.i + 1])]

\* What a server that held old holds after the call; what spop leaves is up to
\* the server.
NewContents(c, old) ==
  CASE job[c].op = "update" -> {effect[job[c].value][old]}
    [] job[c].op = "spop" -> IF old = Nil THEN {Nil} ELSE Contents
    [] OTHER -> {job[c].value}

\* The call of del returns 1 if the key existed.
Existed(c) == IF Held(c)[KeyOf(job[c])] # Nil THEN 1 ELSE 0

\* Mutant of DeletedNow: counted in every group.
DeletedInEveryGroup(c) == Existed(c)

\* total_deleted grows by what the last group has answered.
DeletedNow(c) == IF LastHost(c) THEN Existed(c) ELSE 0

\* The keys of list ks that exist in data.
Existing(ks, data) == {k \in Keys : data[k] # Nil /\ \E i \in 1..Len(ks) : ks[i] = k}

\* The server (external) moves the key if it exists here and not there.
MoveOn(h, from, to, k) ==
  IF store[h][from][k] # Nil /\ store[h][to][k] = Nil
    THEN [store EXCEPT ![h][from][k] = Nil, ![h][to][k] = store[h][from][k]]
    ELSE store

\* The host executes the call; it refuses to move a key to where it is.
WriteHost(c) ==
  LET h == Host(c)
      d == db[c][h]
      k == KeyOf(job[c])
  IN  \/ /\ job[c].op = "move"
         /\ d # job[c].value
         /\ store' = MoveOn(h, d, job[c].value, k)
      \/ /\ job[c].op # "move"
         /\ \E v \in NewContents(c, Held(c)[k]) :
              store' = [store EXCEPT ![h][d][k] = v]

\* The entries of f, a function of databases and keys, that c is writing
\* become x.
Update(f, c, x) ==
  [d \in Databases |-> [k \in Keys |->
     IF <<d, k>> \in Writing(c, job[c]) THEN x ELSE f[d][k]]]

\* Some groups see c's write in one database and some in another.
Divided(c) == \E x, y \in Writing(c, job[c]) : x[1] # y[1]

\* These leave the same contents in every group whatever was there before.
Repairs == {"write", "mset", "del"}

\* What a complete write of c leaves of f, a function like last; nothing is
\* said of what spop and move leave.
Written(f, c) ==
  CASE job[c].op = "update" ->
         [d \in Databases |-> [k \in Keys |->
            IF <<d, k>> \in Writing(c, job[c])
              THEN effect[job[c].value][f[d][k]] ELSE f[d][k]]]
    [] job[c].op = "move" -> f
    [] OTHER -> Update(f, c, job[c].value)

\* Whether the copies of its keys may differ after a complete write of c.
TornBy(c) ==
  LET differ == job[c].clash \/ job[c].op \in {"spop", "move"} \/ Divided(c)
  IN  IF differ \/ job[c].op \in Repairs THEN Update(torn, c, differ) ELSE torn

\* One host has done the write, and there are more groups ...
write_next_group(c) ==
  /\ job[c].op \in KeyedWrites
  /\ ~LastHost(c)
  /\ WriteHost(c)
  /\ job' = [job EXCEPT ![c].hosts = Tail(@), ![c].n = @ + DeletedNow(c)]
  /\ UNCHANGED <<db, last, torn, right>>

\* ... or it was the last one: the next key, or return true.
write_last_group(c) ==
  /\ job[c].op \in KeyedWrites
  /\ LastHost(c)
  /\ WriteHost(c)
  /\ last' = Written(last, c)
  /\ torn' = TornBy(c)
  /\ \/ /\ ~LastKey(c)
        /\ Enter(c, NextKey(c, [job[c] EXCEPT !.n = @ + DeletedNow(c)]))
        /\ UNCHANGED right
     \/ /\ LastKey(c)
        /\ right' = (job[c].op = "del" /\ job[c].calm =>
                       job[c].n + DeletedNow(c) =
                         Cardinality(Existing(job[c].keys, job[c].before)))
        /\ Finish(c)
  /\ UNCHANGED db

\* Mutant of write_fails: go on with the other groups.
write_skips_group(c) ==
  /\ job[c].op \in KeyedWrites
  /\ IF LastHost(c)
       THEN /\ Finish(c)
            /\ last' = Written(last, c)
            /\ torn' = TornBy(c)
       ELSE /\ job' = [job EXCEPT ![c].hosts = Tail(@)]
            /\ UNCHANGED <<last, torn>>
  /\ UNCHANGED <<store, db, right>>

\* Mutant of write_fails: call the same host again, executed or not.
write_repeats(c) ==
  /\ job[c].op \in KeyedWrites
  /\ UNCHANGED store \/ WriteHost(c)
  /\ UNCHANGED <<db, job, last, torn, right>>

\* The call fails, executed or not: return false; the groups before it have
\* the new value, those after it the old one.
write_fails(c) ==
  /\ job[c].op \in KeyedWrites
  /\ UNCHANGED store \/ WriteHost(c)
  /\ torn' = Update(torn, c, TRUE)
  /\ Finish(c)
  /\ UNCHANGED <<db, last, right>>

\* A host answers: the next key, or return true.
read_host(c) ==
  LET j == job[c]
      got == Append(j.got, Held(c)[KeyOf(j)])
  IN  /\ j.op \in Reads
      /\ \/ /\ ~LastKey(c)
            /\ Enter(c, NextKey(c, [j EXCEPT !.got = got]))
            /\ UNCHANGED right
         \/ /\ LastKey(c)
            /\ right' = (j.calm =>
                 got = [i \in 1..Len(j.keys) |-> j.before[j.keys[i]]])
            /\ Finish(c)
      /\ UNCHANGED <<store, db, last, torn>>

\* It does not: the next group, or return false.
read_fails(c) ==
  /\ job[c].op \in Reads
  /\ IF LastHost(c) THEN Finish(c)
                    ELSE job' = [job EXCEPT ![c].hosts = Tail(@)]
  /\ UNCHANGED <<store, db, last, torn, right>>

\* keys() of one host of the group, appended to those before.
keys_host(c) ==
  LET j == job[c]
      stored == {k \in Keys : Held(c)[k] # Nil}
  IN  /\ j.op = "keys"
      /\ \E names \in [1..Cardinality(stored) -> stored] :
           /\ \A k \in stored : \E i \in DOMAIN names : names[i] = k
           /\ LET got == j.got \o names
              IN IF LastHost(c)
                   THEN /\ right' = (j.calm =>
                             /\ Len(got) = Cardinality({k \in Keys : j.before[k] # Nil})
                             /\ \A k \in Keys : j.before[k] # Nil =>
                                  \E i \in 1..Len(got) : got[i] = k)
                        /\ Finish(c)
                   ELSE /\ job' = [job EXCEPT ![c].hosts = Tail(@), ![c].got = got]
                        /\ UNCHANGED right
      /\ UNCHANGED <<store, db, last, torn>>

keys_fails(c) ==
  /\ job[c].op = "keys"
  /\ Finish(c)
  /\ UNCHANGED <<store, db, last, torn, right>>

\* flushdb or flushall of one host; a failure is remembered and the loop
\* goes on.
flush_host(c) ==
  \E done \in BOOLEAN, executed \in BOOLEAN :
    LET j  == job[c]
        ok == j.ok /\ done
        divided == j.op = "flushdb" /\ Divided(c)
    IN  /\ j.op \in Flushes
        /\ done => executed
        /\ \/ ~executed /\ UNCHANGED store
           \/ /\ executed /\ j.op = "flushdb"
              /\ store' = [store EXCEPT ![Host(c)][db[c][Host(c)]] = Nothing]
           \/ /\ executed /\ j.op = "flushall"
              /\ store' = [store EXCEPT ![Host(c)] = Everywhere(Nothing)]
        /\ IF LastHost(c)
             THEN /\ torn' = Update(torn, c, j.clash \/ ~ok \/ divided)
                  /\ last' = Update(last, c, Nil)
                  /\ Finish(c)
             ELSE /\ job' = [job EXCEPT ![c].hosts = Tail(@), ![c].ok = ok]
                  /\ UNCHANGED <<last, torn>>
        /\ UNCHANGED <<db, right>>

\* Mutant of ReturnValue: the last host decides.
ReturnOfLastHost(c, done) == done

\* ret becomes false at the first failure and stays so.
ReturnValue(c, done) == job[c].ok /\ done

\* Redis2::select of one host: db_index_ changes if the server said OK.
select_host(c) ==
  \E done \in BOOLEAN :
    /\ job[c].op = "select"
    /\ db' = IF done THEN [db EXCEPT ![c][Host(c)] = job[c].value] ELSE db
    /\ IF LastHost(c)
         THEN /\ right' = (ReturnValue(c, done) =>
                             \A h \in Hosts : db'[c][h] = job[c].value)
              /\ Finish(c)
         ELSE /\ job' = [job EXCEPT ![c].hosts = Tail(@),
                                    ![c].ok = ReturnValue(c, done)]
              /\ UNCHANGED right
    /\ UNCHANGED <<store, last, torn>>

Next ==
  \E c \in Callers :
    \/ write(c) \/ update(c) \/ hsetnx(c) \/ spop(c) \/ move(c) \/ read(c)
    \/ mget(c) \/ mset(c) \/ del(c) \/ keys(c) \/ flush(c)
    \/ select(c)
    \/ write_next_group(c) \/ write_last_group(c) \/ write_fails(c)
    \/ read_host(c) \/ read_fails(c)
    \/ keys_host(c) \/ keys_fails(c) \/ flush_host(c) \/ select_host(c)

Spec == Init /\ [][Next]_vars

-----------------------------------------------------------------------------
(***************************************************************************)
(* Properties.                                                             *)
(***************************************************************************)

\* A key is only ever stored where a reader looks for it, whichever of the
\* routing functions and whichever seed chose the hosts.
Placement ==
  \A h \in Hosts, d \in Databases, k \in Keys :
    store[h][d][k] # Nil => h \in Replicas(k)

\* Once a write has returned true every group holds what it left, until the
\* next write of that key begins.  A write that failed, crossed another one or
\* came from an object that works in two databases ends that, as spop and move
\* do; the next complete set, mset, del or flush in one database restores it.
\* A complete incr, setnx or lpop keeps groups equal that were equal before,
\* and restores nothing: it changes each group's own contents.
Replicated ==
  \A d \in Databases, k \in Keys :
    (~torn[d][k] /\ \A c \in Callers : <<d, k>> \notin Writing(c, job[c])) =>
      \A h \in Replicas(k) : store[h][d][k] = last[d][k]

\* While nobody else writes and all groups agree, a method that returns true
\* tells the truth, whichever group answered: get and mget return each key's
\* value in the order asked for, del the number of keys that existed, keys
\* every key once.  A select that returns true has switched every host.
Truthful == right

-----------------------------------------------------------------------------
(***************************************************************************)
(* The inductive invariant behind these properties.                        *)
(***************************************************************************)

\* These store the value that the method was given.
Overwrites == Repairs \cup {"hsetnx"}

\* The hosts that c is still going to call for this key.
Remaining(c) == {job[c].hosts[i] : i \in 1..Len(job[c].hosts)}

\* A key is only looked for and written where its copies are, and a method
\* has an argument of its kind.
Routed ==
  \A c \in Callers :
    /\ job[c].op \in KeyedWrites \cup Reads => Remaining(c) \subseteq Replicas(KeyOf(job[c]))
    /\ job[c].op \in Overwrites \cup {"spop"} => job[c].value \in Contents
    /\ job[c].op = "update" => job[c].value \in Changes /\ Len(job[c].keys) = 1
    /\ job[c].op \in {"move", "select"} => job[c].value \in Databases

\* A method that writes what somebody else is writing knows it.
Apart ==
  \A c, u \in Callers :
    c # u /\ ~job[c].clash => Writing(c, job[c]) \cap Writing(u, job[u]) = {}

\* What a write or a flush that nothing has disturbed has done so far.
Underway ==
  \A c \in Callers :
    /\ job[c].op \in Overwrites /\ ~job[c].clash /\ ~Divided(c) =>
         \A w \in Writing(c, job[c]), h \in Replicas(KeyOf(job[c])) \ Remaining(c) :
           store[h][w[1]][w[2]] = job[c].value
    /\ /\ job[c].op \in Flushes /\ job[c].ok /\ ~job[c].clash
       /\ job[c].op = "flushdb" => ~Divided(c)
       => \A w \in Writing(c, job[c]), h \in Hosts \ Remaining(c) :
            store[h][w[1]][w[2]] = Nil

\* A relative or conditional write of equal copies has changed some of them.
UpdateUnderway ==
  \A c \in Callers :
    job[c].op = "update" =>
      /\ \A m, n \in 1..Len(job[c].hosts) : job[c].hosts[m] = job[c].hosts[n] => m = n
      /\ ~job[c].clash /\ ~Divided(c) =>
           \A w \in Writing(c, job[c]), h \in Replicas(KeyOf(job[c])) :
             ~torn[w[1]][w[2]] =>
               store[h][w[1]][w[2]] =
                 IF h \in Remaining(c) THEN last[w[1]][w[2]]
                 ELSE effect[job[c].value][last[w[1]][w[2]]]

Switched ==
  \A c \in Callers :
    job[c].op = "select" /\ job[c].ok =>
      \A h \in Hosts \ Remaining(c) : db[c][h] = job[c].value

\* The keys in the list of c that are done.
Done(c) == {k \in Keys : \E m \in 1..(job[c].i - 1) : job[c].keys[m] = k}

\* The hosts of the group that keys() of c has called.
Called(c) == host_num - Len(job[c].hosts)

\* What a method that nobody disturbs can rely on.
Undisturbed ==
  \A c \in Callers :
    job[c].op \in Reads \cup {"keys", "del"} /\ job[c].calm =>
      /\ \A u \in Callers \ {c} : Writing(u, job[u]) = {}
      /\ \A h \in Hosts : db[c][h] = db[c][0]
      /\ \A k \in Keys : ~torn[db[c][0]][k]
      /\ job[c].op # "del" => \A k \in Keys : last[db[c][0]][k] = job[c].before[k]

DelUndisturbed ==
  \A c \in Callers :
    job[c].op = "del" /\ job[c].calm =>
      /\ ~job[c].clash
      /\ job[c].value = Nil
      /\ \A k \in Keys : last[db[c][0]][k] = IF k \in Done(c) THEN Nil ELSE job[c].before[k]
      /\ \A h \in Remaining(c) : store[h][db[c][0]][KeyOf(job[c])] = last[db[c][0]][KeyOf(job[c])]
      /\ \A m, n \in 1..Len(job[c].hosts) : job[c].hosts[m] = job[c].hosts[n] => m = n
      /\ job[c].n = Cardinality({k \in Done(c) : job[c].before[k] # Nil})

ReadUndisturbed ==
  \A c \in Callers :
    job[c].op \in Reads /\ job[c].calm =>
      /\ Len(job[c].got) = job[c].i - 1
      /\ \A m \in 1..(job[c].i - 1) : job[c].got[m] = job[c].before[job[c].keys[m]]

KeysUndisturbed ==
  \A c \in Callers :
    job[c].op = "keys" =>
      /\ Len(job[c].hosts) <= host_num
      /\ \A m \in 1..Len(job[c].hosts) :
           job[c].hosts[m] = (thread_id[c] % groups_) * host_num + Called(c) + m - 1
      /\ job[c].calm =>
           LET listed == {k \in Keys : job[c].before[k] # Nil /\ get_key_host_index(k) < Called(c)}
           IN  /\ Len(job[c].got) = Cardinality(listed)
               /\ \A k \in listed : \E m \in 1..Len(job[c].got) : job[c].got[m] = k

\* What is stored, and then what the methods return.
StoreInv == inner_init /\ TypeOK /\ Routed /\ Apart /\ Underway /\ UpdateUnderway
            /\ Placement /\ Replicated

ReturnInv ==
  /\ Switched /\ Undisturbed /\ DelUndisturbed /\ ReadUndisturbed /\ KeysUndisturbed
  /\ Truthful
=============================================================================
