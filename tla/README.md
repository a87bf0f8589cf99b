# librediscxx in TLA+

A verification project for librediscxx, a C++ client library for redis: TLA+
models of its socket buffer, its DNS cache, its protocol engine, its commands,
its client objects and its connection pool,
checked with TLC on small instances; every invariant, action property and
refinement that the passing runs check is also proved with TLAPS, for every value
of the constants. Paths below are relative to the repository root;
the library is in `src/`.

## 1. The system

| Part | State | Operations | Hard behaviour | What makes it correct |
|---|---|---|---|---|
| `RedisProtocol` (`redis_protocol.cpp`) | `blocking_mode_`, `transaction_mode_`, one `TcpClient` | connect, close, exec_command(v), exec_pipeline | timeouts, late replies, error replies in the middle of a pipeline or a nested reply, server restart | each reply is read for the command it answers; nothing survives a close; calls return |
| `TcpClient` (`tcp_client.cpp`) | `fd_`, `buffer_`, time of last check | connect, write, read, read_line, is_open | stale is_open, bytes left in the buffer, split delimiters | bytes come out as they came in, of one connection only |
| `HostResolver` (`tcp_client.cpp`) | DNS cache | resolve, clear_cache | threads sharing the cache, failures cached | a success is the resolver's answer |
| `os` (`os.cpp`) | none | poll with timeout, send, recv, connect | EINTR, partial writes | maps errors to errno |
| `Redis2` (`redis.cpp`) | `db_index_`, `db_index_select_failure_`, `transaction_cmds_` | some 130 commands, select, multi/add_command/exec/discard | reconnection between the steps of a method | commands run in the chosen database; exec pairs commands with their replies |
| `Redis2P`, `RedisBase2Multi` (`redis_partition.cpp`, `redis_base.cpp`) | vector of `Redis2`, groups, partitions | the same commands, routed by hash | one of several writes fails, uneven host counts | keys always reach the same partition, in range |
| `RedisBase2` (`redis_base.cpp`) | none | wrappers that convert results | failures masked | same result as the wrapped call |
| Command table and replies (`redis_cmd.cpp`) | tables | lookup, containers, `time33` | wrong type or arity in the table | table agrees with the methods |
| `RedisTss`, `RedisScopedPtr` (`redis_tss.cpp`), `thread_specific_ptr` (`tss.h`) | `free_redis_`, one slot per thread | get, put, cleanup at thread exit, destructor | threads racing for the pool, pool full, destruction order | a client has one owner, is neither lost nor used after delete |
| Tools, tests | | | | |

Calls go down: application → `RedisTss` (to get a client) → `Redis2P` →
`Redis2` → `RedisProtocol` → `TcpClient` → `os`. Errors come back as return
values; the state each layer keeps about the connection (`fd_`,
`transaction_mode_`, `db_index_select_failure_`, `transaction_cmds_`) must agree
with the server's state, and most hazards are places where it may not.
`PROJECT.json` lists the hazards with their lines.

## 2. The models

### RedisProtocol

One object, one thread, one connection to an external server. A call is a
sequence of steps: `write_command` per command, one step per reply line read,
`exec_pipeline`'s `is_open()` checks between them. The server answers requests
in order, one line per step, with any reply that redis may give (an error
included), and may close at any time. `recv` moves any non-empty prefix of what
is on the wire into `buffer_`; `recv_fails` is a timeout (not in blocking mode),
the end of the stream, or a reset.

A reply line is a token: first byte and length. A bulk's body travels with its
`$n` line, so a failure in the middle of a body is the failure before it. Each
token also has ghost fields (connection, request, lines missing) that only
properties read. `owed` is a ghost that records that a call returned, on a
connection kept open, without reading all that it had asked for: an error reply
inside a pipeline or a nested reply, or an argument count refused after earlier
commands of the pipeline were written. The synchronisation properties are
claimed while `owed` is false; the run PipelineReadAll shows that it can become
true.

| Variable | Code |
|---|---|
| `fd_`, `buffer_` | `TcpClient::Impl` |
| `blocking_mode_`, `transaction_mode_` | `RedisProtocol` |
| `pc`, `call`, `ret` | control and locals of exec_command(v), exec_pipeline, `__read_reply` |
| `reqs`, `wire`, `peer`, `srv` | external: server and network |
| `owed`, `conn`, `written` | ghosts |

Abstractions: nine commands stand for the table (one per reply type, and
MULTI/DISCARD/EXEC); RedisCommands has all of them. Lines are whole; TcpBuffer
has the bytes. `write_command` and `read_reply` used on their own are the
two halves of `exec_command`. `parse_integer` looks at an `errno` it never
cleared, so it may refuse any number (`parse_integer_fails`). `send()` returning
0, which for a non-empty buffer Linux does not do, is left out.

### TcpBuffer and LineStream

One client at the grain of bytes. The buffer is memory indexed from 0 with the
positions `read_` and `to_read_`; `clear`, `consume`, `Reallocate` and `Produce`
are the methods that change it, and the doubling loop of `prepare()` is one step
per round (`grow`). A call alternates between looking at what is buffered
(`line_found`, `line_not_found`, `read_done`, `read_not_done`), `prepare` and
`recv`, which delivers any number of the bytes sent. `Returns` includes the
caller in `redis_protocol.cpp:527-573`, which closes the connection when it is
handed an empty string. `size_t` subtraction wraps modulo `SizeModulus`.

`LineStream` is the promise: a connection is a stream of bytes with a position;
a call returns the bytes up to the next delimiter, or as many as asked for, and
moves the position behind them, or it fails and the connection is gone. It has
no buffer. The mapping is the identity on the six variables it has.

### HostResolver

`TcpClient::connect` in several threads over the one cache of the process. The
lock covers the lookup and the update but not what happens between them. DNS may
answer each query differently, or fail. `fd_` is the address a thread's socket
is connected to. Ghosts: `given`, what DNS answered for each key, and `asks`.

### RedisCommands

Four places must agree on each command: the arguments a method pushes, the
argument count and the reply type in `s_command_map`, and the getter the method
ends with. The table is written out by columns: the commands of each reply type
(`StatusCommands` to `PlaceHolders`) and of each argument count (`Take0` to
`Take3` for exact counts, `Least1` to `Least3` for lower bounds), from which
`s_command_map` puts its rows together; a method is a record: command, arguments pushed once and per element of a vector, how the
reply is read. The groups of methods follow `redis.cpp` from top to bottom;
`old_methods` are the wrappers of `redis_base.cpp`, `raw_methods` commands given
by name. A call goes through `check_argc`, the server, the type check and the
getter. The server runs a command, queues it, or answers with an error;
`Answers` are the replies that redis documents. A reply is its first byte and
what the methods tell apart of the rest: nil, empty, the status texts.
Exceptions of the properties are named: `Gap` (an empty bulk, BGSAVE's text,
SORT with STORE), the two methods that accept any status, and old style keys().

### Redis2

Redis2's memory across connections. A method is cut into its calls of
`RedisProtocol` (`assure_connect`, the `SELECT` it may send, the command
itself), each one step with the outcomes that RedisProtocol has. Methods that
send one command and convert the reply are the action `command` (RedisCommands
has them one by one); SET stands for a status reply, GET for every other. The application follows one discipline:
between `multi` and `exec`/`discard` it uses `add_command`, as
`test/redis_test.cpp` does. Ghosts: `unreset` (the connection was replaced by
`connect()` or inside `select()`, neither of which calls `on_reset`), `owed` (a
call has left replies unread on the open connection). Once `owed` is true the
client may take any line for the reply to its next command (`Seen`).

### RedisTss and ClientPool

`RedisTss` has one program counter (`job`) per thread, with a step per access
to `free_redis_`, which the mutex makes atomic. Threads follow the three usages
of `redis_tss.h:48-54`; a thread may exit at any time outside a call and without
borrowed clients, upon which its slot's cleanup handler runs. `destroy` is
`~Impl` in a thread, once the others are out. `ClientPool` is the promise: each
client is absent, idle or lent to one thread. `owner` is the refinement mapping.

### Redis2P

Several callers, each with its own object and seed, over shared servers. A
method is one step per call of an inner `Redis2`; such a call may fail, and a
write that fails may have been executed. The methods made by
FOR_EACH_GROUP_WRITE and FOR_EACH_GROUP_READ alternate in
`redis_partition.cpp:285-975`. `read` stands for all of the second kind. Those of
the first kind differ in what they make of the contents of each server:

| Action | Methods | A server's new contents |
|---|---|---|
| `write` | set, setex, psetex, getset, del of one key | the value given, whatever was there |
| `update` | incr, decr, append, setbit, setnx, setrange, restore, hset, hincrby, hdel, lpush, lpop, lrem, sadd, srem, zadd ... | `effect` of the change on its own old contents, for any function `effect` |
| `hsetnx` | hsetnx, which calls hset | the value given; the contents stand for the field |
| `spop` | spop | any, the server chooses |
| `move` | move | gone to another database, if the key is free there |

What a key holds is one value, and `mset` writes the same value to all its keys.
Keys do not expire, so expire, persist and their kin have no action. Ghosts:
`last` is what the last complete write of a key left: the value, or the effect of
a change on what was there before; `torn` marks a key after a failed write,
writes that crossed, an `spop` or a `move`; `clash`, `calm` and `before` in `job`
record what happened while a method ran; `right` is the verdict when it returned.
`Replicated` also says that the next complete `write`, `mset`, `del` or flush
(`Repairs`) ends the mark; an `update` does not, since it changes each group's own
contents and two groups that differ go on differing. `db` is
the database that each inner client works in (its `db_index_`; that Redis2 keeps
to it is `SelectedDb` of Redis2): `select` goes through all hosts and changes it
where the call succeeds, so after a failed select an object may work in two
databases, and its writes tear the keys they touch. The
constructor's checks are a conjunct of `Init`: it throws otherwise.

## 3. Runs

| Run | Module | Checks | Bounds |
|---|---|---|---|
| ProtocolSync | MCRedisProtocol | `TypeOK`, `AnswersMatch`, `Drained`, `ClosedIsClean`, `InOrder`, `NeverQueuedUnaware`, `CallReturns` | 3 commands per connection, 2 lines per reply, connection numbers modulo 2 |
| TssPool | MCRedisTss | `TypeOK`, `Exclusive`, `NoDangling`, `NoLeak`, `PoolBound`, `ImplementsPool` | 2 threads, 5 clients, pool of 1 |
| Redis2 | MCRedis2 | `TypeOK`, `SelectedDb`, `ExecPairs`, `QueueIsSuffix`, `BlockingAsAsked` | 2 databases, 2 commands, transactions of 2; `ExecPairs` on connections without left-over replies |
| Partition | MCRedis2P | `TypeOK`, `Placement`, `Replicated`, `Truthful` | 2 callers, 2 keys, 1 value, setnx as the change, 4 hosts in 2 groups |
| PartitionSelect | MCRedis2P | `Replicated`, `Truthful` | 1 caller, 1 key, 2 databases, 2 values, setnx, incr and lpop as changes, 2 groups of 1 host |
| TcpBuffer | MCTcpBuffer | `TypeOK`, `BufferHolds`, `RoomToRead`, `ToReadExact`, `NothingSkipped`, `ImplementsStream`, `LineReturned` | a buffer of 2 bytes, `kMaxBufferSize` 4, 5 bytes per connection, reads of 1 and 2 bytes |
| HostResolver | MCHostResolver | `TypeOK`, `ReachesItsHost`, `AskedOnce`, `Settles` | 3 threads, 2 keys, 1 address or a failure |
| Commands | MCRedisCommands | `TypeOK`, `ArgsAccepted`, `Understood`, `TrueMeansRun`, `TransactionSurvives` | all methods, vectors of up to 2 |
| PipelineReadAll | MCRedisProtocol | refutes `WriteAllReadAll` | |
| ExecAfterError | MCRedis2 | refutes `ExecReturnsItsOwn` | 1 database, transactions of 2 |
| StaleTxnMode | MCRedisProtocol | refutes `ModeMeansQueueing` | |
| TssDestroy | MCRedisTss | refutes `NothingLeaks` | 1 thread |

Why these bounds are enough. Two commands on one connection are what a late or
left-over reply needs, and a pipeline of two has a command after the one that
fails; the third makes MULTI, a queued command and EXEC; two lines are a nested
reply with a child (longer ones are covered by the proof of `InOrder` for every
bound); two connection numbers tell an old line from a new one, because only the
latest connection can have lines in flight. Two threads with up to two clients each compete for one
place in the pool while a fifth address is free. Two databases tell 0 from
another; a transaction of two commands can be mispaired. Two groups give a write
a second step that can fail or be overtaken, two hosts per group tell a key's
host from its neighbour, and the two callers' seeds begin with different groups.
PartitionSelect exchanges the second partition and the second caller for a second
database and a second value, with which a counter and a list have a state that
depends on how often they were changed; several callers with several databases and
any changes are covered by the proofs only. The buffer
of TcpBuffer is smaller than a line and its delimiter, so it fills, is compacted
and doubles more than once, and reaches `kMaxBufferSize`; a delimiter is cut in
two. Three threads can miss the cache at once and store in any order, and two
services of one host tell the parts of the key. Vectors of 0, 1 and 2 elements
are below, at and above the least argument counts.

In the runs of RedisTss deadlock is not an error: after `destroy` nothing more
happens. In all others the application can always make another call.

**Fairness.** ProtocolSync assumes `WF_vars(InsideCall)` for `CallReturns`, and
TcpBuffer `WF_vars(ClientStep)` for `LineReturned`: a thread inside a call keeps
running, and `poll()` with a timeout returns (`os.cpp:124`). `Settles` needs no
fairness: it says that the cache cannot change for ever.
`LineReturned` excuses a line that is not returned only when the server has
closed the connection, never when the client gives up by itself.
Nothing is assumed of the server, the network or the application. In blocking
mode reads have no timeout, so `CallReturns` excludes it.

**What the refuted properties show.**

* `exec_pipeline` stops at the first error reply and leaves the rest unread, on
  a connection that stays open. The next call reads its predecessor's replies.
* `exec()` after a failed `exec()` can return true with foreign replies. If the
  first element of EXEC's array is an error, the protocol engine stops there
  (`redis_protocol.cpp:498-503`): the other elements stay unread, the connection
  stays open, and `transaction_cmds_` keeps its commands. The next `exec()`, which
  the server refuses (EXEC without MULTI), reads an unread element that is a
  multi-bulk of the same size for its own reply and hands its parts out as the
  replies to the old commands.
* A connection replaced by `connect` or `assure_connect` inherits
  `transaction_mode_`. TLC's trace is the shortest one: MULTI, then `connect` on
  the live connection. `assure_connect` after a lost connection does the same.
* `~RedisTss` leaks the client in the destroying thread's slot.

Further findings of the translation, listed in `PROJECT.json` without a run of
their own: an EXEC answered by an error leaves `transaction_mode_` set; an empty
bulk closes the connection; `add_command(RedisCommand *)` returns false on
success; `RedisBase2::keys` with a string vector returns true on failure;
`Redis2P::hsetnx` calls `hset` and overwrites.

Further observations: after
`Redis2::connect()`, or a reconnection inside a `select()` that then fails,
commands can run in database 0 although another was selected; a failed `exec()`
keeps `transaction_cmds_`: if it left no replies unread no later `exec()` pairs
them wrongly (`ExecPairs`), but it fails with a size mismatch until `discard` or a
reconnection; if it did, see ExecAfterError; `exec()` after a WATCH abort returns false and keeps them too;
`add_command` loses its inner command on failure; typed methods called inside a
transaction are queued by the server and reported as failures (`TrueMeansRun`),
except `type` and `bgrewriteaof`, which return "QUEUED"; `bgsave` expects +OK
and the server says something else (its test is commented out); SLOWLOG's row
allows exactly one argument; a command name that is not in the table is sent as
NOOP; `drain()` never shrinks the buffer; the wrapped value of `to_read` in
`read()` is never used; a DNS failure is cached for ever like an address, and a
late failure may replace a success; a Redis2P whose `select` failed at some hosts
works in two databases until the next one; redis_monitor never notices that the
server closed an idle MONITOR connection; two `Redis2P`
writes of one key from threads with different seeds can leave the groups
different although both return true; an `incr` or `lpush` that failed half-way
leaves a difference that no later one removes, a retry included; `sort` counts
as a read, so with STORE it would write to one group only (the model has no STORE); `spop` on several groups removes different
members; with 5 hosts and 3 partitions `inner_init` accepts one group of 5, so
keys are spread over 5 hosts, not 3.

## 4. Proofs

Each component has a module of proofs that extends it. The theorems hold for
every value of the constants that satisfies the named assumption of the module
that declares them, and TLC evaluates that assumption on the runs. Each invariant
below was first checked with TLC on the bounds of section 3; its parts are defined
at the end of the component's module, after the properties.

| Module | Assumption | Theorems |
|---|---|---|
| RedisProtocolProofs | `ConstantsAssumption` | `TypeCorrect`, `StaysInOrder`, `AnswersAlwaysMatch`, `AlwaysDrained`, `AlwaysClosedClean`, `NeverUnaware` |
| TcpBufferProofs | `BufferAssumption` | `BufferTypeCorrect`, `AlwaysHolds`, `AlwaysRoom`, `AlwaysExact`, `NeverSkips`, `BufferImplements` |
| HostResolverProofs | `ResolverAssumption` | `ResolverTypeCorrect`, `AlwaysItsHost`, `NeverAskedTwice` |
| RedisTssProofs | `PoolAssumption` | `PoolTypeCorrect`, `AlwaysExclusive`, `NeverDangling`, `NeverLeaks`, `NeverOverfull`, `PoolImplemented` |
| Redis2Proofs | `Redis2Assumption` | `Redis2TypeCorrect`, `AlwaysSelectedDb`, `AlwaysPaired`, `AlwaysSuffix`, `AlwaysAsAsked` |
| Redis2PProofs | `Redis2PAssumption` | `Redis2PTypeCorrect`, `AlwaysPlaced`, `AlwaysReplicated`, `AlwaysTruthful` |
| RedisCommandsProofs | `MaxSizeAssumption` | `CommandsTypeCorrect`, `AlwaysAccepted`, `AlwaysUnderstood`, `AlwaysRun`, `TransactionsSurvive` |

**RedisProtocol**, for all request sets, pipelines and bounds. `AnswersMatch` is
not inductive: it speaks of the next line only and says nothing of the lines
behind it. `InOrder` describes the whole stream. A *place* `<<r, n>>` is the line
of the reply to request r at which n lines are missing; each line leads from its
own place to the place after it. The invariant says that the lines in `buffer_`,
then those on `wire`, lead from the place where the client reads (`ClientAt`) to
the place where the server writes (`Stream`), that the server owes exactly the
requests in its queue (`Pending`), and how far the call has come (`Progress`). A
server step extends the chain at the end, a read step shortens it at the front,
`recv` moves the boundary, and every failure that closes the connection resets it
to empty. One lemma per group of actions.

`NeverQueuedUnaware` compares the server's transaction with the client's between
calls only; in between they differ for as long as the reply to MULTI is on its
way. `Aware` says what holds then: if the server queues, either the lines on the
wire start a transaction that they do not end (`Started`), or they end none
(`NotEnded`) and the same is true of the buffer, or neither ends one and the
client is in transaction mode. Which command a line answers follows from
`InOrder`; `Answering` adds that the requests in the server's queue are those of
the call. When the call returns nothing is in flight and the last case remains.

**TcpBuffer**, for all buffer sizes, payloads and read sizes. The inductive
invariant joins the five properties: that the memory holds the right bytes needs
the positions in range, that recv has room needs the exact counter, and that the
first delimiter found is the next one of the stream needs both the bytes and
`NothingSkipped`. Each step then maps to a step of LineStream or a stutter.

**HostResolver**, for any threads, hosts, services and addresses. The invariant
adds that every address in the cache and in a thread's hands was given for its
key, and that a thread that has asked finds an entry from its update on.

**RedisTss**, for any set of threads, any finite set of clients and any pool
size. The inductive invariant `Ownership` adds to the properties `JobsReady`: a
thread inside `get()` has no pointer yet and nothing in the place where the client
will go; inside `put()` it has one. The induction step also yields what the
refinement needs, `Moved`: a step leaves all pointers where they are (`Stay`), gives
one client to a thread (`Arrive`), takes one from it (`Leave`) or empties the pool
(`Emptied`, the destructor). `owner` chooses the thread that has a client, which is
well defined because of `Exclusive`, and each of the four is a step of ClientPool or
a stutter. `PoolAssumption` demands that `"idle"` is neither a thread nor `NULL`, since
the three are told apart in `owner`.

**Redis2**, for any databases, commands and transaction lengths. `SelectedDb` is
about one moment, just before the command is sent; `DatabaseKnown` is about all of
them: the server's database is `db_index_` unless `assure_connect` is going to
call `select()` (`MustSelect`), which is settled by the time the command is sent
and never is the case while the server queues. `TransactionKnown` says that the
server only queues while the application is in a transaction or is ending it, and
contains `QueueIsSuffix`, from which `ExecPairs`, an action property, follows:
`exec()` compares the two lengths, and a suffix of the same length is the whole.
Both are stated for a connection without left-over replies, and have to be: without
that condition ExecAfterError refutes the second. `MethodFits` says which
command and which steps belong to which method.

**Redis2P**, for any callers, keys, key vectors, hash function, seeds, and for
every number of hosts and partitions that the constructor accepts. The arithmetic
of routing comes first: lemmas about `\div` and `%` show that each index that the
routing functions compute is in range, that `get_key_client` and `get_keys_client`
visit the host at `get_key_host_index(k)` of every group once, and that
`get_group_client` visits every host of one group. On it rests `StoreInv`. `Replicated`
alone is not inductive, because it is silent on keys that are being written:
`Underway` says what an undisturbed write has done at the hosts it has already
called, `Remaining` which it has still to call, `Routed` that these are replicas
of its key, and `Apart` that a caller that crosses another knows it (`clash`).
`UpdateUnderway` is the same for an update: of copies that were equal those at the
hosts called have changed once and the others not at all, which needs a route that
visits no host twice (`DistinctRoute`); when the route ends all have changed once,
as `last` then says.
`ReturnInv` then follows each method that returns something: what it has counted or
collected so far agrees with what was stored when it began, as long as nobody has
disturbed it (`Undisturbed` and one part for del, get and mget, keys and select).
The counts are cardinalities of sets of keys, for which the finite set theorems of
the library are cited; hence `IsFiniteSet(Keys)` in the assumption.

**RedisCommands**, for every method and vectors of every size. The four places
that must agree are compared once per method, without state (`MethodFits`): the
row has room for what the method pushes, and its type check and getter take every
documented answer but the gaps. One lemma per group of methods proves it from the
table; it is what a reviewer of `redis_cmd.cpp` would check by eye, row by row.
`CallInv` follows a call from `check_argc` to the result: what the server has done,
what it answered, and what was read from that. `TransactionSurvives` is an action
property of the same invariant: the only replies inside a transaction that both
sides know of are errors, +QUEUED and those of the commands that are not queued,
and the type check passes all of them.

**Only model-checked.** The liveness properties `CallReturns`, `LineReturned` and
`Settles`: fairness, and the well-founded argument that each of them needs, are
out of the prover's reach. The four refuted properties have counterexamples, so
there is nothing to prove. That the routing lemmas hold for any hash function
makes a proof about `time33`, which would need induction over the key,
unnecessary.

**What the proofs changed in the models.** `flush_host` of Redis2P had two
overlapping arms in a CASE, where TLA+ may choose either: it is now a disjunction.
`PoolAssumption` and `Redis2PAssumption` say what the arguments really use.
RedisCommands has its table as sets, the form that the provers can read.

## 5. Not modelled, and the plan

Modelled in this order: RedisProtocol, because everything rests on it; RedisTss,
shared by threads; Redis2, Redis2P; the socket buffer, the resolver, the
commands. Proved in the order RedisProtocol, RedisTss, TcpBuffer, HostResolver,
Redis2, Redis2P, RedisCommands.

Next: an abstract specification of Redis2's transactions (a sequence of commands
that is run as a whole or not at all) and of Redis2P's store (one value per key
while nothing fails), with refinements from `QueueIsSuffix` and `Replicated`; action
properties of the socket buffer's memory; shorter proofs where two actions of
Redis2P repeat an argument.

Not modelled: the tools (single-threaded command line programs around modelled
calls), `RedisBase2Multi::__inner_init` (splits two strings once), `time33`
(any function into the naturals will do for routing, which is how Redis2P has
it), SIGPIPE and retries after EINTR (pure system calls), the memory management
of replies, the Windows code. A composition of RedisTss with Redis2 would show
that a client comes back from the pool in whatever state it was left in, which
no code and no comment rules out.
