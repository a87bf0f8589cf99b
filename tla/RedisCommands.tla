--------------------------- MODULE RedisCommands ----------------------------
(***************************************************************************)
(* The typed methods of Redis2 (redis.cpp), the old style wrappers of      *)
(* RedisBase2 (redis_base.cpp), the table of commands and the containers   *)
(* of requests and replies (redis_cmd.cpp, redis_cmd.h).                   *)
(*                                                                         *)
(* Four places must agree on each of some 120 commands: the arguments that *)
(* a method pushes, the argument count in the table, the reply type in the *)
(* table and the getter that the method ends with.  Their agreement depends*)
(* on the state too: in a transaction the server answers +QUEUED, and the  *)
(* transaction mode of the client may be stale after a reconnection.       *)
(*                                                                         *)
(* A call is sequential here; RedisProtocol has the replies line by line,  *)
(* Redis2 the selected database, the blocking mode and exec().             *)
(***************************************************************************)
EXTENDS Integers

CONSTANT MaxSize    \* bound: elements of a vector argument

ASSUME MaxSizeAssumption == MaxSize \in Nat \ {0}

-----------------------------------------------------------------------------
(***************************************************************************)
(* The table.                                                              *)
(***************************************************************************)

kReplyType == {"kNone", "kStatus", "kError", "kInteger", "kBulk", "kMultiBulk",
               "kSpecialMultiBulk", "kDepends"}

ARGC_NO_CHECKING == -65535

\* The commands by the type of their reply.  The table has no row of kError.
StatusCommands ==
  {"AUTH", "BGREWRITEAOF", "BGSAVE", "DISCARD", "FLUSHALL", "FLUSHDB",
   "HMSET", "LSET", "LTRIM", "MIGRATE", "MSET", "MULTI", "PING", "PSETEX",
   "QUIT", "RENAME", "RESTORE", "SELECT", "SET", "SETEX", "SHUTDOWN",
   "SLAVEOF", "TYPE", "UNWATCH", "WATCH"}

IntegerCommands ==
  {"APPEND", "BITCOUNT", "BITOP", "DBSIZE", "DECR", "DECRBY", "DEL",
   "EXISTS", "EXPIRE", "EXPIREAT", "GETBIT", "HDEL", "HEXISTS", "HINCRBY",
   "HLEN", "HSET", "HSETNX", "INCR", "INCRBY", "LASTSAVE", "LINSERT", "LLEN",
   "LPUSH", "LPUSHX", "LREM", "MOVE", "MSETNX", "PERSIST", "PEXPIRE",
   "PEXPIREAT", "PTTL", "PUBLISH", "RENAMENX", "RPUSH", "RPUSHX", "SADD",
   "SCARD", "SDIFFSTORE", "SETBIT", "SETNX", "SETRANGE", "SINTERSTORE",
   "SISMEMBER", "SMOVE", "SREM", "STRLEN", "SUNIONSTORE", "TTL", "ZADD",
   "ZCARD", "ZCOUNT", "ZINTERSTORE", "ZREM", "ZREMRANGEBYRANK",
   "ZREMRANGEBYSCORE", "ZUNIONSTORE"}

BulkCommands ==
  {"DUMP", "ECHO", "GET", "GETRANGE", "GETSET", "HGET", "HINCRBYFLOAT",
   "INCRBYFLOAT", "INFO", "LINDEX", "LPOP", "RANDOMKEY", "RPOP", "RPOPLPUSH",
   "SPOP", "SRANDMEMBER", "ZINCRBY", "ZSCORE"}

MultiBulkCommands ==
  {"BLPOP", "BRPOP", "HGETALL", "HKEYS", "HMGET", "HVALS", "KEYS", "LRANGE",
   "MGET", "SDIFF", "SINTER", "SMEMBERS", "SORT", "SUNION", "TIME", "ZRANGE",
   "ZRANGEBYSCORE", "ZREVRANGE", "ZREVRANGEBYSCORE"}

SpecialCommands ==
  {"EXEC", "PSUBSCRIBE", "PUNSUBSCRIBE", "SUBSCRIBE", "UNSUBSCRIBE"}

DependsCommands ==
  {"BRPOPLPUSH", "CONFIG", "DEBUG", "EVAL", "EVALSHA", "MONITOR", "OBJECT",
   "SAVE", "SCRIPT", "SLOWLOG", "SYNC", "ZRANK", "ZREVRANK"}

PlaceHolders == {"COMMAND_MAX", "NOOP"}

kCommand ==
  StatusCommands \cup IntegerCommands \cup BulkCommands \cup MultiBulkCommands
    \cup SpecialCommands \cup DependsCommands \cup PlaceHolders

reply_type_of(cmd) ==
  CASE cmd \in StatusCommands -> "kStatus"
    [] cmd \in IntegerCommands -> "kInteger"
    [] cmd \in BulkCommands -> "kBulk"
    [] cmd \in MultiBulkCommands -> "kMultiBulk"
    [] cmd \in SpecialCommands -> "kSpecialMultiBulk"
    [] cmd \in DependsCommands -> "kDepends"
    [] OTHER -> "kNone"

\* The commands by the number of arguments that they take, or take at least.
Take0 ==
  {"BGREWRITEAOF", "BGSAVE", "DBSIZE", "DISCARD", "EXEC", "FLUSHALL",
   "FLUSHDB", "LASTSAVE", "MONITOR", "MULTI", "PING", "QUIT", "RANDOMKEY",
   "SAVE", "TIME", "UNWATCH"}

Take1 ==
  {"AUTH", "DECR", "DUMP", "ECHO", "EXISTS", "GET", "HGETALL", "HKEYS",
   "HLEN", "HVALS", "INCR", "KEYS", "LLEN", "LPOP", "PERSIST", "PTTL",
   "RPOP", "SCARD", "SELECT", "SLOWLOG", "SMEMBERS", "SPOP", "SRANDMEMBER",
   "STRLEN", "TTL", "TYPE", "ZCARD"}

Take2 ==
  {"APPEND", "DECRBY", "EXPIRE", "EXPIREAT", "GETBIT", "GETSET", "HEXISTS",
   "HGET", "INCRBY", "INCRBYFLOAT", "LINDEX", "LPUSHX", "MOVE", "PEXPIRE",
   "PEXPIREAT", "PUBLISH", "RENAME", "RENAMENX", "RPOPLPUSH", "RPUSHX",
   "SET", "SETNX", "SISMEMBER", "SLAVEOF", "ZRANK", "ZREVRANK", "ZSCORE"}

Take3 ==
  {"BRPOPLPUSH", "GETRANGE", "HINCRBY", "HINCRBYFLOAT", "HSET", "HSETNX",
   "LRANGE", "LREM", "LSET", "LTRIM", "PSETEX", "RESTORE", "SETBIT", "SETEX",
   "SETRANGE", "SMOVE", "ZCOUNT", "ZINCRBY", "ZREMRANGEBYRANK",
   "ZREMRANGEBYSCORE"}

Least1 ==
  {"BITCOUNT", "CONFIG", "DEBUG", "DEL", "MGET", "OBJECT", "PSUBSCRIBE",
   "SCRIPT", "SDIFF", "SINTER", "SORT", "SUBSCRIBE", "SUNION", "WATCH"}

Least2 ==
  {"BLPOP", "BRPOP", "EVAL", "EVALSHA", "HDEL", "HMGET", "LPUSH", "MSET",
   "MSETNX", "RPUSH", "SADD", "SDIFFSTORE", "SINTERSTORE", "SREM",
   "SUNIONSTORE", "ZREM"}

Least3 ==
  {"BITOP", "HMSET", "ZADD", "ZINTERSTORE", "ZRANGE", "ZRANGEBYSCORE",
   "ZREVRANGE", "ZREVRANGEBYSCORE", "ZUNIONSTORE"}

argc_of(cmd) ==
  CASE cmd \in Take0 -> 0
    [] cmd \in Take1 -> 1
    [] cmd \in Take2 -> 2
    [] cmd \in Take3 -> 3
    [] cmd = "LINSERT" -> 4
    [] cmd = "MIGRATE" -> 5
    [] cmd \in Least1 -> -1
    [] cmd \in Least2 -> -2
    [] cmd \in Least3 -> -3
    [] OTHER -> ARGC_NO_CHECKING

Row(argc, reply_type) == [argc |-> argc, reply_type |-> reply_type]

\* Mutant of s_command_map: no room for WITHSCORES.
MapExactZrange ==
  [cmd \in kCommand |-> Row(IF cmd \in {"ZRANGE", "ZREVRANGE"} THEN 3
                           ELSE argc_of(cmd), reply_type_of(cmd))]

\* Mutant of s_command_map: the rank of a missing member is forgotten.
MapIntegerZrank ==
  [cmd \in kCommand |-> Row(argc_of(cmd), IF cmd = "ZRANK" THEN "kInteger"
                                          ELSE reply_type_of(cmd))]

s_command_map == [cmd \in kCommand |-> Row(argc_of(cmd), reply_type_of(cmd))]

\* The names that set_command finds.
s_command_rev_map == [name \in kCommand \ {"NOOP", "COMMAND_MAX"} |-> name]

\* Mutant of set_command: the name itself, found or not.
set_command_as_given(name) == name

\* RedisInput::set_command by name.
set_command(name) ==
  IF name \in DOMAIN s_command_rev_map THEN s_command_rev_map[name] ELSE "NOOP"

-----------------------------------------------------------------------------
(***************************************************************************)
(* The methods: the command, the arguments it pushes once and for each     *)
(* element of its vector, whether it compares two vectors first, and how it*)
(* reads the reply.  An optional argument is a second value of `fixed`.    *)
(***************************************************************************)

Pairs(cmds, fixed, each, get) ==
  [cmd : cmds, fixed : fixed, each : {each}, pairs : {TRUE}, get : {get}]

Vector(cmds, fixed, each, get) ==
  [cmd : cmds, fixed : fixed, each : {each}, pairs : {FALSE}, get : {get}]

Method(cmds, fixed, get) == Vector(cmds, {fixed}, 0, get)

expire_methods ==
  Vector({"DEL"}, {0}, 1, "integer")
    \cup Method({"DEL", "EXISTS", "PERSIST"}, 1, "integer")
    \cup Method({"EXPIRE", "EXPIREAT", "MOVE"}, 2, "integer")
    \cup Method({"DUMP"}, 1, "bulk")
    \cup Method({"KEYS"}, 1, "mbulks")

key_methods ==
  Method({"PTTL", "TTL"}, 1, "integer")
    \cup Method({"PEXPIRE", "PEXPIREAT"}, 2, "integer")
    \cup Method({"RESTORE"}, 3, "ok")
    \cup Method({"RANDOMKEY"}, 0, "bulk")
    \cup Vector({"SORT"}, {1}, 1, "mbulks")
    \cup Method({"TYPE"}, 1, "status")

get_methods ==
  Method({"DECR"}, 1, "integer")
    \cup Method({"APPEND", "DECRBY", "GETBIT"}, 2, "integer")
    \cup Method({"GET"}, 1, "bulk")
    \cup Method({"GETSET"}, 2, "bulk")
    \cup Method({"GETRANGE"}, 3, "bulk")

incr_methods ==
  Method({"INCR"}, 1, "integer")
    \cup Method({"INCRBY"}, 2, "integer")
    \cup Method({"INCRBYFLOAT"}, 2, "bulk2")
    \cup Vector({"MGET"}, {0}, 1, "mbulks")
    \cup Pairs({"MSET"}, {0}, 2, "ok")
    \cup Method({"PSETEX"}, 3, "ok")

set_methods ==
  Method({"SET"}, 2, "ok")
    \cup Method({"SETEX"}, 3, "ok")
    \cup Method({"STRLEN"}, 1, "integer")
    \cup Method({"SETNX"}, 2, "integer")
    \cup Method({"SETBIT", "SETRANGE"}, 3, "integer")

hash_methods ==
  Vector({"HDEL"}, {1}, 1, "integer")
    \cup Method({"HDEL", "HEXISTS"}, 2, "integer")
    \cup Method({"HINCRBY"}, 3, "integer")
    \cup Method({"HGET"}, 2, "bulk")
    \cup Method({"HINCRBYFLOAT"}, 3, "bulk2")
    \cup Method({"HGETALL"}, 1, "mbulks")

hset_methods ==
  Method({"HLEN"}, 1, "integer")
    \cup Method({"HSET", "HSETNX"}, 3, "integer")
    \cup Method({"HKEYS", "HVALS"}, 1, "mbulks")
    \cup Vector({"HMGET"}, {1}, 1, "mbulks")
    \cup Pairs({"HMSET"}, {1}, 2, "ok")

list_methods ==
  Vector({"BLPOP", "BRPOP"}, {1}, 1, "bxpop")
    \cup Method({"LINDEX"}, 2, "bulk")
    \cup Method({"LINSERT"}, 4, "integer")
    \cup Method({"LLEN"}, 1, "integer")
    \cup Method({"LPOP"}, 1, "bulk")
    \cup Vector({"LPUSH"}, {1}, 1, "integer")
    \cup Method({"LPUSH"}, 2, "integer")

push_methods ==
  Method({"LPUSHX", "RPUSH", "RPUSHX"}, 2, "integer")
    \cup Vector({"RPUSH"}, {1}, 1, "integer")
    \cup Method({"LREM"}, 3, "integer")
    \cup Method({"LRANGE"}, 3, "mbulks")
    \cup Method({"LSET", "LTRIM"}, 3, "ok")
    \cup Method({"RPOP"}, 1, "bulk")

member_methods ==
  Vector({"SADD", "SREM"}, {1}, 1, "integer")
    \cup Method({"SADD", "SREM", "SISMEMBER"}, 2, "integer")
    \cup Method({"SCARD"}, 1, "integer")
    \cup Method({"SMEMBERS"}, 1, "mbulks")
    \cup Method({"SPOP", "SRANDMEMBER"}, 1, "bulk")

zadd_methods ==
  Method({"ZADD"}, 3, "integer")
    \cup Pairs({"ZADD"}, {1}, 2, "integer")
    \cup Method({"ZCARD"}, 1, "integer")
    \cup Method({"ZCOUNT"}, 3, "integer")
    \cup Method({"ZINCRBY"}, 3, "bulk2")

\* WITHSCORES is one more argument, LIMIT three more.
zrange_methods ==
  Vector({"ZRANGE", "ZREVRANGE"}, {3, 4}, 0, "mbulks")
    \cup Vector({"ZRANGEBYSCORE", "ZREVRANGEBYSCORE"}, {3, 4, 6, 7}, 0, "mbulks")
    \cup Method({"ZRANK", "ZREVRANK"}, 2, "rank")

zrem_methods ==
  Vector({"ZREM"}, {1}, 1, "integer")
    \cup Method({"ZREM"}, 2, "integer")
    \cup Method({"ZREMRANGEBYRANK", "ZREMRANGEBYSCORE"}, 3, "integer")
    \cup Method({"ZSCORE"}, 2, "bulk")

rename_methods ==
  Method({"SELECT"}, 1, "ok")
    \cup Method({"FLUSHALL", "FLUSHDB"}, 0, "ok")
    \cup Method({"RENAME"}, 2, "ok")
    \cup Method({"RENAMENX"}, 2, "integer")
    \cup Method({"BRPOPLPUSH"}, 3, "brpoplpush")
    \cup Method({"RPOPLPUSH"}, 2, "bulk")

store_methods ==
  Vector({"SDIFF", "SINTER", "SUNION"}, {0}, 1, "mbulks")
    \cup Vector({"SDIFFSTORE", "SINTERSTORE", "SUNIONSTORE"}, {1}, 1, "integer")
    \cup Method({"SMOVE"}, 3, "integer")

\* WEIGHTS is one more argument and another for each key, AGGREGATE two more.
zstore_methods ==
  LET stores == {"ZINTERSTORE", "ZUNIONSTORE"}
  IN  Vector(stores, {2, 4}, 1, "integer") \cup Vector(stores, {3, 5}, 2, "integer")

watch_methods ==
  Method({"PUBLISH"}, 2, "integer")
    \cup Method({"MULTI", "UNWATCH"}, 0, "ok")
    \cup Vector({"WATCH"}, {0}, 1, "ok")

server_methods ==
  Method({"DISCARD", "BGSAVE"}, 0, "ok")
    \cup Method({"PING"}, 0, "pong")
    \cup Method({"BGREWRITEAOF"}, 0, "status")
    \cup Method({"DBSIZE", "LASTSAVE"}, 0, "integer")
    \cup Vector({"INFO"}, {0, 1}, 0, "bulk2")
    \cup Method({"SLAVEOF"}, 2, "ok")

\* exec_command with a command given by name, whatever its arguments.
raw_methods ==
  Vector({set_command(name) : name \in
           {"AUTH", "ECHO", "MSETNX", "TIME", "SAVE", "GET", "ZRANK", "gte"}},
         0..2, 0, "raw")

\* RedisBase2: the old style wrappers.  They rename the three results or
\* convert the value, and are the methods that they call but for keys().
\* hmset() makes two vectors of one size.
old_methods ==
  Method({"GET"}, 1, "bulk")
    \cup Method({"HGET"}, 2, "bulk")
    \cup Method({"EXPIRE", "EXPIREAT", "HDEL"}, 2, "integer")
    \cup Method({"HSET"}, 3, "integer")
    \cup Method({"HGETALL"}, 1, "mbulks")
    \cup Vector({"HMSET"}, {1}, 2, "ok")
    \cup Method({"KEYS"}, 1, "old keys")

Methods ==
  expire_methods \cup key_methods \cup get_methods \cup incr_methods
    \cup set_methods \cup hash_methods \cup hset_methods \cup list_methods
    \cup push_methods \cup member_methods \cup zadd_methods
    \cup zrange_methods \cup zrem_methods \cup rename_methods
    \cup store_methods \cup zstore_methods \cup watch_methods
    \cup server_methods \cup raw_methods \cup old_methods

-----------------------------------------------------------------------------
VARIABLES
  open,               \* the connection
  transaction_mode_,  \* of RedisProtocol
  multi,              \* external: the server queues the commands it gets
  pc,                 \* "idle" between calls
  method,             \* the method called last, and the size of its vector
  size,
  reply,              \* external: the reply on the wire
  did,                \* external: what the server did: "nothing", "queued", "run"
  out,                \* the RedisOutput
  ret,                \* what the method returned: "true", "nil" or "false"
  agreed              \* ghost: client and server agreed on the transaction mode

vars == <<open, transaction_mode_, multi, pc, method, size, reply, did, out, ret,
          agreed>>
server == <<multi, did, reply>>

\* A reply: its first byte, and what the methods tell apart of the rest.
Reply(byte, value) == [byte |-> byte, value |-> value]

NoReply == Reply("none", "none")

\* RedisOutput: a type and a pointer, to a value or NULL.
Output(reply_type, value) == [reply_type |-> reply_type, value |-> value]

NoOutput == Output("kNone", "null")

Init ==
  /\ open = FALSE
  /\ transaction_mode_ = FALSE
  /\ multi = FALSE
  /\ pc = "idle"
  /\ method \in Method({"PING"}, 0, "pong")
  /\ size = 0
  /\ reply = NoReply
  /\ did = "nothing"
  /\ out = NoOutput
  /\ ret = "false"
  /\ agreed = TRUE

\* The old style keys() returns true whatever keys() returned.
old_style(m, r) == IF m.get = "old keys" THEN "true" ELSE r

Return(m, r) == pc' = "idle" /\ ret' = old_style(m, r)

\* RedisProtocol::close.
ProtocolClose == open' = FALSE /\ transaction_mode_' = FALSE

-----------------------------------------------------------------------------
(***************************************************************************)
(* The connection, and the beginning of a call.                            *)
(***************************************************************************)

\* Found out by the next assure_connect or check_connect.
connection_lost ==
  /\ pc = "idle"
  /\ open
  /\ open' = FALSE
  /\ multi' = FALSE
  /\ UNCHANGED <<transaction_mode_, pc, method, size, reply, did, out, ret, agreed>>

Begin(m, n) ==
  /\ pc = "idle"
  /\ method' = m
  /\ size' = n
  /\ reply' = NoReply
  /\ did' = "nothing"
  /\ out' = NoOutput
  /\ agreed' = (multi = transaction_mode_)

\* discard() does not connect; the other methods replace a lost connection
\* and leave the transaction mode as it was.
call ==
  /\ \E m \in Methods, n \in 0..MaxSize :
       /\ m.each = 0 => n = 0
       /\ m.cmd = "DISCARD" => open
       /\ Begin(m, n)
  /\ open' = TRUE
  /\ pc' = "check"
  /\ UNCHANGED <<transaction_mode_, multi, ret>>

\* The two vectors have different sizes, no connection can be made, or
\* discard() finds none.
call_fails ==
  /\ \E m \in Methods, n \in 0..MaxSize :
       /\ m.each = 0 => n = 0
       /\ m.pairs \/ ~open
       /\ Begin(m, n)
       /\ Return(m, "false")
  /\ UNCHANGED <<open, transaction_mode_, multi>>

\* The arguments pushed.
given_argc == method.fixed + method.each * size

command_info == s_command_map[method.cmd]

check_argc ==
  \/ command_info.argc = ARGC_NO_CHECKING
  \/ command_info.argc >= 0 /\ given_argc = command_info.argc
  \/ command_info.argc < 0 /\ given_argc >= -command_info.argc

write_command ==
  /\ pc = "check"
  /\ check_argc
  /\ pc' = "server"
  /\ UNCHANGED <<open, transaction_mode_, server, method, size, out, ret, agreed>>

\* No need to disconnect.
argc_refused ==
  /\ pc = "check"
  /\ ~check_argc
  /\ out' = Output("kError", "full")
  /\ Return(method, "false")
  /\ UNCHANGED <<open, transaction_mode_, server, method, size, agreed>>

-----------------------------------------------------------------------------
(***************************************************************************)
(* The server.                                                             *)
(***************************************************************************)

bulks == {Reply("$", "full"), Reply("$", "empty")}
mbulks == {Reply("*", "full"), Reply("*", "none"), Reply("*", "with empty")}

\* The commands by what the server answers when it runs them.
SayOK == {"RESTORE", "MSET", "PSETEX", "SET", "SETEX", "HMSET", "LSET", "LTRIM",
          "SELECT", "FLUSHALL", "FLUSHDB", "RENAME", "MULTI", "UNWATCH", "WATCH",
          "DISCARD", "SLAVEOF", "AUTH", "SAVE"}
SayText == {"TYPE", "BGSAVE", "BGREWRITEAOF"}
SayFull == {"INCRBYFLOAT", "HINCRBYFLOAT", "ZINCRBY", "INFO"}
SayBulk == {"ECHO", "GETRANGE"}
SayFullOrNil == {"DUMP", "ZSCORE"}
SayBulkOrNil == {"GET", "GETSET", "HGET", "LINDEX", "LPOP", "RANDOMKEY", "RPOP",
                 "RPOPLPUSH", "SPOP", "SRANDMEMBER"}
SayMbulks == {"HGETALL", "HKEYS", "HMGET", "HVALS", "KEYS", "LRANGE", "MGET",
              "SDIFF", "SINTER", "SMEMBERS", "SUNION", "TIME", "ZRANGE",
              "ZRANGEBYSCORE", "ZREVRANGE", "ZREVRANGEBYSCORE"}

\* SORT with STORE counts.
Answers(cmd) ==
  CASE cmd \in SayOK -> {Reply("+", "OK")}
    [] cmd = "PING" -> {Reply("+", "PONG")}
    [] cmd \in SayText -> {Reply("+", "other")}
    [] cmd \in SayFull -> {Reply("$", "full")}
    [] cmd \in SayBulk -> bulks
    [] cmd \in SayFullOrNil -> {Reply("$", "full"), Reply("$", "nil")}
    [] cmd \in SayBulkOrNil -> bulks \cup {Reply("$", "nil")}
    [] cmd \in SayMbulks -> mbulks
    [] cmd = "SORT" -> mbulks \cup {Reply(":", "full")}
    [] cmd \in {"BLPOP", "BRPOP"} ->
         {Reply("*", "full"), Reply("*", "with empty"), Reply("*", "nil")}
    [] cmd = "BRPOPLPUSH" -> bulks \cup {Reply("*", "nil")}
    [] cmd \in {"ZRANK", "ZREVRANK"} -> {Reply(":", "full"), Reply("$", "nil")}
    [] OTHER -> {Reply(":", "full")}

\* The commands that a transaction does not queue.
Immediate == {"MULTI", "DISCARD", "WATCH"}

\* MULTI does not nest, DISCARD ends a transaction, WATCH precedes one.
Allowed(cmd) ==
  /\ cmd # "NOOP"
  /\ cmd \in {"MULTI", "WATCH"} => ~multi
  /\ cmd = "DISCARD" => multi

server_runs ==
  /\ pc = "server"
  /\ Allowed(method.cmd)
  /\ ~multi \/ method.cmd \in Immediate
  /\ reply' \in Answers(method.cmd)
  /\ did' = "run"
  /\ multi' = (method.cmd = "MULTI")
  /\ pc' = "reply"
  /\ UNCHANGED <<open, transaction_mode_, method, size, out, ret, agreed>>

server_queues ==
  /\ pc = "server"
  /\ Allowed(method.cmd)
  /\ multi /\ method.cmd \notin Immediate
  /\ reply' = Reply("+", "QUEUED")
  /\ did' = "queued"
  /\ pc' = "reply"
  /\ UNCHANGED <<open, transaction_mode_, multi, method, size, out, ret, agreed>>

\* A wrong type of key, a command that is not allowed here, no memory.
server_refuses ==
  /\ pc = "server"
  /\ reply' = Reply("-", "full")
  /\ pc' = "reply"
  /\ UNCHANGED <<open, transaction_mode_, multi, did, method, size, out, ret, agreed>>

-----------------------------------------------------------------------------
(***************************************************************************)
(* The reply.                                                              *)
(***************************************************************************)

\* Timeout, end of the stream, an integer that parse_integer rejects.
read_fails ==
  /\ pc \in {"server", "reply"}
  /\ ProtocolClose
  /\ multi' = FALSE
  /\ reply' = NoReply
  /\ out' = Output("kError", "full")
  /\ Return(method, "false")
  /\ UNCHANGED <<did, method, size, agreed>>

check_reply_type == command_info.reply_type # "kDepends"

\* Mutant of exp_reply_type: a transaction changes nothing.
exp_reply_type_of_table == command_info.reply_type

exp_reply_type ==
  IF /\ check_reply_type
     /\ transaction_mode_
     /\ method.cmd \notin {"MULTI", "DISCARD", "EXEC"}
  THEN "kStatus"
  ELSE command_info.reply_type

\* The types that a first byte goes with.
TypesOf(byte) ==
  CASE byte = "+" -> {"kStatus"}
    [] byte = ":" -> {"kInteger"}
    [] byte = "$" -> {"kBulk"}
    [] byte = "*" -> {"kMultiBulk", "kSpecialMultiBulk"}

TypeFits == check_reply_type => exp_reply_type \in TypesOf(reply.byte)

\* read_bulk_2 refuses a length of 0, alone and in a multi-bulk.
Readable == reply.value \notin {"empty", "with empty"}

ReadValue(r) == IF r.value = "nil" THEN "null" ELSE r.value

\* Set by set_status, set_i, set_bulk, set_mbulks, set_smbulks, set_nil_bulk...
ReadOutput(r, type) ==
  CASE r.byte = "+" -> Output("kStatus", ReadValue(r))
    [] r.byte = ":" -> Output("kInteger", ReadValue(r))
    [] r.byte = "$" -> Output("kBulk", ReadValue(r))
    [] r.byte = "*" ->
         Output(IF type = "kMultiBulk" THEN "kMultiBulk" ELSE "kSpecialMultiBulk",
                ReadValue(r))

\* No need to disconnect.
error_reply ==
  /\ pc = "reply"
  /\ reply.byte = "-"
  /\ out' = Output("kError", "full")
  /\ Return(method, "false")
  /\ UNCHANGED <<open, transaction_mode_, server, method, size, agreed>>

reply_refused ==
  /\ pc = "reply"
  /\ reply.byte # "-"
  /\ ~(TypeFits /\ Readable)
  /\ ProtocolClose
  /\ multi' = FALSE
  /\ out' = Output("kError", "full")
  /\ Return(method, "false")
  /\ UNCHANGED <<reply, did, method, size, agreed>>

reply_read ==
  /\ pc = "reply"
  /\ reply.byte # "-"
  /\ TypeFits /\ Readable
  /\ out' = ReadOutput(reply, exp_reply_type)
  /\ transaction_mode_' =
       CASE method.cmd = "MULTI" /\ reply.byte = "+" -> TRUE
         [] method.cmd = "DISCARD" /\ reply.byte = "+" -> FALSE
         [] OTHER -> transaction_mode_
  /\ pc' = "result"
  /\ UNCHANGED <<open, server, method, size, ret, agreed>>

-----------------------------------------------------------------------------
(***************************************************************************)
(* The result.                                                             *)
(***************************************************************************)

Values == {"OK", "PONG", "QUEUED", "other", "full", "none"}

Outputs == [reply_type : kReplyType, value : Values \cup {"null"}]

\* A reply_type and a pointer that is not NULL.
Has(reply_type) == [reply_type : {reply_type}, value : Values]

Null(reply_type) == {Output(reply_type, "null")}

\* Mutant of TrueFor: CHECK_STATUS_OK looks at the type only.
TrueForAnyStatus(get) ==
  CASE get = "integer" -> Has("kInteger")
    [] get \in {"bulk", "bulk2", "brpoplpush"} -> Has("kBulk")
    [] get = "mbulks" -> Has("kMultiBulk")
    [] get \in {"ok", "pong", "status"} -> Has("kStatus")
    [] get = "bxpop" -> {Output("kMultiBulk", "full")}
    [] get = "rank" -> Has("kInteger")
    [] OTHER -> Outputs

\* The outputs for which a method returns true with a value.
TrueFor(get) ==
  CASE get = "integer" -> Has("kInteger")
    [] get \in {"bulk", "bulk2", "brpoplpush"} -> Has("kBulk")
    [] get = "mbulks" -> Has("kMultiBulk")
    [] get = "ok" -> {Output("kStatus", "OK")}
    [] get = "pong" -> {Output("kStatus", "PONG")}
    [] get = "status" -> Has("kStatus")
    [] get = "bxpop" -> {Output("kMultiBulk", "full")}
    [] get = "rank" -> Has("kInteger")
    [] OTHER -> Outputs

\* The outputs for which it returns true and is_nil, not_exists or expired.
NilFor(get) ==
  CASE get \in {"bulk", "rank"} -> Null("kBulk")
    [] get = "bxpop" -> Null("kMultiBulk")
    [] get = "brpoplpush" -> Null("kSpecialMultiBulk")
    [] OTHER -> {}

result ==
  /\ pc = "result"
  /\ \/ out \in TrueFor(method.get) /\ Return(method, "true")
     \/ out \in NilFor(method.get) /\ Return(method, "nil")
     \/ out \notin TrueFor(method.get) \cup NilFor(method.get) /\ Return(method, "false")
  /\ UNCHANGED <<open, transaction_mode_, server, method, size, out, agreed>>

Next ==
  \/ connection_lost
  \/ call
  \/ call_fails
  \/ write_command
  \/ argc_refused
  \/ server_runs
  \/ server_queues
  \/ server_refuses
  \/ read_fails
  \/ error_reply
  \/ reply_refused
  \/ reply_read
  \/ result

Spec == Init /\ [][Next]_vars

-----------------------------------------------------------------------------
(***************************************************************************)
(* Properties.                                                             *)
(***************************************************************************)

\* Every command that a method names is in the table, and the containers
\* hold one of the values that the methods tell apart.
TypeOK ==
  /\ open \in BOOLEAN
  /\ transaction_mode_ \in BOOLEAN
  /\ multi \in BOOLEAN /\ (multi => open)
  /\ pc \in {"idle", "check", "server", "reply", "result"}
  /\ pc # "idle" => open
  /\ method \in Methods /\ method.cmd \in kCommand
  /\ size \in 0..MaxSize
  /\ did \in {"nothing", "queued", "run"}
  /\ out \in Outputs
  /\ ret \in {"true", "nil", "false"}

\* No method refuses its own arguments: check_argc lets every combination of
\* optional arguments and every vector pass that is not empty.
ArgsAccepted ==
  pc = "check" /\ method.get # "raw" =>
    check_argc \/ (method.each > 0 /\ size = 0)

\* The replies that the client cannot take although they are no errors: an
\* empty bulk, the text of BGSAVE and the count of SORT with STORE.
Gap(m, r) ==
  \/ r.value \in {"empty", "with empty"}
  \/ m.cmd = "BGSAVE"
  \/ m.cmd = "SORT" /\ r.byte = ":"

\* The result of a method that understands the reply r.
ResultOf(m, r) == IF r.value = "nil" /\ m.get # "raw" THEN "nil" ELSE "true"

\* A client that agrees with the server on the transaction mode understands
\* what the server answers to a command that it ran: the type check passes,
\* the getter finds the value, and nil is told from a value.
Understood ==
  pc = "idle" /\ did = "run" /\ reply.byte \notin {"none", "-"}
    /\ ~Gap(method, reply) /\ agreed =>
      ret = ResultOf(method, reply)

\* A method that returns true was run by the server; one that the server only
\* queued returns false, but for the two that accept any status and the
\* commands given to exec_command, and the old style keys() that always
\* returns true.
TrueMeansRun ==
  pc = "idle" /\ ret # "false" /\ method.get \notin {"status", "raw", "old keys"} =>
    did = "run"

\* While client and server agree that a transaction is open, no reply makes
\* the client close the connection and lose what is queued.
TransactionSurvives ==
  [][multi /\ transaction_mode_ /\ ~read_fails /\ ~connection_lost => open']_vars

-----------------------------------------------------------------------------
(***************************************************************************)
(* The invariant.  Its first half says what the four places agree on for   *)
(* one method, the second half follows a call from check_argc to the       *)
(* result.                                                                 *)
(***************************************************************************)

\* The row of the command has room for what the method pushes.
ArgsFit(m) ==
  \/ argc_of(m.cmd) = ARGC_NO_CHECKING
  \/ argc_of(m.cmd) >= 0 /\ m.each = 0 /\ m.fixed = argc_of(m.cmd)
  \/ argc_of(m.cmd) < 0 /\ m.fixed + m.each >= -argc_of(m.cmd)

\* The type check of the row and the getter of the method take the reply r.
ReplyFits(m, r) ==
  LET type == reply_type_of(m.cmd)
      read == ReadOutput(r, type)
  IN  /\ type # "kDepends" => type \in TypesOf(r.byte)
      /\ ResultOf(m, r) = "true" => read \in TrueFor(m.get) \ NilFor(m.get)
      /\ ResultOf(m, r) = "nil" => read \in NilFor(m.get) \ TrueFor(m.get)

\* The first half, for one method.
MethodFits(m) ==
  /\ m.cmd \in kCommand \ {"EXEC"}
  /\ m.fixed \in Nat /\ m.each \in Nat
  /\ m.get # "raw" => ArgsFit(m)
  /\ m.cmd # "NOOP" =>
       \A r \in Answers(m.cmd) : Gap(m, r) \/ ReplyFits(m, r)

Agreed == agreed = (multi = transaction_mode_)

\* The server has answered +QUEUED in a transaction that stays open.
Queued ==
  /\ did = "queued"
  /\ reply = Reply("+", "QUEUED")
  /\ method.cmd \notin Immediate

\* The server has run the command.
Ran ==
  /\ did = "run"
  /\ method.cmd # "NOOP"
  /\ reply \in Answers(method.cmd)

\* Of a call between check_argc and the reply.
Sent ==
  pc \in {"check", "server"} =>
    Agreed /\ did = "nothing" /\ (method.each = 0 => size = 0)

\* Of a reply on the wire.
Answered ==
  pc = "reply" =>
    \/ reply.byte = "-"
    \/ Queued
    \/ /\ Ran
       /\ multi = (method.cmd = "MULTI")
       /\ agreed => method.cmd = "DISCARD" \/ ~transaction_mode_

\* Of a reply read.
WasRead ==
  pc = "result" =>
    \/ Queued /\ out = Output("kStatus", "QUEUED")
    \/ /\ Ran
       /\ agreed /\ ~Gap(method, reply) =>
            out = ReadOutput(reply, reply_type_of(method.cmd))

CallInv == TypeOK /\ Sent /\ Answered /\ WasRead /\ Understood /\ TrueMeansRun
=============================================================================
