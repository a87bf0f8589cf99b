------------------------- MODULE RedisCommandsProofs -------------------------
(***************************************************************************)
(* What RedisCommands promises, for vectors of every size.                 *)
(*                                                                         *)
(* The first part goes through the methods: the row of its command has room*)
(* for the arguments that a method pushes, and its getter takes whatever   *)
(* the server may answer.  The second part follows a call.                 *)
(***************************************************************************)
EXTENDS RedisCommands, TLAPS

-----------------------------------------------------------------------------
(***************************************************************************)
(* The methods.                                                            *)
(***************************************************************************)

\* The getter goes with the reply type of the row and with what the server
\* answers.
Suits(cmd, get) ==
  \/ get = "integer" /\ cmd \in IntegerCommands
  \/ get = "bulk" /\ cmd \in BulkCommands
  \/ get = "bulk2" /\ cmd \in SayFull
  \/ get = "mbulks" /\ cmd \in SayMbulks \cup {"SORT"}
  \/ get = "ok" /\ cmd \in (SayOK \cap StatusCommands) \cup {"BGSAVE"}
  \/ get = "status" /\ cmd \in {"TYPE", "BGREWRITEAOF"}
  \/ get = "pong" /\ cmd = "PING"
  \/ get = "bxpop" /\ cmd \in {"BLPOP", "BRPOP"}
  \/ get = "brpoplpush" /\ cmd = "BRPOPLPUSH"
  \/ get = "rank" /\ cmd \in {"ZRANK", "ZREVRANK"}
  \/ get = "old keys" /\ cmd = "KEYS"

Pushes(m, n) == m.fixed = n /\ m.each = 0

PushesLeast(m, n) == m.fixed \in Nat /\ m.each \in Nat /\ m.fixed + m.each >= n

\* The row has room for the arguments.
Room(m) ==
  \/ m.cmd \in Take0 /\ Pushes(m, 0)
  \/ m.cmd \in Take1 /\ Pushes(m, 1)
  \/ m.cmd \in Take2 /\ Pushes(m, 2)
  \/ m.cmd \in Take3 /\ Pushes(m, 3)
  \/ m.cmd = "LINSERT" /\ Pushes(m, 4)
  \/ m.cmd \in Least1 /\ PushesLeast(m, 1)
  \/ m.cmd \in Least2 /\ PushesLeast(m, 2)
  \/ m.cmd \in Least3 /\ PushesLeast(m, 3)
  \/ m.cmd = "INFO" /\ PushesLeast(m, 0)

Fits(m) == Suits(m.cmd, m.get) /\ Room(m)

\* One lemma for each group of methods, one step for each set of methods that
\* push the same arguments and read the reply in the same way.

LEMMA ExpireMethodsFit == \A m \in expire_methods : Fits(m)
<1>1. ASSUME NEW m \in Vector({"DEL"}, {0}, 1, "integer")
      PROVE  Fits(m)
  <2>1. /\ m.cmd \in Least1 /\ PushesLeast(m, 1)
        /\ m.cmd \in IntegerCommands /\ m.get = "integer"
    BY DEF Vector, PushesLeast, Least1, IntegerCommands
  <2>2. QED BY <2>1 DEF Fits, Suits, Room
<1>2. ASSUME NEW m \in Method({"DEL", "EXISTS", "PERSIST"}, 1, "integer")
      PROVE  Fits(m)
  <2>1. /\ m.cmd \in Take1 \cup Least1 /\ Pushes(m, 1) /\ PushesLeast(m, 1)
        /\ m.cmd \in IntegerCommands /\ m.get = "integer"
    BY DEF Method, Vector, Pushes, PushesLeast, Take1, Least1, IntegerCommands
  <2>2. QED BY <2>1 DEF Fits, Suits, Room
<1>3. ASSUME NEW m \in Method({"EXPIRE", "EXPIREAT", "MOVE"}, 2, "integer")
      PROVE  Fits(m)
  <2>1. /\ m.cmd \in Take2 /\ Pushes(m, 2)
        /\ m.cmd \in IntegerCommands /\ m.get = "integer"
    BY DEF Method, Vector, Pushes, Take2, IntegerCommands
  <2>2. QED BY <2>1 DEF Fits, Suits, Room
<1>4. ASSUME NEW m \in Method({"DUMP"}, 1, "bulk")
      PROVE  Fits(m)
  <2>1. /\ m.cmd \in Take1 /\ Pushes(m, 1)
        /\ m.cmd \in BulkCommands /\ m.get = "bulk"
    BY DEF Method, Vector, Pushes, Take1, BulkCommands
  <2>2. QED BY <2>1 DEF Fits, Suits, Room
<1>5. ASSUME NEW m \in Method({"KEYS"}, 1, "mbulks")
      PROVE  Fits(m)
  <2>1. /\ m.cmd \in Take1 /\ Pushes(m, 1)
        /\ m.cmd \in SayMbulks /\ m.get = "mbulks"
    BY DEF Method, Vector, Pushes, Take1, SayMbulks
  <2>2. QED BY <2>1 DEF Fits, Suits, Room
<1>6. QED BY <1>1, <1>2, <1>3, <1>4, <1>5 DEF expire_methods

LEMMA KeyMethodsFit == \A m \in key_methods : Fits(m)
<1>1. ASSUME NEW m \in Method({"PTTL", "TTL"}, 1, "integer")
      PROVE  Fits(m)
  <2>1. /\ m.cmd \in Take1 /\ Pushes(m, 1)
        /\ m.cmd \in IntegerCommands /\ m.get = "integer"
    BY DEF Method, Vector, Pushes, Take1, IntegerCommands
  <2>2. QED BY <2>1 DEF Fits, Suits, Room
<1>2. ASSUME NEW m \in Method({"PEXPIRE", "PEXPIREAT"}, 2, "integer")
      PROVE  Fits(m)
  <2>1. /\ m.cmd \in Take2 /\ Pushes(m, 2)
        /\ m.cmd \in IntegerCommands /\ m.get = "integer"
    BY DEF Method, Vector, Pushes, Take2, IntegerCommands
  <2>2. QED BY <2>1 DEF Fits, Suits, Room
<1>3. ASSUME NEW m \in Method({"RESTORE"}, 3, "ok")
      PROVE  Fits(m)
  <2>1. /\ m.cmd \in Take3 /\ Pushes(m, 3)
        /\ m.cmd \in SayOK \cap StatusCommands /\ m.get = "ok"
    BY DEF Method, Vector, Pushes, Take3, SayOK, StatusCommands
  <2>2. QED BY <2>1 DEF Fits, Suits, Room
<1>4. ASSUME NEW m \in Method({"RANDOMKEY"}, 0, "bulk")
      PROVE  Fits(m)
  <2>1. /\ m.cmd \in Take0 /\ Pushes(m, 0)
        /\ m.cmd \in BulkCommands /\ m.get = "bulk"
    BY DEF Method, Vector, Pushes, Take0, BulkCommands
  <2>2. QED BY <2>1 DEF Fits, Suits, Room
<1>5. ASSUME NEW m \in Vector({"SORT"}, {1}, 1, "mbulks")
      PROVE  Fits(m)
  <2>1. /\ m.cmd \in Least1 /\ PushesLeast(m, 1)
        /\ m.cmd = "SORT" /\ m.get = "mbulks"
    BY DEF Vector, PushesLeast, Least1
  <2>2. QED BY <2>1 DEF Fits, Suits, Room
<1>6. ASSUME NEW m \in Method({"TYPE"}, 1, "status")
      PROVE  Fits(m)
  <2>1. /\ m.cmd \in Take1 /\ Pushes(m, 1)
        /\ m.cmd \in {"TYPE"} /\ m.get = "status"
    BY DEF Method, Vector, Pushes, Take1
  <2>2. QED BY <2>1 DEF Fits, Suits, Room
<1>7. QED BY <1>1, <1>2, <1>3, <1>4, <1>5, <1>6 DEF key_methods

LEMMA GetMethodsFit == \A m \in get_methods : Fits(m)
<1>1. ASSUME NEW m \in Method({"DECR"}, 1, "integer")
      PROVE  Fits(m)
  <2>1. /\ m.cmd \in Take1 /\ Pushes(m, 1)
        /\ m.cmd \in IntegerCommands /\ m.get = "integer"
    BY DEF Method, Vector, Pushes, Take1, IntegerCommands
  <2>2. QED BY <2>1 DEF Fits, Suits, Room
<1>2. ASSUME NEW m \in Method({"APPEND", "DECRBY", "GETBIT"}, 2, "integer")
      PROVE  Fits(m)
  <2>1. /\ m.cmd \in Take2 /\ Pushes(m, 2)
        /\ m.cmd \in IntegerCommands /\ m.get = "integer"
    BY DEF Method, Vector, Pushes, Take2, IntegerCommands
  <2>2. QED BY <2>1 DEF Fits, Suits, Room
<1>3. ASSUME NEW m \in Method({"GET"}, 1, "bulk")
      PROVE  Fits(m)
  <2>1. /\ m.cmd \in Take1 /\ Pushes(m, 1)
        /\ m.cmd \in BulkCommands /\ m.get = "bulk"
    BY DEF Method, Vector, Pushes, Take1, BulkCommands
  <2>2. QED BY <2>1 DEF Fits, Suits, Room
<1>4. ASSUME NEW m \in Method({"GETSET"}, 2, "bulk")
      PROVE  Fits(m)
  <2>1. /\ m.cmd \in Take2 /\ Pushes(m, 2)
        /\ m.cmd \in BulkCommands /\ m.get = "bulk"
    BY DEF Method, Vector, Pushes, Take2, BulkCommands
  <2>2. QED BY <2>1 DEF Fits, Suits, Room
<1>5. ASSUME NEW m \in Method({"GETRANGE"}, 3, "bulk")
      PROVE  Fits(m)
  <2>1. /\ m.cmd \in Take3 /\ Pushes(m, 3)
        /\ m.cmd \in BulkCommands /\ m.get = "bulk"
    BY DEF Method, Vector, Pushes, Take3, BulkCommands
  <2>2. QED BY <2>1 DEF Fits, Suits, Room
<1>6. QED BY <1>1, <1>2, <1>3, <1>4, <1>5 DEF get_methods

LEMMA IncrMethodsFit == \A m \in incr_methods : Fits(m)
<1>1. ASSUME NEW m \in Method({"INCR"}, 1, "integer")
      PROVE  Fits(m)
  <2>1. /\ m.cmd \in Take1 /\ Pushes(m, 1)
        /\ m.cmd \in IntegerCommands /\ m.get = "integer"
    BY DEF Method, Vector, Pushes, Take1, IntegerCommands
  <2>2. QED BY <2>1 DEF Fits, Suits, Room
<1>2. ASSUME NEW m \in Method({"INCRBY"}, 2, "integer")
      PROVE  Fits(m)
  <2>1. /\ m.cmd \in Take2 /\ Pushes(m, 2)
        /\ m.cmd \in IntegerCommands /\ m.get = "integer"
    BY DEF Method, Vector, Pushes, Take2, IntegerCommands
  <2>2. QED BY <2>1 DEF Fits, Suits, Room
<1>3. ASSUME NEW m \in Method({"INCRBYFLOAT"}, 2, "bulk2")
      PROVE  Fits(m)
  <2>1. /\ m.cmd \in Take2 /\ Pushes(m, 2)
        /\ m.cmd \in SayFull /\ m.get = "bulk2"
    BY DEF Method, Vector, Pushes, Take2, SayFull
  <2>2. QED BY <2>1 DEF Fits, Suits, Room
<1>4. ASSUME NEW m \in Vector({"MGET"}, {0}, 1, "mbulks")
      PROVE  Fits(m)
  <2>1. /\ m.cmd \in Least1 /\ PushesLeast(m, 1)
        /\ m.cmd \in SayMbulks /\ m.get = "mbulks"
    BY DEF Vector, PushesLeast, Least1, SayMbulks
  <2>2. QED BY <2>1 DEF Fits, Suits, Room
<1>5. ASSUME NEW m \in Pairs({"MSET"}, {0}, 2, "ok")
      PROVE  Fits(m)
  <2>1. /\ m.cmd \in Least2 /\ PushesLeast(m, 2)
        /\ m.cmd \in SayOK \cap StatusCommands /\ m.get = "ok"
    BY DEF Pairs, PushesLeast, Least2, SayOK, StatusCommands
  <2>2. QED BY <2>1 DEF Fits, Suits, Room
<1>6. ASSUME NEW m \in Method({"PSETEX"}, 3, "ok")
      PROVE  Fits(m)
  <2>1. /\ m.cmd \in Take3 /\ Pushes(m, 3)
        /\ m.cmd \in SayOK \cap StatusCommands /\ m.get = "ok"
    BY DEF Method, Vector, Pushes, Take3, SayOK, StatusCommands
  <2>2. QED BY <2>1 DEF Fits, Suits, Room
<1>7. QED BY <1>1, <1>2, <1>3, <1>4, <1>5, <1>6 DEF incr_methods

LEMMA SetMethodsFit == \A m \in set_methods : Fits(m)
<1>1. ASSUME NEW m \in Method({"SET"}, 2, "ok")
      PROVE  Fits(m)
  <2>1. /\ m.cmd \in Take2 /\ Pushes(m, 2)
        /\ m.cmd \in SayOK \cap StatusCommands /\ m.get = "ok"
    BY DEF Method, Vector, Pushes, Take2, SayOK, StatusCommands
  <2>2. QED BY <2>1 DEF Fits, Suits, Room
<1>2. ASSUME NEW m \in Method({"SETEX"}, 3, "ok")
      PROVE  Fits(m)
  <2>1. /\ m.cmd \in Take3 /\ Pushes(m, 3)
        /\ m.cmd \in SayOK \cap StatusCommands /\ m.get = "ok"
    BY DEF Method, Vector, Pushes, Take3, SayOK, StatusCommands
  <2>2. QED BY <2>1 DEF Fits, Suits, Room
<1>3. ASSUME NEW m \in Method({"STRLEN"}, 1, "integer")
      PROVE  Fits(m)
  <2>1. /\ m.cmd \in Take1 /\ Pushes(m, 1)
        /\ m.cmd \in IntegerCommands /\ m.get = "integer"
    BY DEF Method, Vector, Pushes, Take1, IntegerCommands
  <2>2. QED BY <2>1 DEF Fits, Suits, Room
<1>4. ASSUME NEW m \in Method({"SETNX"}, 2, "integer")
      PROVE  Fits(m)
  <2>1. /\ m.cmd \in Take2 /\ Pushes(m, 2)
        /\ m.cmd \in IntegerCommands /\ m.get = "integer"
    BY DEF Method, Vector, Pushes, Take2, IntegerCommands
  <2>2. QED BY <2>1 DEF Fits, Suits, Room
<1>5. ASSUME NEW m \in Method({"SETBIT", "SETRANGE"}, 3, "integer")
      PROVE  Fits(m)
  <2>1. /\ m.cmd \in Take3 /\ Pushes(m, 3)
        /\ m.cmd \in IntegerCommands /\ m.get = "integer"
    BY DEF Method, Vector, Pushes, Take3, IntegerCommands
  <2>2. QED BY <2>1 DEF Fits, Suits, Room
<1>6. QED BY <1>1, <1>2, <1>3, <1>4, <1>5 DEF set_methods

LEMMA HashMethodsFit == \A m \in hash_methods : Fits(m)
<1>1. ASSUME NEW m \in Vector({"HDEL"}, {1}, 1, "integer")
      PROVE  Fits(m)
  <2>1. /\ m.cmd \in Least2 /\ PushesLeast(m, 2)
        /\ m.cmd \in IntegerCommands /\ m.get = "integer"
    BY DEF Vector, PushesLeast, Least2, IntegerCommands
  <2>2. QED BY <2>1 DEF Fits, Suits, Room
<1>2. ASSUME NEW m \in Method({"HDEL", "HEXISTS"}, 2, "integer")
      PROVE  Fits(m)
  <2>1. /\ m.cmd \in Take2 \cup Least2 /\ Pushes(m, 2) /\ PushesLeast(m, 2)
        /\ m.cmd \in IntegerCommands /\ m.get = "integer"
    BY DEF Method, Vector, Pushes, PushesLeast, Take2, Least2, IntegerCommands
  <2>2. QED BY <2>1 DEF Fits, Suits, Room
<1>3. ASSUME NEW m \in Method({"HINCRBY"}, 3, "integer")
      PROVE  Fits(m)
  <2>1. /\ m.cmd \in Take3 /\ Pushes(m, 3)
        /\ m.cmd \in IntegerCommands /\ m.get = "integer"
    BY DEF Method, Vector, Pushes, Take3, IntegerCommands
  <2>2. QED BY <2>1 DEF Fits, Suits, Room
<1>4. ASSUME NEW m \in Method({"HGET"}, 2, "bulk")
      PROVE  Fits(m)
  <2>1. /\ m.cmd \in Take2 /\ Pushes(m, 2)
        /\ m.cmd \in BulkCommands /\ m.get = "bulk"
    BY DEF Method, Vector, Pushes, Take2, BulkCommands
  <2>2. QED BY <2>1 DEF Fits, Suits, Room
<1>5. ASSUME NEW m \in Method({"HINCRBYFLOAT"}, 3, "bulk2")
      PROVE  Fits(m)
  <2>1. /\ m.cmd \in Take3 /\ Pushes(m, 3)
        /\ m.cmd \in SayFull /\ m.get = "bulk2"
    BY DEF Method, Vector, Pushes, Take3, SayFull
  <2>2. QED BY <2>1 DEF Fits, Suits, Room
<1>6. ASSUME NEW m \in Method({"HGETALL"}, 1, "mbulks")
      PROVE  Fits(m)
  <2>1. /\ m.cmd \in Take1 /\ Pushes(m, 1)
        /\ m.cmd \in SayMbulks /\ m.get = "mbulks"
    BY DEF Method, Vector, Pushes, Take1, SayMbulks
  <2>2. QED BY <2>1 DEF Fits, Suits, Room
<1>7. QED BY <1>1, <1>2, <1>3, <1>4, <1>5, <1>6 DEF hash_methods

LEMMA HsetMethodsFit == \A m \in hset_methods : Fits(m)
<1>1. ASSUME NEW m \in Method({"HLEN"}, 1, "integer")
      PROVE  Fits(m)
  <2>1. /\ m.cmd \in Take1 /\ Pushes(m, 1)
        /\ m.cmd \in IntegerCommands /\ m.get = "integer"
    BY DEF Method, Vector, Pushes, Take1, IntegerCommands
  <2>2. QED BY <2>1 DEF Fits, Suits, Room
<1>2. ASSUME NEW m \in Method({"HSET", "HSETNX"}, 3, "integer")
      PROVE  Fits(m)
  <2>1. /\ m.cmd \in Take3 /\ Pushes(m, 3)
        /\ m.cmd \in IntegerCommands /\ m.get = "integer"
    BY DEF Method, Vector, Pushes, Take3, IntegerCommands
  <2>2. QED BY <2>1 DEF Fits, Suits, Room
<1>3. ASSUME NEW m \in Method({"HKEYS", "HVALS"}, 1, "mbulks")
      PROVE  Fits(m)
  <2>1. /\ m.cmd \in Take1 /\ Pushes(m, 1)
        /\ m.cmd \in SayMbulks /\ m.get = "mbulks"
    BY DEF Method, Vector, Pushes, Take1, SayMbulks
  <2>2. QED BY <2>1 DEF Fits, Suits, Room
<1>4. ASSUME NEW m \in Vector({"HMGET"}, {1}, 1, "mbulks")
      PROVE  Fits(m)
  <2>1. /\ m.cmd \in Least2 /\ PushesLeast(m, 2)
        /\ m.cmd \in SayMbulks /\ m.get = "mbulks"
    BY DEF Vector, PushesLeast, Least2, SayMbulks
  <2>2. QED BY <2>1 DEF Fits, Suits, Room
<1>5. ASSUME NEW m \in Pairs({"HMSET"}, {1}, 2, "ok")
      PROVE  Fits(m)
  <2>1. /\ m.cmd \in Least3 /\ PushesLeast(m, 3)
        /\ m.cmd \in SayOK \cap StatusCommands /\ m.get = "ok"
    BY DEF Pairs, PushesLeast, Least3, SayOK, StatusCommands
  <2>2. QED BY <2>1 DEF Fits, Suits, Room
<1>6. QED BY <1>1, <1>2, <1>3, <1>4, <1>5 DEF hset_methods

LEMMA ListMethodsFit == \A m \in list_methods : Fits(m)
<1>1. ASSUME NEW m \in Vector({"BLPOP", "BRPOP"}, {1}, 1, "bxpop")
      PROVE  Fits(m)
  <2>1. /\ m.cmd \in Least2 /\ PushesLeast(m, 2)
        /\ m.cmd \in {"BLPOP", "BRPOP"} /\ m.get = "bxpop"
    BY DEF Vector, PushesLeast, Least2
  <2>2. QED BY <2>1 DEF Fits, Suits, Room
<1>2. ASSUME NEW m \in Method({"LINDEX"}, 2, "bulk")
      PROVE  Fits(m)
  <2>1. /\ m.cmd \in Take2 /\ Pushes(m, 2)
        /\ m.cmd \in BulkCommands /\ m.get = "bulk"
    BY DEF Method, Vector, Pushes, Take2, BulkCommands
  <2>2. QED BY <2>1 DEF Fits, Suits, Room
<1>3. ASSUME NEW m \in Method({"LINSERT"}, 4, "integer")
      PROVE  Fits(m)
  <2>1. /\ m.cmd = "LINSERT" /\ Pushes(m, 4)
        /\ m.cmd \in IntegerCommands /\ m.get = "integer"
    BY DEF Method, Vector, Pushes, IntegerCommands
  <2>2. QED BY <2>1 DEF Fits, Suits, Room
<1>4. ASSUME NEW m \in Method({"LLEN"}, 1, "integer")
      PROVE  Fits(m)
  <2>1. /\ m.cmd \in Take1 /\ Pushes(m, 1)
        /\ m.cmd \in IntegerCommands /\ m.get = "integer"
    BY DEF Method, Vector, Pushes, Take1, IntegerCommands
  <2>2. QED BY <2>1 DEF Fits, Suits, Room
<1>5. ASSUME NEW m \in Method({"LPOP"}, 1, "bulk")
      PROVE  Fits(m)
  <2>1. /\ m.cmd \in Take1 /\ Pushes(m, 1)
        /\ m.cmd \in BulkCommands /\ m.get = "bulk"
    BY DEF Method, Vector, Pushes, Take1, BulkCommands
  <2>2. QED BY <2>1 DEF Fits, Suits, Room
<1>6. ASSUME NEW m \in Vector({"LPUSH"}, {1}, 1, "integer")
      PROVE  Fits(m)
  <2>1. /\ m.cmd \in Least2 /\ PushesLeast(m, 2)
        /\ m.cmd \in IntegerCommands /\ m.get = "integer"
    BY DEF Vector, PushesLeast, Least2, IntegerCommands
  <2>2. QED BY <2>1 DEF Fits, Suits, Room
<1>7. ASSUME NEW m \in Method({"LPUSH"}, 2, "integer")
      PROVE  Fits(m)
  <2>1. /\ m.cmd \in Least2 /\ PushesLeast(m, 2)
        /\ m.cmd \in IntegerCommands /\ m.get = "integer"
    BY DEF Method, Vector, PushesLeast, Least2, IntegerCommands
  <2>2. QED BY <2>1 DEF Fits, Suits, Room
<1>8. QED BY <1>1, <1>2, <1>3, <1>4, <1>5, <1>6, <1>7 DEF list_methods

LEMMA PushMethodsFit == \A m \in push_methods : Fits(m)
<1>1. ASSUME NEW m \in Method({"LPUSHX", "RPUSH", "RPUSHX"}, 2, "integer")
      PROVE  Fits(m)
  <2>1. /\ m.cmd \in Take2 \cup Least2 /\ Pushes(m, 2) /\ PushesLeast(m, 2)
        /\ m.cmd \in IntegerCommands /\ m.get = "integer"
    BY DEF Method, Vector, Pushes, PushesLeast, Take2, Least2, IntegerCommands
  <2>2. QED BY <2>1 DEF Fits, Suits, Room
<1>2. ASSUME NEW m \in Vector({"RPUSH"}, {1}, 1, "integer")
      PROVE  Fits(m)
  <2>1. /\ m.cmd \in Least2 /\ PushesLeast(m, 2)
        /\ m.cmd \in IntegerCommands /\ m.get = "integer"
    BY DEF Vector, PushesLeast, Least2, IntegerCommands
  <2>2. QED BY <2>1 DEF Fits, Suits, Room
<1>3. ASSUME NEW m \in Method({"LREM"}, 3, "integer")
      PROVE  Fits(m)
  <2>1. /\ m.cmd \in Take3 /\ Pushes(m, 3)
        /\ m.cmd \in IntegerCommands /\ m.get = "integer"
    BY DEF Method, Vector, Pushes, Take3, IntegerCommands
  <2>2. QED BY <2>1 DEF Fits, Suits, Room
<1>4. ASSUME NEW m \in Method({"LRANGE"}, 3, "mbulks")
      PROVE  Fits(m)
  <2>1. /\ m.cmd \in Take3 /\ Pushes(m, 3)
        /\ m.cmd \in SayMbulks /\ m.get = "mbulks"
    BY DEF Method, Vector, Pushes, Take3, SayMbulks
  <2>2. QED BY <2>1 DEF Fits, Suits, Room
<1>5. ASSUME NEW m \in Method({"LSET", "LTRIM"}, 3, "ok")
      PROVE  Fits(m)
  <2>1. /\ m.cmd \in Take3 /\ Pushes(m, 3)
        /\ m.cmd \in SayOK \cap StatusCommands /\ m.get = "ok"
    BY DEF Method, Vector, Pushes, Take3, SayOK, StatusCommands
  <2>2. QED BY <2>1 DEF Fits, Suits, Room
<1>6. ASSUME NEW m \in Method({"RPOP"}, 1, "bulk")
      PROVE  Fits(m)
  <2>1. /\ m.cmd \in Take1 /\ Pushes(m, 1)
        /\ m.cmd \in BulkCommands /\ m.get = "bulk"
    BY DEF Method, Vector, Pushes, Take1, BulkCommands
  <2>2. QED BY <2>1 DEF Fits, Suits, Room
<1>7. QED BY <1>1, <1>2, <1>3, <1>4, <1>5, <1>6 DEF push_methods

LEMMA MemberMethodsFit == \A m \in member_methods : Fits(m)
<1>1. ASSUME NEW m \in Vector({"SADD", "SREM"}, {1}, 1, "integer")
      PROVE  Fits(m)
  <2>1. /\ m.cmd \in Least2 /\ PushesLeast(m, 2)
        /\ m.cmd \in IntegerCommands /\ m.get = "integer"
    BY DEF Vector, PushesLeast, Least2, IntegerCommands
  <2>2. QED BY <2>1 DEF Fits, Suits, Room
<1>2. ASSUME NEW m \in Method({"SADD", "SREM", "SISMEMBER"}, 2, "integer")
      PROVE  Fits(m)
  <2>1. /\ m.cmd \in Take2 \cup Least2 /\ Pushes(m, 2) /\ PushesLeast(m, 2)
        /\ m.cmd \in IntegerCommands /\ m.get = "integer"
    BY DEF Method, Vector, Pushes, PushesLeast, Take2, Least2, IntegerCommands
  <2>2. QED BY <2>1 DEF Fits, Suits, Room
<1>3. ASSUME NEW m \in Method({"SCARD"}, 1, "integer")
      PROVE  Fits(m)
  <2>1. /\ m.cmd \in Take1 /\ Pushes(m, 1)
        /\ m.cmd \in IntegerCommands /\ m.get = "integer"
    BY DEF Method, Vector, Pushes, Take1, IntegerCommands
  <2>2. QED BY <2>1 DEF Fits, Suits, Room
<1>4. ASSUME NEW m \in Method({"SMEMBERS"}, 1, "mbulks")
      PROVE  Fits(m)
  <2>1. /\ m.cmd \in Take1 /\ Pushes(m, 1)
        /\ m.cmd \in SayMbulks /\ m.get = "mbulks"
    BY DEF Method, Vector, Pushes, Take1, SayMbulks
  <2>2. QED BY <2>1 DEF Fits, Suits, Room
<1>5. ASSUME NEW m \in Method({"SPOP", "SRANDMEMBER"}, 1, "bulk")
      PROVE  Fits(m)
  <2>1. /\ m.cmd \in Take1 /\ Pushes(m, 1)
        /\ m.cmd \in BulkCommands /\ m.get = "bulk"
    BY DEF Method, Vector, Pushes, Take1, BulkCommands
  <2>2. QED BY <2>1 DEF Fits, Suits, Room
<1>6. QED BY <1>1, <1>2, <1>3, <1>4, <1>5 DEF member_methods

LEMMA ZaddMethodsFit == \A m \in zadd_methods : Fits(m)
<1>1. ASSUME NEW m \in Method({"ZADD"}, 3, "integer")
      PROVE  Fits(m)
  <2>1. /\ m.cmd \in Least3 /\ PushesLeast(m, 3)
        /\ m.cmd \in IntegerCommands /\ m.get = "integer"
    BY DEF Method, Vector, PushesLeast, Least3, IntegerCommands
  <2>2. QED BY <2>1 DEF Fits, Suits, Room
<1>2. ASSUME NEW m \in Pairs({"ZADD"}, {1}, 2, "integer")
      PROVE  Fits(m)
  <2>1. /\ m.cmd \in Least3 /\ PushesLeast(m, 3)
        /\ m.cmd \in IntegerCommands /\ m.get = "integer"
    BY DEF Pairs, PushesLeast, Least3, IntegerCommands
  <2>2. QED BY <2>1 DEF Fits, Suits, Room
<1>3. ASSUME NEW m \in Method({"ZCARD"}, 1, "integer")
      PROVE  Fits(m)
  <2>1. /\ m.cmd \in Take1 /\ Pushes(m, 1)
        /\ m.cmd \in IntegerCommands /\ m.get = "integer"
    BY DEF Method, Vector, Pushes, Take1, IntegerCommands
  <2>2. QED BY <2>1 DEF Fits, Suits, Room
<1>4. ASSUME NEW m \in Method({"ZCOUNT"}, 3, "integer")
      PROVE  Fits(m)
  <2>1. /\ m.cmd \in Take3 /\ Pushes(m, 3)
        /\ m.cmd \in IntegerCommands /\ m.get = "integer"
    BY DEF Method, Vector, Pushes, Take3, IntegerCommands
  <2>2. QED BY <2>1 DEF Fits, Suits, Room
<1>5. ASSUME NEW m \in Method({"ZINCRBY"}, 3, "bulk2")
      PROVE  Fits(m)
  <2>1. /\ m.cmd \in Take3 /\ Pushes(m, 3)
        /\ m.cmd \in SayFull /\ m.get = "bulk2"
    BY DEF Method, Vector, Pushes, Take3, SayFull
  <2>2. QED BY <2>1 DEF Fits, Suits, Room
<1>6. QED BY <1>1, <1>2, <1>3, <1>4, <1>5 DEF zadd_methods

LEMMA ZrangeMethodsFit == \A m \in zrange_methods : Fits(m)
<1>1. ASSUME NEW m \in Vector({"ZRANGE", "ZREVRANGE"}, {3, 4}, 0, "mbulks")
      PROVE  Fits(m)
  <2>1. /\ m.cmd \in Least3 /\ PushesLeast(m, 3)
        /\ m.cmd \in SayMbulks /\ m.get = "mbulks"
    BY DEF Vector, PushesLeast, Least3, SayMbulks
  <2>2. QED BY <2>1 DEF Fits, Suits, Room
<1>2. ASSUME NEW m \in
         Vector({"ZRANGEBYSCORE", "ZREVRANGEBYSCORE"}, {3, 4, 6, 7}, 0,
           "mbulks")
      PROVE  Fits(m)
  <2>1. /\ m.cmd \in Least3 /\ PushesLeast(m, 3)
        /\ m.cmd \in SayMbulks /\ m.get = "mbulks"
    BY DEF Vector, PushesLeast, Least3, SayMbulks
  <2>2. QED BY <2>1 DEF Fits, Suits, Room
<1>3. ASSUME NEW m \in Method({"ZRANK", "ZREVRANK"}, 2, "rank")
      PROVE  Fits(m)
  <2>1. /\ m.cmd \in Take2 /\ Pushes(m, 2)
        /\ m.cmd \in {"ZRANK", "ZREVRANK"} /\ m.get = "rank"
    BY DEF Method, Vector, Pushes, Take2
  <2>2. QED BY <2>1 DEF Fits, Suits, Room
<1>4. QED BY <1>1, <1>2, <1>3 DEF zrange_methods

LEMMA ZremMethodsFit == \A m \in zrem_methods : Fits(m)
<1>1. ASSUME NEW m \in Vector({"ZREM"}, {1}, 1, "integer")
      PROVE  Fits(m)
  <2>1. /\ m.cmd \in Least2 /\ PushesLeast(m, 2)
        /\ m.cmd \in IntegerCommands /\ m.get = "integer"
    BY DEF Vector, PushesLeast, Least2, IntegerCommands
  <2>2. QED BY <2>1 DEF Fits, Suits, Room
<1>2. ASSUME NEW m \in Method({"ZREM"}, 2, "integer")
      PROVE  Fits(m)
  <2>1. /\ m.cmd \in Least2 /\ PushesLeast(m, 2)
        /\ m.cmd \in IntegerCommands /\ m.get = "integer"
    BY DEF Method, Vector, PushesLeast, Least2, IntegerCommands
  <2>2. QED BY <2>1 DEF Fits, Suits, Room
<1>3. ASSUME NEW m \in
         Method({"ZREMRANGEBYRANK", "ZREMRANGEBYSCORE"}, 3, "integer")
      PROVE  Fits(m)
  <2>1. /\ m.cmd \in Take3 /\ Pushes(m, 3)
        /\ m.cmd \in IntegerCommands /\ m.get = "integer"
    BY DEF Method, Vector, Pushes, Take3, IntegerCommands
  <2>2. QED BY <2>1 DEF Fits, Suits, Room
<1>4. ASSUME NEW m \in Method({"ZSCORE"}, 2, "bulk")
      PROVE  Fits(m)
  <2>1. /\ m.cmd \in Take2 /\ Pushes(m, 2)
        /\ m.cmd \in BulkCommands /\ m.get = "bulk"
    BY DEF Method, Vector, Pushes, Take2, BulkCommands
  <2>2. QED BY <2>1 DEF Fits, Suits, Room
<1>5. QED BY <1>1, <1>2, <1>3, <1>4 DEF zrem_methods

LEMMA RenameMethodsFit == \A m \in rename_methods : Fits(m)
<1>1. ASSUME NEW m \in Method({"SELECT"}, 1, "ok")
      PROVE  Fits(m)
  <2>1. /\ m.cmd \in Take1 /\ Pushes(m, 1)
        /\ m.cmd \in SayOK \cap StatusCommands /\ m.get = "ok"
    BY DEF Method, Vector, Pushes, Take1, SayOK, StatusCommands
  <2>2. QED BY <2>1 DEF Fits, Suits, Room
<1>2. ASSUME NEW m \in Method({"FLUSHALL", "FLUSHDB"}, 0, "ok")
      PROVE  Fits(m)
  <2>1. /\ m.cmd \in Take0 /\ Pushes(m, 0)
        /\ m.cmd \in SayOK \cap StatusCommands /\ m.get = "ok"
    BY DEF Method, Vector, Pushes, Take0, SayOK, StatusCommands
  <2>2. QED BY <2>1 DEF Fits, Suits, Room
<1>3. ASSUME NEW m \in Method({"RENAME"}, 2, "ok")
      PROVE  Fits(m)
  <2>1. /\ m.cmd \in Take2 /\ Pushes(m, 2)
        /\ m.cmd \in SayOK \cap StatusCommands /\ m.get = "ok"
    BY DEF Method, Vector, Pushes, Take2, SayOK, StatusCommands
  <2>2. QED BY <2>1 DEF Fits, Suits, Room
<1>4. ASSUME NEW m \in Method({"RENAMENX"}, 2, "integer")
      PROVE  Fits(m)
  <2>1. /\ m.cmd \in Take2 /\ Pushes(m, 2)
        /\ m.cmd \in IntegerCommands /\ m.get = "integer"
    BY DEF Method, Vector, Pushes, Take2, IntegerCommands
  <2>2. QED BY <2>1 DEF Fits, Suits, Room
<1>5. ASSUME NEW m \in Method({"BRPOPLPUSH"}, 3, "brpoplpush")
      PROVE  Fits(m)
  <2>1. /\ m.cmd \in Take3 /\ Pushes(m, 3)
        /\ m.cmd = "BRPOPLPUSH" /\ m.get = "brpoplpush"
    BY DEF Method, Vector, Pushes, Take3
  <2>2. QED BY <2>1 DEF Fits, Suits, Room
<1>6. ASSUME NEW m \in Method({"RPOPLPUSH"}, 2, "bulk")
      PROVE  Fits(m)
  <2>1. /\ m.cmd \in Take2 /\ Pushes(m, 2)
        /\ m.cmd \in BulkCommands /\ m.get = "bulk"
    BY DEF Method, Vector, Pushes, Take2, BulkCommands
  <2>2. QED BY <2>1 DEF Fits, Suits, Room
<1>7. QED BY <1>1, <1>2, <1>3, <1>4, <1>5, <1>6 DEF rename_methods

LEMMA StoreMethodsFit == \A m \in store_methods : Fits(m)
<1>1. ASSUME NEW m \in Vector({"SDIFF", "SINTER", "SUNION"}, {0}, 1, "mbulks")
      PROVE  Fits(m)
  <2>1. /\ m.cmd \in Least1 /\ PushesLeast(m, 1)
        /\ m.cmd \in SayMbulks /\ m.get = "mbulks"
    BY DEF Vector, PushesLeast, Least1, SayMbulks
  <2>2. QED BY <2>1 DEF Fits, Suits, Room
<1>2. ASSUME NEW m \in
         Vector({"SDIFFSTORE", "SINTERSTORE", "SUNIONSTORE"}, {1}, 1,
           "integer")
      PROVE  Fits(m)
  <2>1. /\ m.cmd \in Least2 /\ PushesLeast(m, 2)
        /\ m.cmd \in IntegerCommands /\ m.get = "integer"
    BY DEF Vector, PushesLeast, Least2, IntegerCommands
  <2>2. QED BY <2>1 DEF Fits, Suits, Room
<1>3. ASSUME NEW m \in Method({"SMOVE"}, 3, "integer")
      PROVE  Fits(m)
  <2>1. /\ m.cmd \in Take3 /\ Pushes(m, 3)
        /\ m.cmd \in IntegerCommands /\ m.get = "integer"
    BY DEF Method, Vector, Pushes, Take3, IntegerCommands
  <2>2. QED BY <2>1 DEF Fits, Suits, Room
<1>4. QED BY <1>1, <1>2, <1>3 DEF store_methods

LEMMA ZstoreMethodsFit == \A m \in zstore_methods : Fits(m)
<1>1. ASSUME NEW m \in
         Vector({"ZINTERSTORE", "ZUNIONSTORE"}, {2, 4}, 1, "integer")
      PROVE  Fits(m)
  <2>1. /\ m.cmd \in Least3 /\ PushesLeast(m, 3)
        /\ m.cmd \in IntegerCommands /\ m.get = "integer"
    BY DEF Vector, PushesLeast, Least3, IntegerCommands
  <2>2. QED BY <2>1 DEF Fits, Suits, Room
<1>2. ASSUME NEW m \in
         Vector({"ZINTERSTORE", "ZUNIONSTORE"}, {3, 5}, 2, "integer")
      PROVE  Fits(m)
  <2>1. /\ m.cmd \in Least3 /\ PushesLeast(m, 3)
        /\ m.cmd \in IntegerCommands /\ m.get = "integer"
    BY DEF Vector, PushesLeast, Least3, IntegerCommands
  <2>2. QED BY <2>1 DEF Fits, Suits, Room
<1>3. QED BY <1>1, <1>2 DEF zstore_methods

LEMMA WatchMethodsFit == \A m \in watch_methods : Fits(m)
<1>1. ASSUME NEW m \in Method({"PUBLISH"}, 2, "integer")
      PROVE  Fits(m)
  <2>1. /\ m.cmd \in Take2 /\ Pushes(m, 2)
        /\ m.cmd \in IntegerCommands /\ m.get = "integer"
    BY DEF Method, Vector, Pushes, Take2, IntegerCommands
  <2>2. QED BY <2>1 DEF Fits, Suits, Room
<1>2. ASSUME NEW m \in Method({"MULTI", "UNWATCH"}, 0, "ok")
      PROVE  Fits(m)
  <2>1. /\ m.cmd \in Take0 /\ Pushes(m, 0)
        /\ m.cmd \in SayOK \cap StatusCommands /\ m.get = "ok"
    BY DEF Method, Vector, Pushes, Take0, SayOK, StatusCommands
  <2>2. QED BY <2>1 DEF Fits, Suits, Room
<1>3. ASSUME NEW m \in Vector({"WATCH"}, {0}, 1, "ok")
      PROVE  Fits(m)
  <2>1. /\ m.cmd \in Least1 /\ PushesLeast(m, 1)
        /\ m.cmd \in SayOK \cap StatusCommands /\ m.get = "ok"
    BY DEF Vector, PushesLeast, Least1, SayOK, StatusCommands
  <2>2. QED BY <2>1 DEF Fits, Suits, Room
<1>4. QED BY <1>1, <1>2, <1>3 DEF watch_methods

LEMMA ServerMethodsFit == \A m \in server_methods : Fits(m)
<1>1. ASSUME NEW m \in Method({"DISCARD", "BGSAVE"}, 0, "ok")
      PROVE  Fits(m)
  <2>1. /\ m.cmd \in Take0 /\ Pushes(m, 0)
        /\ m.cmd \in (SayOK \cap StatusCommands) \cup {"BGSAVE"}
        /\ m.get = "ok"
    BY DEF Method, Vector, Pushes, Take0, SayOK, StatusCommands
  <2>2. QED BY <2>1 DEF Fits, Suits, Room
<1>2. ASSUME NEW m \in Method({"PING"}, 0, "pong")
      PROVE  Fits(m)
  <2>1. /\ m.cmd \in Take0 /\ Pushes(m, 0)
        /\ m.cmd = "PING" /\ m.get = "pong"
    BY DEF Method, Vector, Pushes, Take0
  <2>2. QED BY <2>1 DEF Fits, Suits, Room
<1>3. ASSUME NEW m \in Method({"BGREWRITEAOF"}, 0, "status")
      PROVE  Fits(m)
  <2>1. /\ m.cmd \in Take0 /\ Pushes(m, 0)
        /\ m.cmd \in {"BGREWRITEAOF"} /\ m.get = "status"
    BY DEF Method, Vector, Pushes, Take0
  <2>2. QED BY <2>1 DEF Fits, Suits, Room
<1>4. ASSUME NEW m \in Method({"DBSIZE", "LASTSAVE"}, 0, "integer")
      PROVE  Fits(m)
  <2>1. /\ m.cmd \in Take0 /\ Pushes(m, 0)
        /\ m.cmd \in IntegerCommands /\ m.get = "integer"
    BY DEF Method, Vector, Pushes, Take0, IntegerCommands
  <2>2. QED BY <2>1 DEF Fits, Suits, Room
<1>5. ASSUME NEW m \in Vector({"INFO"}, {0, 1}, 0, "bulk2")
      PROVE  Fits(m)
  <2>1. /\ m.cmd = "INFO" /\ PushesLeast(m, 0)
        /\ m.cmd \in SayFull /\ m.get = "bulk2"
    BY DEF Vector, PushesLeast, SayFull
  <2>2. QED BY <2>1 DEF Fits, Suits, Room
<1>6. ASSUME NEW m \in Method({"SLAVEOF"}, 2, "ok")
      PROVE  Fits(m)
  <2>1. /\ m.cmd \in Take2 /\ Pushes(m, 2)
        /\ m.cmd \in SayOK \cap StatusCommands /\ m.get = "ok"
    BY DEF Method, Vector, Pushes, Take2, SayOK, StatusCommands
  <2>2. QED BY <2>1 DEF Fits, Suits, Room
<1>7. QED BY <1>1, <1>2, <1>3, <1>4, <1>5, <1>6 DEF server_methods

LEMMA OldMethodsFit == \A m \in old_methods : Fits(m)
<1>1. ASSUME NEW m \in Method({"GET"}, 1, "bulk")
      PROVE  Fits(m)
  <2>1. /\ m.cmd \in Take1 /\ Pushes(m, 1)
        /\ m.cmd \in BulkCommands /\ m.get = "bulk"
    BY DEF Method, Vector, Pushes, Take1, BulkCommands
  <2>2. QED BY <2>1 DEF Fits, Suits, Room
<1>2. ASSUME NEW m \in Method({"HGET"}, 2, "bulk")
      PROVE  Fits(m)
  <2>1. /\ m.cmd \in Take2 /\ Pushes(m, 2)
        /\ m.cmd \in BulkCommands /\ m.get = "bulk"
    BY DEF Method, Vector, Pushes, Take2, BulkCommands
  <2>2. QED BY <2>1 DEF Fits, Suits, Room
<1>3. ASSUME NEW m \in Method({"EXPIRE", "EXPIREAT", "HDEL"}, 2, "integer")
      PROVE  Fits(m)
  <2>1. /\ m.cmd \in Take2 \cup Least2 /\ Pushes(m, 2) /\ PushesLeast(m, 2)
        /\ m.cmd \in IntegerCommands /\ m.get = "integer"
    BY DEF Method, Vector, Pushes, PushesLeast, Take2, Least2, IntegerCommands
  <2>2. QED BY <2>1 DEF Fits, Suits, Room
<1>4. ASSUME NEW m \in Method({"HSET"}, 3, "integer")
      PROVE  Fits(m)
  <2>1. /\ m.cmd \in Take3 /\ Pushes(m, 3)
        /\ m.cmd \in IntegerCommands /\ m.get = "integer"
    BY DEF Method, Vector, Pushes, Take3, IntegerCommands
  <2>2. QED BY <2>1 DEF Fits, Suits, Room
<1>5. ASSUME NEW m \in Method({"HGETALL"}, 1, "mbulks")
      PROVE  Fits(m)
  <2>1. /\ m.cmd \in Take1 /\ Pushes(m, 1)
        /\ m.cmd \in SayMbulks /\ m.get = "mbulks"
    BY DEF Method, Vector, Pushes, Take1, SayMbulks
  <2>2. QED BY <2>1 DEF Fits, Suits, Room
<1>6. ASSUME NEW m \in Vector({"HMSET"}, {1}, 2, "ok")
      PROVE  Fits(m)
  <2>1. /\ m.cmd \in Least3 /\ PushesLeast(m, 3)
        /\ m.cmd \in SayOK \cap StatusCommands /\ m.get = "ok"
    BY DEF Vector, PushesLeast, Least3, SayOK, StatusCommands
  <2>2. QED BY <2>1 DEF Fits, Suits, Room
<1>7. ASSUME NEW m \in Method({"KEYS"}, 1, "old keys")
      PROVE  Fits(m)
  <2>1. /\ m.cmd \in Take1 /\ Pushes(m, 1)
        /\ m.cmd = "KEYS" /\ m.get = "old keys"
    BY DEF Method, Vector, Pushes, Take1
  <2>2. QED BY <2>1 DEF Fits, Suits, Room
<1>8. QED BY <1>1, <1>2, <1>3, <1>4, <1>5, <1>6, <1>7 DEF old_methods

-----------------------------------------------------------------------------
(***************************************************************************)
(* The columns of the table, and what the server answers.                  *)
(***************************************************************************)

LEMMA TableArgc ==
  /\ \A cmd \in Take0 : argc_of(cmd) = 0
  /\ \A cmd \in Take1 : argc_of(cmd) = 1
  /\ \A cmd \in Take2 : argc_of(cmd) = 2
  /\ \A cmd \in Take3 : argc_of(cmd) = 3
  /\ argc_of("LINSERT") = 4
  /\ \A cmd \in Least1 : argc_of(cmd) = -1
  /\ \A cmd \in Least2 : argc_of(cmd) = -2
  /\ \A cmd \in Least3 : argc_of(cmd) = -3
  /\ argc_of("INFO") = ARGC_NO_CHECKING
<1> USE DEF argc_of, Take0, Take1, Take2, Take3, Least1, Least2, Least3
<1>1. \A cmd \in Take0 : argc_of(cmd) = 0
  OBVIOUS
<1>2. \A cmd \in Take1 : argc_of(cmd) = 1
  OBVIOUS
<1>3. \A cmd \in Take2 : argc_of(cmd) = 2
  OBVIOUS
<1>4. \A cmd \in Take3 : argc_of(cmd) = 3
  OBVIOUS
<1>5. argc_of("LINSERT") = 4
  OBVIOUS
<1>6. \A cmd \in Least1 : argc_of(cmd) = -1
  OBVIOUS
<1>7. \A cmd \in Least2 : argc_of(cmd) = -2
  OBVIOUS
<1>8. \A cmd \in Least3 : argc_of(cmd) = -3
  OBVIOUS
<1>9. argc_of("INFO") = ARGC_NO_CHECKING
  OBVIOUS
<1> HIDE DEF argc_of, Take0, Take1, Take2, Take3, Least1, Least2, Least3
<1>10. QED BY <1>1, <1>2, <1>3, <1>4, <1>5, <1>6, <1>7, <1>8, <1>9

LEMMA ArgcIsInt == \A cmd : argc_of(cmd) \in Int
BY DEF argc_of, ARGC_NO_CHECKING

LEMMA TableType ==
  /\ \A cmd \in StatusCommands : reply_type_of(cmd) = "kStatus"
  /\ \A cmd \in IntegerCommands : reply_type_of(cmd) = "kInteger"
  /\ \A cmd \in BulkCommands : reply_type_of(cmd) = "kBulk"
  /\ \A cmd \in MultiBulkCommands : reply_type_of(cmd) = "kMultiBulk"
  /\ \A cmd \in DependsCommands : reply_type_of(cmd) = "kDepends"
<1> USE DEF reply_type_of, StatusCommands, IntegerCommands, BulkCommands,
            MultiBulkCommands, SpecialCommands, DependsCommands
<1>1. \A cmd \in StatusCommands : reply_type_of(cmd) = "kStatus"
  OBVIOUS
<1>2. \A cmd \in IntegerCommands : reply_type_of(cmd) = "kInteger"
  OBVIOUS
<1>3. \A cmd \in BulkCommands : reply_type_of(cmd) = "kBulk"
  OBVIOUS
<1>4. \A cmd \in MultiBulkCommands : reply_type_of(cmd) = "kMultiBulk"
  OBVIOUS
<1>5. \A cmd \in DependsCommands : reply_type_of(cmd) = "kDepends"
  OBVIOUS
<1> HIDE DEF reply_type_of, StatusCommands, IntegerCommands, BulkCommands,
             MultiBulkCommands, SpecialCommands, DependsCommands
<1>6. QED BY <1>1, <1>2, <1>3, <1>4, <1>5

\* The replies that are no errors.
Replies == {Reply("+", "OK"), Reply("+", "PONG"), Reply("+", "other"),
            Reply(":", "full"), Reply("$", "nil"), Reply("*", "nil")}
             \cup bulks \cup mbulks

\* Every answer is one of them.
LEMMA AnswersAreReplies == \A cmd : Answers(cmd) \subseteq Replies
<1> SUFFICES ASSUME NEW cmd PROVE Answers(cmd) \subseteq Replies
  OBVIOUS
<1>1. /\ {Reply("+", "OK")} \subseteq Replies
      /\ {Reply("+", "PONG")} \subseteq Replies
      /\ {Reply("+", "other")} \subseteq Replies
      /\ {Reply("$", "full")} \subseteq Replies
      /\ bulks \subseteq Replies
      /\ {Reply("$", "full"), Reply("$", "nil")} \subseteq Replies
      /\ bulks \cup {Reply("$", "nil")} \subseteq Replies
      /\ mbulks \subseteq Replies
      /\ mbulks \cup {Reply(":", "full")} \subseteq Replies
      /\ {Reply("*", "full"), Reply("*", "with empty"), Reply("*", "nil")}
           \subseteq Replies
      /\ bulks \cup {Reply("*", "nil")} \subseteq Replies
      /\ {Reply(":", "full"), Reply("$", "nil")} \subseteq Replies
      /\ {Reply(":", "full")} \subseteq Replies
  BY DEF Replies, bulks, mbulks
<1>2. QED BY <1>1, Zenon DEF Answers

\* The arms of Answers do not overlap.
NotStatus(cmd) == cmd \notin SayOK /\ cmd # "PING" /\ cmd \notin SayText

NotBulk(cmd) ==
  /\ cmd \notin SayFull /\ cmd \notin SayBulk
  /\ cmd \notin SayFullOrNil /\ cmd \notin SayBulkOrNil

NotMbulks(cmd) ==
  cmd \notin SayMbulks /\ cmd # "SORT" /\ cmd \notin {"BLPOP", "BRPOP"}

NotDepends(cmd) == cmd # "BRPOPLPUSH" /\ cmd \notin {"ZRANK", "ZREVRANK"}

LEMMA IntegerAnswers ==
  ASSUME NEW cmd \in IntegerCommands
  PROVE  Answers(cmd) = {Reply(":", "full")}
<1>1. NotStatus(cmd)
  BY DEF NotStatus, IntegerCommands, SayOK, SayText
<1>2. NotBulk(cmd)
  BY DEF NotBulk, IntegerCommands, SayFull, SayBulk, SayFullOrNil, SayBulkOrNil
<1>3. NotMbulks(cmd) /\ NotDepends(cmd)
  BY DEF NotMbulks, NotDepends, IntegerCommands, SayMbulks
<1>4. QED BY <1>1, <1>2, <1>3, Zenon
            DEF Answers, NotStatus, NotBulk, NotMbulks, NotDepends

LEMMA StatusAnswers ==
  /\ \A cmd \in SayOK : Answers(cmd) = {Reply("+", "OK")}
  /\ Answers("PING") = {Reply("+", "PONG")}
  /\ \A cmd \in SayText : Answers(cmd) = {Reply("+", "other")}
<1>1. ASSUME NEW cmd \in SayOK \cup {"PING"} \cup SayText
      PROVE  NotBulk(cmd) /\ NotMbulks(cmd) /\ NotDepends(cmd)
  <2>1. NotBulk(cmd)
    BY DEF NotBulk, SayOK, SayText, SayFull, SayBulk, SayFullOrNil,
           SayBulkOrNil
  <2>2. NotMbulks(cmd) /\ NotDepends(cmd)
    BY DEF NotMbulks, NotDepends, SayOK, SayText, SayMbulks
  <2>3. QED BY <2>1, <2>2
<1>2. \A cmd \in SayOK : cmd # "PING" /\ cmd \notin SayText
  BY DEF SayOK, SayText
<1>3. "PING" \notin SayOK /\ "PING" \notin SayText
  BY DEF SayOK, SayText
<1>4. ASSUME NEW cmd \in SayOK PROVE Answers(cmd) = {Reply("+", "OK")}
  <2>1. NotBulk(cmd) /\ NotMbulks(cmd) /\ NotDepends(cmd)
    BY <1>1
  <2>2. QED BY <2>1, <1>2, Zenon DEF Answers, NotBulk, NotMbulks, NotDepends
<1>5. Answers("PING") = {Reply("+", "PONG")}
  <2>1. NotBulk("PING") /\ NotMbulks("PING") /\ NotDepends("PING")
    BY <1>1
  <2>2. QED BY <2>1, <1>3, Zenon DEF Answers, NotBulk, NotMbulks, NotDepends
<1>6. ASSUME NEW cmd \in SayText PROVE Answers(cmd) = {Reply("+", "other")}
  <2>1. NotBulk(cmd) /\ NotMbulks(cmd) /\ NotDepends(cmd)
    BY <1>1
  <2>2. cmd \notin SayOK /\ cmd # "PING"
    BY <1>2, <1>3
  <2>3. QED BY <2>1, <2>2, Zenon DEF Answers, NotBulk, NotMbulks, NotDepends
<1>7. QED BY <1>4, <1>5, <1>6

LEMMA BulkAnswers ==
  /\ \A cmd \in BulkCommands :
       Answers(cmd) \subseteq
         {Reply("$", "full"), Reply("$", "empty"), Reply("$", "nil")}
  /\ \A cmd \in SayFull : Answers(cmd) = {Reply("$", "full")}
<1>1. ASSUME NEW cmd \in BulkCommands
      PROVE  NotStatus(cmd) /\ NotMbulks(cmd) /\ NotDepends(cmd)
  <2>1. NotStatus(cmd)
    BY DEF NotStatus, BulkCommands, SayOK, SayText
  <2>2. NotMbulks(cmd) /\ NotDepends(cmd)
    BY DEF NotMbulks, NotDepends, BulkCommands, SayMbulks
  <2>3. QED BY <2>1, <2>2
<1>2. ASSUME NEW cmd \in SayFull
      PROVE  /\ cmd \in BulkCommands /\ cmd \notin SayBulk
             /\ cmd \notin SayFullOrNil /\ cmd \notin SayBulkOrNil
  BY DEF BulkCommands, SayFull, SayBulk, SayFullOrNil, SayBulkOrNil
<1>3. ASSUME NEW cmd \in SayFull PROVE Answers(cmd) = {Reply("$", "full")}
  <2>1. NotStatus(cmd) /\ NotMbulks(cmd) /\ NotDepends(cmd)
    BY <1>1, <1>2
  <2>2. QED BY <2>1, <1>2, Zenon DEF Answers, NotStatus, NotMbulks, NotDepends
<1>4. ASSUME NEW cmd \in BulkCommands
      PROVE  Answers(cmd) \subseteq
               {Reply("$", "full"), Reply("$", "empty"), Reply("$", "nil")}
  <2>1. cmd \in SayFull \cup SayBulk \cup SayFullOrNil \cup SayBulkOrNil
    BY DEF BulkCommands, SayFull, SayBulk, SayFullOrNil, SayBulkOrNil
  <2>2. NotStatus(cmd) /\ NotMbulks(cmd) /\ NotDepends(cmd)
    BY <1>1
  <2>3. ASSUME cmd \in SayBulk PROVE Answers(cmd) = bulks
    <3>1. /\ cmd \notin SayFull
          /\ cmd \notin SayFullOrNil /\ cmd \notin SayBulkOrNil
      BY <2>3 DEF SayFull, SayBulk, SayFullOrNil, SayBulkOrNil
    <3>2. QED BY <3>1, <2>2, <2>3, Zenon
              DEF Answers, NotStatus, NotMbulks, NotDepends
  <2>4. ASSUME cmd \in SayFullOrNil
        PROVE  Answers(cmd) = {Reply("$", "full"), Reply("$", "nil")}
    <3>1. cmd \notin SayFull /\ cmd \notin SayBulk /\ cmd \notin SayBulkOrNil
      BY <2>4 DEF SayFull, SayBulk, SayFullOrNil, SayBulkOrNil
    <3>2. QED BY <3>1, <2>2, <2>4, Zenon
              DEF Answers, NotStatus, NotMbulks, NotDepends
  <2>5. ASSUME cmd \in SayBulkOrNil
        PROVE  Answers(cmd) = bulks \cup {Reply("$", "nil")}
    <3>1. cmd \notin SayFull /\ cmd \notin SayBulk /\ cmd \notin SayFullOrNil
      BY <2>5 DEF SayFull, SayBulk, SayFullOrNil, SayBulkOrNil
    <3>2. QED BY <3>1, <2>2, <2>5, Zenon
              DEF Answers, NotStatus, NotMbulks, NotDepends
  <2>6. QED BY <2>1, <2>3, <2>4, <2>5, <1>3 DEF bulks
<1>5. QED BY <1>3, <1>4

LEMMA MultiBulkAnswers ==
  /\ \A cmd \in SayMbulks : Answers(cmd) = mbulks
  /\ Answers("SORT") = mbulks \cup {Reply(":", "full")}
  /\ \A cmd \in {"BLPOP", "BRPOP"} :
       Answers(cmd) =
         {Reply("*", "full"), Reply("*", "with empty"), Reply("*", "nil")}
<1>1. ASSUME NEW cmd \in SayMbulks \cup {"SORT", "BLPOP", "BRPOP"}
      PROVE  NotStatus(cmd) /\ NotBulk(cmd) /\ NotDepends(cmd)
  <2>1. NotStatus(cmd)
    BY DEF NotStatus, SayMbulks, SayOK, SayText
  <2>2. NotBulk(cmd) /\ NotDepends(cmd)
    BY DEF NotBulk, NotDepends, SayMbulks, SayFull, SayBulk, SayFullOrNil,
           SayBulkOrNil
  <2>3. QED BY <2>1, <2>2
<1>2. /\ "SORT" \notin SayMbulks
      /\ "BLPOP" \notin SayMbulks /\ "BRPOP" \notin SayMbulks
  BY DEF SayMbulks
<1>3. ASSUME NEW cmd \in SayMbulks PROVE Answers(cmd) = mbulks
  <2>1. NotStatus(cmd) /\ NotBulk(cmd) /\ NotDepends(cmd)
    BY <1>1
  <2>2. cmd # "SORT" /\ cmd \notin {"BLPOP", "BRPOP"}
    BY <1>2
  <2>3. QED BY <2>1, <2>2, Zenon DEF Answers, NotStatus, NotBulk, NotDepends
<1>4. Answers("SORT") = mbulks \cup {Reply(":", "full")}
  <2>1. NotStatus("SORT") /\ NotBulk("SORT") /\ NotDepends("SORT")
    BY <1>1
  <2>2. QED BY <2>1, <1>2, Zenon DEF Answers, NotStatus, NotBulk, NotDepends
<1>5. ASSUME NEW cmd \in {"BLPOP", "BRPOP"}
      PROVE  Answers(cmd) =
             {Reply("*", "full"), Reply("*", "with empty"), Reply("*", "nil")}
  <2>1. NotStatus(cmd) /\ NotBulk(cmd) /\ NotDepends(cmd)
    BY <1>1
  <2>2. cmd \notin SayMbulks /\ cmd # "SORT"
    BY <1>2
  <2>3. QED BY <2>1, <2>2, Zenon DEF Answers, NotStatus, NotBulk, NotDepends
<1>6. QED BY <1>3, <1>4, <1>5

LEMMA DependsAnswers ==
  /\ Answers("BRPOPLPUSH") = bulks \cup {Reply("*", "nil")}
  /\ \A cmd \in {"ZRANK", "ZREVRANK"} :
       Answers(cmd) = {Reply(":", "full"), Reply("$", "nil")}
<1>1. ASSUME NEW cmd \in {"BRPOPLPUSH", "ZRANK", "ZREVRANK"}
      PROVE  NotStatus(cmd) /\ NotBulk(cmd) /\ NotMbulks(cmd)
  BY DEF NotStatus, NotBulk, NotMbulks, SayMbulks, SayOK, SayText, SayFull,
         SayBulk, SayFullOrNil, SayBulkOrNil
<1>2. QED BY <1>1, Zenon DEF Answers, NotStatus, NotBulk, NotMbulks

-----------------------------------------------------------------------------
(***************************************************************************)
(* Reading a reply, and the getters.                                       *)
(***************************************************************************)

LEMMA TypesOfBytes ==
  /\ TypesOf("+") = {"kStatus"}
  /\ TypesOf(":") = {"kInteger"}
  /\ TypesOf("$") = {"kBulk"}
  /\ TypesOf("*") = {"kMultiBulk", "kSpecialMultiBulk"}
BY Zenon DEF TypesOf

LEMMA ReplyParts ==
  ASSUME NEW r, NEW b, NEW v, r = Reply(b, v)
  PROVE  r.byte = b /\ r.value = v
BY DEF Reply

LEMMA NoGap ==
  ASSUME NEW m, NEW r, ~Gap(m, r)
  PROVE  /\ \A b : r # Reply(b, "empty") /\ r # Reply(b, "with empty")
         /\ m.cmd = "SORT" => \A v : r # Reply(":", v)
<1>1. r.value # "empty" /\ r.value # "with empty"
  BY DEF Gap
<1>2. m.cmd = "SORT" => r.byte # ":"
  BY DEF Gap
<1>3. \A b : r # Reply(b, "empty") /\ r # Reply(b, "with empty")
  BY <1>1, ReplyParts
<1>4. \A v : r.byte # ":" => r # Reply(":", v)
  BY ReplyParts
<1>5. QED BY <1>2, <1>3, <1>4

LEMMA ReadLine ==
  ASSUME NEW v, NEW type
  PROVE  LET value == IF v = "nil" THEN "null" ELSE v
         IN  /\ ReadOutput(Reply("+", v), type) = Output("kStatus", value)
             /\ ReadOutput(Reply(":", v), type) = Output("kInteger", value)
             /\ ReadOutput(Reply("$", v), type) = Output("kBulk", value)
<1> DEFINE value == IF v = "nil" THEN "null" ELSE v
<1>1. ReadOutput(Reply("+", v), type) = Output("kStatus", value)
  <2>1. Reply("+", v).byte = "+" /\ ReadValue(Reply("+", v)) = value
    BY DEF ReadValue, Reply
  <2>2. QED BY <2>1, Zenon DEF ReadOutput
<1>2. ReadOutput(Reply(":", v), type) = Output("kInteger", value)
  <2>1. Reply(":", v).byte = ":" /\ ReadValue(Reply(":", v)) = value
    BY DEF ReadValue, Reply
  <2>2. QED BY <2>1, Zenon DEF ReadOutput
<1>3. ReadOutput(Reply("$", v), type) = Output("kBulk", value)
  <2>1. Reply("$", v).byte = "$" /\ ReadValue(Reply("$", v)) = value
    BY DEF ReadValue, Reply
  <2>2. QED BY <2>1, Zenon DEF ReadOutput
<1>4. QED BY <1>1, <1>2, <1>3

LEMMA ReadMbulks ==
  ASSUME NEW v, NEW type
  PROVE  ReadOutput(Reply("*", v), type) =
           Output(IF type = "kMultiBulk" THEN "kMultiBulk"
                  ELSE "kSpecialMultiBulk",
                  IF v = "nil" THEN "null" ELSE v)
<1>1. /\ Reply("*", v).byte = "*"
      /\ ReadValue(Reply("*", v)) = IF v = "nil" THEN "null" ELSE v
  BY DEF ReadValue, Reply
<1>2. QED BY <1>1, Zenon DEF ReadOutput

LEMMA Getters ==
  /\ TrueFor("integer") = Has("kInteger") /\ NilFor("integer") = {}
  /\ TrueFor("bulk") = Has("kBulk") /\ NilFor("bulk") = Null("kBulk")
  /\ TrueFor("bulk2") = Has("kBulk") /\ NilFor("bulk2") = {}
  /\ TrueFor("mbulks") = Has("kMultiBulk") /\ NilFor("mbulks") = {}
  /\ TrueFor("ok") = {Output("kStatus", "OK")} /\ NilFor("ok") = {}
  /\ TrueFor("pong") = {Output("kStatus", "PONG")} /\ NilFor("pong") = {}
  /\ TrueFor("status") = Has("kStatus") /\ NilFor("status") = {}
  /\ TrueFor("bxpop") = {Output("kMultiBulk", "full")}
  /\ NilFor("bxpop") = Null("kMultiBulk")
  /\ TrueFor("brpoplpush") = Has("kBulk")
  /\ NilFor("brpoplpush") = Null("kSpecialMultiBulk")
  /\ TrueFor("rank") = Has("kInteger") /\ NilFor("rank") = Null("kBulk")
<1>1. TrueFor("integer") = Has("kInteger") /\ NilFor("integer") = {}
  BY Zenon DEF TrueFor, NilFor
<1>2. TrueFor("bulk") = Has("kBulk") /\ NilFor("bulk") = Null("kBulk")
  BY Zenon DEF TrueFor, NilFor
<1>3. TrueFor("bulk2") = Has("kBulk") /\ NilFor("bulk2") = {}
  BY Zenon DEF TrueFor, NilFor
<1>4. TrueFor("mbulks") = Has("kMultiBulk") /\ NilFor("mbulks") = {}
  BY Zenon DEF TrueFor, NilFor
<1>5. TrueFor("ok") = {Output("kStatus", "OK")} /\ NilFor("ok") = {}
  BY Zenon DEF TrueFor, NilFor
<1>6. TrueFor("pong") = {Output("kStatus", "PONG")} /\ NilFor("pong") = {}
  BY Zenon DEF TrueFor, NilFor
<1>7. TrueFor("status") = Has("kStatus") /\ NilFor("status") = {}
  BY Zenon DEF TrueFor, NilFor
<1>8. TrueFor("bxpop") = {Output("kMultiBulk", "full")}
  BY Zenon DEF TrueFor
<1>9. NilFor("bxpop") = Null("kMultiBulk")
  BY Zenon DEF NilFor
<1>10. TrueFor("brpoplpush") = Has("kBulk")
  BY Zenon DEF TrueFor
<1>11. NilFor("brpoplpush") = Null("kSpecialMultiBulk")
  BY Zenon DEF NilFor
<1>12. TrueFor("rank") = Has("kInteger") /\ NilFor("rank") = Null("kBulk")
  BY Zenon DEF TrueFor, NilFor
<1>13. QED BY <1>1, <1>2, <1>3, <1>4, <1>5, <1>6, <1>7, <1>8, <1>9, <1>10,
              <1>11, <1>12

\* exec_command and the old style keys() take any output.
LEMMA AnyOutput ==
  ASSUME NEW get \in {"raw", "old keys"}
  PROVE  /\ TrueFor(get) = Outputs
         /\ NilFor(get) = {}
BY Zenon DEF TrueFor, NilFor

\* A value and a null pointer are told apart.
LEMMA HasIsNotNull ==
  ASSUME NEW type, NEW v \in Values
  PROVE  /\ Output(type, v) \in Has(type)
         /\ \A other : Output(type, v) \notin Null(other)
         /\ \A other : Output(other, "null") \notin Has(type)
BY DEF Output, Has, Null, Values

\* What is to be shown of a method and a reply.
LEMMA FitsTrue ==
  ASSUME NEW m, NEW r, r.value # "nil" \/ m.get = "raw",
         reply_type_of(m.cmd) # "kDepends" =>
           reply_type_of(m.cmd) \in TypesOf(r.byte),
         ReadOutput(r, reply_type_of(m.cmd)) \in TrueFor(m.get),
         ReadOutput(r, reply_type_of(m.cmd)) \notin NilFor(m.get)
  PROVE  ReplyFits(m, r)
<1>1. ResultOf(m, r) = "true"
  BY DEF ResultOf
<1>2. QED BY <1>1, Zenon DEF ReplyFits

LEMMA FitsNil ==
  ASSUME NEW m, NEW r, r.value = "nil", m.get # "raw",
         reply_type_of(m.cmd) # "kDepends" =>
           reply_type_of(m.cmd) \in TypesOf(r.byte),
         ReadOutput(r, reply_type_of(m.cmd)) \in NilFor(m.get),
         ReadOutput(r, reply_type_of(m.cmd)) \notin TrueFor(m.get)
  PROVE  ReplyFits(m, r)
<1>1. ResultOf(m, r) = "nil"
  BY DEF ResultOf
<1>2. QED BY <1>1, Zenon DEF ReplyFits

-----------------------------------------------------------------------------
(***************************************************************************)
(* Each getter takes what the server answers to the commands it suits.     *)
(***************************************************************************)

LEMMA IntegerFits ==
  ASSUME NEW m, m.get = "integer", m.cmd \in IntegerCommands
  PROVE  \A r \in Answers(m.cmd) : ReplyFits(m, r)
<1> SUFFICES ASSUME NEW r \in Answers(m.cmd) PROVE ReplyFits(m, r)
  OBVIOUS
<1>1. r = Reply(":", "full") /\ r.value # "nil" /\ r.byte = ":"
  BY IntegerAnswers DEF Reply
<1>2. reply_type_of(m.cmd) = "kInteger"
  BY TableType
<1>3. ReadOutput(r, "kInteger") = Output("kInteger", "full")
  BY <1>1, ReadLine
<1>4. Output("kInteger", "full") \in TrueFor(m.get) \ NilFor(m.get)
  BY Getters, HasIsNotNull DEF Values
<1>5. QED BY <1>1, <1>2, <1>3, <1>4, TypesOfBytes, FitsTrue

LEMMA BulkFits ==
  ASSUME NEW m, m.get = "bulk", m.cmd \in BulkCommands
  PROVE  \A r \in Answers(m.cmd) : Gap(m, r) \/ ReplyFits(m, r)
<1> SUFFICES ASSUME NEW r \in Answers(m.cmd), ~Gap(m, r) PROVE ReplyFits(m, r)
  OBVIOUS
<1>1. r = Reply("$", "full") \/ r = Reply("$", "nil")
  BY BulkAnswers, NoGap
<1>2. reply_type_of(m.cmd) = "kBulk" /\ r.byte = "$"
  BY <1>1, TableType DEF Reply
<1>3. CASE r = Reply("$", "full")
  <2>1. ReadOutput(r, "kBulk") = Output("kBulk", "full") /\ r.value # "nil"
    BY <1>3, ReadLine DEF Reply
  <2>2. Output("kBulk", "full") \in TrueFor(m.get) \ NilFor(m.get)
    BY Getters, HasIsNotNull DEF Values
  <2>3. QED BY <1>2, <2>1, <2>2, TypesOfBytes, FitsTrue
<1>4. CASE r = Reply("$", "nil")
  <2>1. ReadOutput(r, "kBulk") = Output("kBulk", "null") /\ r.value = "nil"
    BY <1>4, ReadLine DEF Reply
  <2>2. Output("kBulk", "null") \in NilFor(m.get) \ TrueFor(m.get)
    BY Getters, HasIsNotNull DEF Values, Null
  <2>3. QED BY <1>2, <2>1, <2>2, TypesOfBytes, FitsNil
<1>5. QED BY <1>1, <1>3, <1>4

LEMMA Bulk2Fits ==
  ASSUME NEW m, m.get = "bulk2", m.cmd \in SayFull
  PROVE  \A r \in Answers(m.cmd) : ReplyFits(m, r)
<1> SUFFICES ASSUME NEW r \in Answers(m.cmd) PROVE ReplyFits(m, r)
  OBVIOUS
<1>1. r = Reply("$", "full") /\ r.value # "nil" /\ r.byte = "$"
  BY BulkAnswers DEF Reply
<1>2. m.cmd \in BulkCommands
  BY DEF SayFull, BulkCommands
<1>3. reply_type_of(m.cmd) = "kBulk"
  BY <1>2, TableType
<1>4. ReadOutput(r, "kBulk") = Output("kBulk", "full")
  BY <1>1, ReadLine
<1>5. Output("kBulk", "full") \in TrueFor(m.get) \ NilFor(m.get)
  BY Getters, HasIsNotNull DEF Values
<1>6. QED BY <1>1, <1>3, <1>4, <1>5, TypesOfBytes, FitsTrue

LEMMA MbulksFit ==
  ASSUME NEW m, m.get = "mbulks" \/ m.get = "old keys",
         m.cmd \in SayMbulks \cup {"SORT"}
  PROVE  \A r \in Answers(m.cmd) : Gap(m, r) \/ ReplyFits(m, r)
<1> SUFFICES ASSUME NEW r \in Answers(m.cmd), ~Gap(m, r) PROVE ReplyFits(m, r)
  OBVIOUS
<1>1. r = Reply("*", "full") \/ r = Reply("*", "none")
  <2>1. r \in mbulks \/ (m.cmd = "SORT" /\ r = Reply(":", "full"))
    BY MultiBulkAnswers
  <2>2. QED BY <2>1, NoGap DEF mbulks
<1>2. m.cmd \in MultiBulkCommands
  BY DEF SayMbulks, MultiBulkCommands
<1>3. reply_type_of(m.cmd) = "kMultiBulk" /\ r.byte = "*" /\ r.value # "nil"
  <2>1. reply_type_of(m.cmd) = "kMultiBulk"
    BY <1>2, TableType
  <2>2. r = Reply("*", "full") => r.byte = "*" /\ r.value = "full"
    BY ReplyParts
  <2>3. r = Reply("*", "none") => r.byte = "*" /\ r.value = "none"
    BY ReplyParts
  <2>4. QED BY <1>1, <2>1, <2>2, <2>3
<1>4. PICK v \in {"full", "none"} : r = Reply("*", v)
  BY <1>1
<1>5. ReadOutput(r, "kMultiBulk") = Output("kMultiBulk", v)
  BY <1>4, ReadMbulks
<1>6. Output("kMultiBulk", v) \in TrueFor(m.get) \ NilFor(m.get)
  <2>1. v \in Values
    BY DEF Values
  <2>2. CASE m.get = "mbulks"
    BY <2>1, <2>2, Getters, HasIsNotNull
  <2>3. CASE m.get = "old keys"
    <3>1. Output("kMultiBulk", v) \in Outputs
      BY <2>1 DEF Output, Outputs, kReplyType
    <3>2. QED BY <2>3, <3>1, AnyOutput
  <2>4. QED BY <2>2, <2>3
<1>7. "kMultiBulk" \in TypesOf(r.byte)
  BY <1>3, TypesOfBytes
<1>8. QED BY <1>3, <1>5, <1>6, <1>7, FitsTrue

LEMMA StatusFits ==
  ASSUME NEW m,
         \/ m.get = "ok" /\ m.cmd \in SayOK \cap StatusCommands
         \/ m.get = "pong" /\ m.cmd = "PING"
         \/ m.get = "status" /\ m.cmd \in {"TYPE", "BGREWRITEAOF"}
  PROVE  \A r \in Answers(m.cmd) : ReplyFits(m, r)
<1> SUFFICES ASSUME NEW r \in Answers(m.cmd) PROVE ReplyFits(m, r)
  OBVIOUS
<1>1. m.cmd \in StatusCommands
  BY DEF StatusCommands
<1>2. PICK v \in {"OK", "PONG", "other"} :
        /\ r = Reply("+", v)
        /\ m.get = "ok" => v = "OK"
        /\ m.get = "pong" => v = "PONG"
  <2>1. {"TYPE", "BGREWRITEAOF"} \subseteq SayText
    BY DEF SayText
  <2>2. QED BY <2>1, StatusAnswers
<1>3. reply_type_of(m.cmd) = "kStatus" /\ r.byte = "+" /\ r.value # "nil"
  BY <1>1, <1>2, TableType DEF Reply
<1>4. ReadOutput(r, "kStatus") = Output("kStatus", v)
  BY <1>2, ReadLine
<1>5. Output("kStatus", v) \in TrueFor(m.get) \ NilFor(m.get)
  <2>1. v \in Values
    BY DEF Values
  <2>2. QED BY <1>2, <2>1, Getters, HasIsNotNull
<1>6. QED BY <1>3, <1>4, <1>5, TypesOfBytes, FitsTrue

LEMMA BxpopFits ==
  ASSUME NEW m, m.get = "bxpop", m.cmd \in {"BLPOP", "BRPOP"}
  PROVE  \A r \in Answers(m.cmd) : Gap(m, r) \/ ReplyFits(m, r)
<1> SUFFICES ASSUME NEW r \in Answers(m.cmd), ~Gap(m, r) PROVE ReplyFits(m, r)
  OBVIOUS
<1>1. r = Reply("*", "full") \/ r = Reply("*", "nil")
  BY MultiBulkAnswers, NoGap
<1>2. m.cmd \in MultiBulkCommands
  BY DEF MultiBulkCommands
<1>3. reply_type_of(m.cmd) = "kMultiBulk" /\ r.byte = "*"
  BY <1>1, <1>2, TableType DEF Reply
<1>4. CASE r = Reply("*", "full")
  <2>1. /\ ReadOutput(r, "kMultiBulk") = Output("kMultiBulk", "full")
        /\ r.value # "nil"
    BY <1>4, ReadMbulks DEF Reply
  <2>2. Output("kMultiBulk", "full") \in TrueFor(m.get) \ NilFor(m.get)
    BY Getters, HasIsNotNull DEF Values
  <2>3. QED BY <1>3, <2>1, <2>2, TypesOfBytes, FitsTrue
<1>5. CASE r = Reply("*", "nil")
  <2>1. /\ ReadOutput(r, "kMultiBulk") = Output("kMultiBulk", "null")
        /\ r.value = "nil"
    BY <1>5, ReadMbulks DEF Reply
  <2>2. Output("kMultiBulk", "null") \in NilFor(m.get) \ TrueFor(m.get)
    BY Getters DEF Null, Output
  <2>3. QED BY <1>3, <2>1, <2>2, TypesOfBytes, FitsNil
<1>6. QED BY <1>1, <1>4, <1>5

LEMMA BrpoplpushFits ==
  ASSUME NEW m, m.get = "brpoplpush", m.cmd = "BRPOPLPUSH"
  PROVE  \A r \in Answers(m.cmd) : Gap(m, r) \/ ReplyFits(m, r)
<1> SUFFICES ASSUME NEW r \in Answers(m.cmd), ~Gap(m, r) PROVE ReplyFits(m, r)
  OBVIOUS
<1>1. r = Reply("$", "full") \/ r = Reply("*", "nil")
  BY DependsAnswers, NoGap DEF bulks
<1>2. m.cmd \in DependsCommands
  BY DEF DependsCommands
<1>3. reply_type_of(m.cmd) = "kDepends"
  BY <1>2, TableType
<1>4. CASE r = Reply("$", "full")
  <2>1. ReadOutput(r, "kDepends") = Output("kBulk", "full") /\ r.value # "nil"
    BY <1>4, ReadLine DEF Reply
  <2>2. Output("kBulk", "full") \in TrueFor(m.get) \ NilFor(m.get)
    BY Getters, HasIsNotNull DEF Values
  <2>3. QED BY <1>3, <2>1, <2>2, FitsTrue
<1>5. CASE r = Reply("*", "nil")
  <2>1. ReadOutput(r, "kDepends") = Output("kSpecialMultiBulk", "null")
    BY <1>5, ReadMbulks
  <2>2. Output("kSpecialMultiBulk", "null") \in NilFor(m.get) \ TrueFor(m.get)
    BY Getters DEF Null, Output, Has, Values
  <2>3. r.value = "nil" /\ m.get # "raw"
    BY <1>5 DEF Reply
  <2>4. QED BY <1>3, <2>1, <2>2, <2>3, FitsNil
<1>6. QED BY <1>1, <1>4, <1>5

LEMMA RankFits ==
  ASSUME NEW m, m.get = "rank", m.cmd \in {"ZRANK", "ZREVRANK"}
  PROVE  \A r \in Answers(m.cmd) : ReplyFits(m, r)
<1> SUFFICES ASSUME NEW r \in Answers(m.cmd) PROVE ReplyFits(m, r)
  OBVIOUS
<1>1. r = Reply(":", "full") \/ r = Reply("$", "nil")
  BY DependsAnswers
<1>2. m.cmd \in DependsCommands
  BY DEF DependsCommands
<1>3. reply_type_of(m.cmd) = "kDepends"
  BY <1>2, TableType
<1>4. CASE r = Reply(":", "full")
  <2>1. /\ ReadOutput(r, "kDepends") = Output("kInteger", "full")
        /\ r.value # "nil"
    BY <1>4, ReadLine DEF Reply
  <2>2. Output("kInteger", "full") \in TrueFor(m.get) \ NilFor(m.get)
    BY Getters, HasIsNotNull DEF Values
  <2>3. QED BY <1>3, <2>1, <2>2, FitsTrue
<1>5. CASE r = Reply("$", "nil")
  <2>1. ReadOutput(r, "kDepends") = Output("kBulk", "null")
    BY <1>5, ReadLine
  <2>2. Output("kBulk", "null") \in NilFor(m.get) \ TrueFor(m.get)
    BY Getters DEF Null, Output, Has, Values
  <2>3. r.value = "nil" /\ m.get # "raw"
    BY <1>5 DEF Reply
  <2>4. QED BY <1>3, <2>1, <2>2, <2>3, FitsNil
<1>6. QED BY <1>1, <1>4, <1>5

-----------------------------------------------------------------------------
(***************************************************************************)
(* Every method.                                                           *)
(***************************************************************************)

LEMMA RoomFits ==
  ASSUME NEW m, Room(m)
  PROVE  m.fixed \in Nat /\ m.each \in Nat /\ ArgsFit(m)
<1>1. ASSUME NEW n \in Nat, argc_of(m.cmd) = n, Pushes(m, n)
      PROVE  m.fixed \in Nat /\ m.each \in Nat /\ ArgsFit(m)
  BY <1>1 DEF ArgsFit, Pushes
<1>2. ASSUME NEW n \in Nat \ {0}, argc_of(m.cmd) = -n, PushesLeast(m, n)
      PROVE  m.fixed \in Nat /\ m.each \in Nat /\ ArgsFit(m)
  BY <1>2 DEF ArgsFit, PushesLeast
<1>3. ASSUME m.cmd = "INFO", PushesLeast(m, 0)
      PROVE  m.fixed \in Nat /\ m.each \in Nat /\ ArgsFit(m)
  BY <1>3, TableArgc DEF ArgsFit, PushesLeast
<1>4. QED BY <1>1, <1>2, <1>3, TableArgc DEF Room

LEMMA SuitsFits ==
  ASSUME NEW m, Suits(m.cmd, m.get)
  PROVE  /\ m.cmd \in kCommand \ {"EXEC"}
         /\ \A r \in Answers(m.cmd) : Gap(m, r) \/ ReplyFits(m, r)
<1>1. CASE m.get = "integer" /\ m.cmd \in IntegerCommands
  <2>1. m.cmd # "EXEC"
    BY <1>1 DEF IntegerCommands
  <2>2. QED BY <1>1, <2>1, IntegerFits DEF kCommand
<1>2. CASE m.get = "bulk" /\ m.cmd \in BulkCommands
  <2>1. m.cmd # "EXEC"
    BY <1>2 DEF BulkCommands
  <2>2. QED BY <1>2, <2>1, BulkFits DEF kCommand
<1>3. CASE m.get = "bulk2" /\ m.cmd \in SayFull
  <2>1. m.cmd # "EXEC" /\ m.cmd \in BulkCommands
    BY <1>3 DEF SayFull, BulkCommands
  <2>2. QED BY <1>3, <2>1, Bulk2Fits DEF kCommand
<1>4. CASE /\ m.get = "mbulks" \/ m.get = "old keys"
           /\ m.cmd \in SayMbulks \cup {"SORT"}
  <2>1. m.cmd # "EXEC" /\ m.cmd \in MultiBulkCommands
    BY <1>4 DEF SayMbulks, MultiBulkCommands
  <2>2. \A r \in Answers(m.cmd) : Gap(m, r) \/ ReplyFits(m, r)
    BY <1>4, MbulksFit
  <2>3. QED BY <2>1, <2>2 DEF kCommand
<1>5. CASE \/ m.get = "ok" /\ m.cmd \in SayOK \cap StatusCommands
           \/ m.get = "pong" /\ m.cmd = "PING"
           \/ m.get = "status" /\ m.cmd \in {"TYPE", "BGREWRITEAOF"}
  <2>1. m.cmd # "EXEC" /\ m.cmd \in StatusCommands
    BY <1>5 DEF StatusCommands
  <2>2. QED BY <1>5, <2>1, StatusFits DEF kCommand
<1>6. CASE m.get = "ok" /\ m.cmd = "BGSAVE"
  BY <1>6 DEF Gap, kCommand, StatusCommands
<1>7. CASE m.get = "bxpop" /\ m.cmd \in {"BLPOP", "BRPOP"}
  <2>1. m.cmd # "EXEC" /\ m.cmd \in MultiBulkCommands
    BY <1>7 DEF MultiBulkCommands
  <2>2. QED BY <1>7, <2>1, BxpopFits DEF kCommand
<1>8. CASE m.get = "brpoplpush" /\ m.cmd = "BRPOPLPUSH"
  <2>1. m.cmd # "EXEC" /\ m.cmd \in DependsCommands
    BY <1>8 DEF DependsCommands
  <2>2. QED BY <1>8, <2>1, BrpoplpushFits DEF kCommand
<1>9. CASE m.get = "rank" /\ m.cmd \in {"ZRANK", "ZREVRANK"}
  <2>1. m.cmd # "EXEC" /\ m.cmd \in DependsCommands
    BY <1>9 DEF DependsCommands
  <2>2. QED BY <1>9, <2>1, RankFits DEF kCommand
<1>10. "KEYS" \in SayMbulks
  BY DEF SayMbulks
<1>11. QED BY <1>1, <1>2, <1>3, <1>4, <1>5, <1>6, <1>7, <1>8, <1>9, <1>10
           DEF Suits

\* The output that a readable reply is stored in is well formed.
LEMMA ReadTyped ==
  ASSUME NEW r \in Replies \cup {Reply("+", "QUEUED")}, NEW type,
         r.value \notin {"empty", "with empty"}
  PROVE  ReadOutput(r, type) \in Outputs
<1>1. PICK b \in {"+", ":", "$", "*"},
           v \in Values \cup {"nil", "empty", "with empty"} : r = Reply(b, v)
  BY DEF Replies, bulks, mbulks, Values
<1>2. r.value = v
  BY <1>1, ReplyParts
<1>3. v \in Values \cup {"nil"}
  BY <1>2
<1> DEFINE value == IF v = "nil" THEN "null" ELSE v
<1>4. value \in Values \cup {"null"}
  BY <1>3
<1> HIDE DEF value
<1>5. PICK rt \in kReplyType : ReadOutput(r, type) = Output(rt, value)
  <2>1. /\ b = "+" => ReadOutput(r, type) = Output("kStatus", value)
        /\ b = ":" => ReadOutput(r, type) = Output("kInteger", value)
        /\ b = "$" => ReadOutput(r, type) = Output("kBulk", value)
    BY <1>1, ReadLine DEF value
  <2>2. b = "*" => \/ ReadOutput(r, type) = Output("kMultiBulk", value)
                   \/ ReadOutput(r, type) = Output("kSpecialMultiBulk", value)
    BY <1>1, ReadMbulks DEF value
  <2>3. {"kStatus", "kInteger", "kBulk", "kMultiBulk", "kSpecialMultiBulk"}
          \subseteq kReplyType
    BY DEF kReplyType
  <2>4. QED BY <1>1, <2>1, <2>2, <2>3
<1>6. Output(rt, value) \in Outputs
  BY <1>4 DEF Output, Outputs
<1>7. QED BY <1>5, <1>6

LEMMA RawCommands ==
  ASSUME NEW m \in raw_methods
  PROVE  /\ m.cmd \in
             {"AUTH", "ECHO", "MSETNX", "TIME", "SAVE", "GET", "ZRANK", "NOOP"}
         /\ m.fixed \in Nat /\ m.each \in Nat /\ m.get = "raw"
<1> DEFINE names ==
             {"AUTH", "ECHO", "MSETNX", "TIME", "SAVE", "GET", "ZRANK", "gte"}
<1>1. /\ m.cmd \in {set_command(name) : name \in names}
      /\ m.fixed \in Nat /\ m.each \in Nat /\ m.get = "raw"
  BY DEF raw_methods, Vector
<1>2. PICK name \in names : m.cmd = set_command(name)
  BY <1>1
<1>3. set_command(name) = name \/ set_command(name) = "NOOP"
  BY DEF set_command, s_command_rev_map
<1>4. "gte" \notin kCommand
  BY DEF kCommand, StatusCommands, IntegerCommands, BulkCommands,
         MultiBulkCommands, SpecialCommands, DependsCommands, PlaceHolders
<1>5. name = "gte" => set_command(name) = "NOOP"
  BY <1>4 DEF set_command, s_command_rev_map
<1>6. QED BY <1>1, <1>2, <1>3, <1>5

LEMMA RawReplies ==
  ASSUME NEW m, m.get = "raw", NEW r \in Answers(m.cmd), ~Gap(m, r),
         m.cmd \in {"AUTH", "ECHO", "MSETNX", "TIME", "SAVE", "GET", "ZRANK"}
  PROVE  ReplyFits(m, r)
<1>1. reply_type_of(m.cmd) # "kDepends" =>
        reply_type_of(m.cmd) \in TypesOf(r.byte)
  <2>1. CASE m.cmd = "AUTH"
    <3>1. m.cmd \in StatusCommands /\ m.cmd \in SayOK
      BY <2>1 DEF StatusCommands, SayOK
    <3>2. reply_type_of(m.cmd) = "kStatus" /\ r = Reply("+", "OK")
      BY <3>1, TableType, StatusAnswers
    <3>3. r.byte = "+"
      BY <3>2, ReplyParts
    <3>4. QED BY <3>2, <3>3, TypesOfBytes
  <2>2. CASE m.cmd \in {"ECHO", "GET"}
    <3>1. m.cmd \in BulkCommands
      BY <2>2 DEF BulkCommands
    <3>2. reply_type_of(m.cmd) = "kBulk"
      BY <3>1, TableType
    <3>3. \/ r = Reply("$", "full")
          \/ r = Reply("$", "empty")
          \/ r = Reply("$", "nil")
      BY <3>1, BulkAnswers
    <3>4. r.byte = "$"
      BY <3>3, ReplyParts
    <3>5. QED BY <3>2, <3>4, TypesOfBytes
  <2>3. CASE m.cmd = "MSETNX"
    <3>1. m.cmd \in IntegerCommands
      BY <2>3 DEF IntegerCommands
    <3>2. reply_type_of(m.cmd) = "kInteger" /\ r = Reply(":", "full")
      BY <3>1, TableType, IntegerAnswers
    <3>3. r.byte = ":"
      BY <3>2, ReplyParts
    <3>4. QED BY <3>2, <3>3, TypesOfBytes
  <2>4. CASE m.cmd = "TIME"
    <3>1. m.cmd \in MultiBulkCommands /\ m.cmd \in SayMbulks
      BY <2>4 DEF MultiBulkCommands, SayMbulks
    <3>2. reply_type_of(m.cmd) = "kMultiBulk" /\ r \in mbulks
      BY <3>1, TableType, MultiBulkAnswers
    <3>3. \/ r = Reply("*", "full")
          \/ r = Reply("*", "none")
          \/ r = Reply("*", "with empty")
      BY <3>2 DEF mbulks
    <3>4. r.byte = "*"
      BY <3>3, ReplyParts
    <3>5. QED BY <3>2, <3>4, TypesOfBytes
  <2>5. CASE m.cmd \in {"SAVE", "ZRANK"}
    <3>1. m.cmd \in DependsCommands
      BY <2>5 DEF DependsCommands
    <3>2. QED BY <3>1, TableType
  <2>6. QED BY <2>1, <2>2, <2>3, <2>4, <2>5
<1>2. r \in Replies /\ r.value \notin {"empty", "with empty"}
  BY AnswersAreReplies DEF Gap
<1>3. ReadOutput(r, reply_type_of(m.cmd))
        \in Outputs
  BY <1>2, ReadTyped
<1>4. /\ TrueFor(m.get) = Outputs
      /\ NilFor(m.get) = {}
  BY AnyOutput
<1>5. QED BY <1>1, <1>3, <1>4, FitsTrue

LEMMA EachMethod == \A m \in Methods : Fits(m) \/ m \in raw_methods
BY ExpireMethodsFit, KeyMethodsFit, GetMethodsFit, IncrMethodsFit,
   SetMethodsFit, HashMethodsFit, HsetMethodsFit, ListMethodsFit,
   PushMethodsFit, MemberMethodsFit, ZaddMethodsFit, ZrangeMethodsFit,
   ZremMethodsFit, RenameMethodsFit, StoreMethodsFit, ZstoreMethodsFit,
   WatchMethodsFit, ServerMethodsFit, OldMethodsFit DEF Methods

\* The four places agree for every method.
LEMMA MethodsFit == \A m \in Methods : MethodFits(m)
<1>1. ASSUME NEW m, Fits(m) PROVE MethodFits(m)
  BY <1>1, RoomFits, SuitsFits DEF Fits, MethodFits
<1>2. ASSUME NEW m \in raw_methods PROVE MethodFits(m)
  <2>1. /\ m.cmd \in
             {"AUTH", "ECHO", "MSETNX", "TIME", "SAVE", "GET", "ZRANK", "NOOP"}
        /\ m.fixed \in Nat /\ m.each \in Nat /\ m.get = "raw"
    BY RawCommands
  <2>2. m.cmd \in kCommand \ {"EXEC"}
    BY <2>1 DEF kCommand, StatusCommands, IntegerCommands, BulkCommands,
                MultiBulkCommands, DependsCommands, PlaceHolders
  <2>3. ASSUME m.cmd # "NOOP", NEW r \in Answers(m.cmd)
        PROVE  Gap(m, r) \/ ReplyFits(m, r)
    BY <2>1, <2>3, RawReplies
  <2>4. QED BY <2>1, <2>2, <2>3 DEF MethodFits
<1>3. QED BY <1>1, <1>2, EachMethod

-----------------------------------------------------------------------------
(***************************************************************************)
(* A call.                                                                 *)
(***************************************************************************)

LEMMA KnownMethod == TypeOK => MethodFits(method)
BY MethodsFit DEF TypeOK

\* The row of the command.
LEMMA CommandInfo ==
  ASSUME TypeOK
  PROVE  /\ command_info.argc = argc_of(method.cmd)
         /\ command_info.reply_type = reply_type_of(method.cmd)
<1>1. command_info = Row(argc_of(method.cmd), reply_type_of(method.cmd))
  BY DEF TypeOK, command_info, s_command_map
<1>2. QED BY <1>1 DEF Row

LEMMA ExpOfTable ==
  ASSUME TypeOK, ~transaction_mode_ \/ method.cmd \in {"MULTI", "DISCARD"}
  PROVE  exp_reply_type = reply_type_of(method.cmd)
BY CommandInfo, Zenon DEF exp_reply_type

LEMMA ExpInTransaction ==
  ASSUME TypeOK, transaction_mode_, check_reply_type,
         method.cmd \notin {"MULTI", "DISCARD", "EXEC"}
  PROVE  exp_reply_type = "kStatus"
BY Zenon DEF exp_reply_type

\* A command that the server only queued: the client takes the status when
\* it knows of the transaction.
LEMMA QueuedFits ==
  ASSUME TypeOK, Queued, transaction_mode_
  PROVE  TypeFits /\ Readable
<1>1. method.cmd \notin {"MULTI", "DISCARD", "EXEC"}
  BY KnownMethod DEF Queued, Immediate, MethodFits
<1>2. reply.byte = "+" /\ reply.value = "QUEUED"
  BY ReplyParts DEF Queued
<1>3. Readable
  BY <1>2 DEF Readable
<1>4. check_reply_type => exp_reply_type = "kStatus"
  BY <1>1, ExpInTransaction
<1>5. TypeFits
  BY <1>2, <1>4, TypesOfBytes DEF TypeFits
<1>6. QED BY <1>3, <1>5

\* A command that the server ran: the client takes the answer when it agrees
\* with the server, but for the gaps.
LEMMA RanFits ==
  ASSUME TypeOK, Ran, ~Gap(method, reply),
         ~transaction_mode_ \/ method.cmd \in {"MULTI", "DISCARD"}
  PROVE  /\ TypeFits /\ Readable
         /\ exp_reply_type = reply_type_of(method.cmd)
         /\ ReplyFits(method, reply)
<1>1. ReplyFits(method, reply)
  BY KnownMethod DEF Ran, MethodFits
<1>2. exp_reply_type = reply_type_of(method.cmd)
  BY ExpOfTable
<1>3. Readable
  BY DEF Readable, Gap
<1>4. check_reply_type => reply_type_of(method.cmd) # "kDepends"
  BY CommandInfo DEF check_reply_type
<1>5. TypeFits
  BY <1>1, <1>2, <1>4, Zenon DEF TypeFits, ReplyFits
<1>6. QED BY <1>1, <1>2, <1>3, <1>5

\* What old_style returns.
LEMMA Returned ==
  ASSUME NEW m, NEW r \in {"true", "nil", "false"}
  PROVE  /\ old_style(m, r) \in {"true", "nil", "false"}
         /\ m.get # "old keys" => old_style(m, r) = r
         /\ m.get = "old keys" => old_style(m, r) = "true"
BY DEF old_style

LEMMA NoOutputTyped ==
  NoOutput \in Outputs
BY DEF NoOutput, Output, Outputs, kReplyType

LEMMA ErrorTyped ==
  Output("kError", "full") \in Outputs
BY DEF Output, Outputs, kReplyType, Values

LEMMA CallInvInit == Init => CallInv
<1> SUFFICES ASSUME Init PROVE CallInv
  OBVIOUS
<1> USE DEF Init
<1>1. method \in Methods
  BY Zenon DEF Methods, server_methods
<1>2. method.cmd \in kCommand
  BY <1>1, MethodsFit DEF MethodFits
<1>3. TypeOK
  <2>1. size \in 0..MaxSize
    BY MaxSizeAssumption
  <2>2. QED BY <1>1, <1>2, <2>1, NoOutputTyped DEF TypeOK
<1>4. Sent /\ Answered /\ WasRead /\ Understood /\ TrueMeansRun
  BY DEF Sent, Answered, WasRead, Understood, TrueMeansRun
<1>5. QED BY <1>3, <1>4 DEF CallInv

\* The two ways of beginning a call.
LEMMA Begins ==
  ASSUME TypeOK, NEW m \in Methods, NEW n \in 0..MaxSize, Begin(m, n)
  PROVE  /\ method' \in Methods /\ method'.cmd \in kCommand
         /\ size' \in 0..MaxSize
         /\ did' = "nothing"
         /\ out' \in Outputs
         /\ agreed' = (multi = transaction_mode_)
<1>1. m.cmd \in kCommand
  BY MethodsFit DEF MethodFits
<1>2. QED BY <1>1, NoOutputTyped DEF Begin

LEMMA CallStep ==
  ASSUME CallInv, call \/ call_fails
  PROVE  CallInv'
<1> USE DEF CallInv
<1>1. CASE call
  <2>1. PICK m \in Methods, n \in 0..MaxSize :
          (m.each = 0 => n = 0) /\ Begin(m, n)
    BY <1>1 DEF call
  <2>2. /\ method' = m /\ size' = n /\ did' = "nothing"
        /\ agreed' = (multi = transaction_mode_)
        /\ out' \in Outputs
        /\ method' \in Methods /\ method'.cmd \in kCommand
    BY <2>1, Begins DEF Begin
  <2>3. /\ open' = TRUE /\ pc' = "check" /\ multi' = multi /\ ret' = ret
        /\ transaction_mode_' = transaction_mode_
    BY <1>1 DEF call
  <2>4. TypeOK'
    BY <2>1, <2>2, <2>3 DEF TypeOK
  <2>5. Agreed'
    BY <2>2, <2>3, Zenon DEF Agreed
  <2>6. Sent'
    BY <2>1, <2>2, <2>5 DEF Sent
  <2>7. (Answered /\ WasRead /\ Understood /\ TrueMeansRun)'
    BY <2>3 DEF Answered, WasRead, Understood, TrueMeansRun
  <2>8. QED BY <2>4, <2>6, <2>7
<1>2. CASE call_fails
  <2>1. PICK m \in Methods, n \in 0..MaxSize :
          Begin(m, n) /\ Return(m, "false")
    BY <1>2 DEF call_fails
  <2>2. /\ method' = m /\ size' = n /\ did' = "nothing"
        /\ out' \in Outputs
        /\ method' \in Methods /\ method'.cmd \in kCommand
        /\ pc = "idle"
    BY <2>1, Begins DEF Begin
  <2>3. pc' = "idle" /\ ret' = old_style(m, "false")
    BY <2>1 DEF Return
  <2>4. /\ open' = open /\ multi' = multi
        /\ transaction_mode_' = transaction_mode_
    BY <1>2 DEF call_fails
  <2>5. TypeOK'
    BY <2>1, <2>2, <2>3, <2>4, Returned DEF TypeOK
  <2>6. TrueMeansRun'
    BY <2>2, <2>3, Returned DEF TrueMeansRun
  <2>7. (Sent /\ Answered /\ WasRead /\ Understood)'
    BY <2>2, <2>3 DEF Sent, Answered, WasRead, Understood
  <2>8. QED BY <2>5, <2>6, <2>7
<1>3. QED BY <1>1, <1>2

\* A call that fails before or after the server ran the command.
LEMMA FailStep ==
  ASSUME CallInv, method' = method, size' = size, did' = did,
         out' = Output("kError", "full"), Return(method, "false"),
         open' \in BOOLEAN, transaction_mode_' \in BOOLEAN, multi' \in BOOLEAN,
         multi' => open', Understood'
  PROVE  CallInv'
<1>1. pc' = "idle" /\ ret' = old_style(method, "false")
  BY DEF Return
<1>2. TypeOK'
  BY <1>1, Returned, ErrorTyped DEF CallInv, TypeOK
<1>3. TrueMeansRun'
  BY <1>1, Returned DEF TrueMeansRun
<1>4. (Sent /\ Answered /\ WasRead)'
  BY <1>1 DEF Sent, Answered, WasRead
<1>5. QED BY <1>2, <1>3, <1>4 DEF CallInv

LEMMA WriteStep ==
  ASSUME CallInv, write_command \/ argc_refused
  PROVE  CallInv'
<1>1. CASE write_command
  <2> USE <1>1 DEF write_command, server
  <2>1. TypeOK'
    BY DEF CallInv, TypeOK
  <2>2. Agreed /\ did = "nothing" /\ (method.each = 0 => size = 0)
    BY DEF CallInv, Sent
  <2>3. Agreed'
    BY <2>2 DEF Agreed
  <2>4. Sent'
    BY <2>2, <2>3 DEF Sent
  <2>5. (Answered /\ WasRead /\ Understood /\ TrueMeansRun)'
    BY DEF Answered, WasRead, Understood, TrueMeansRun
  <2>6. QED BY <2>1, <2>4, <2>5 DEF CallInv
<1>2. CASE argc_refused
  <2> USE <1>2 DEF argc_refused, server
  <2>1. did = "nothing"
    BY DEF CallInv, Sent
  <2>2. Understood'
    BY <2>1 DEF Understood
  <2>3. QED BY <2>2, FailStep DEF CallInv, TypeOK
<1>3. QED BY <1>1, <1>2

LEMMA ServerStep ==
  ASSUME CallInv, server_runs \/ server_queues \/ server_refuses
  PROVE  CallInv'
<1>1. pc = "server" /\ pc' = "reply"
  BY DEF server_runs, server_queues, server_refuses
<1>2. /\ open' = open /\ transaction_mode_' = transaction_mode_
      /\ method' = method /\ size' = size /\ out' = out /\ ret' = ret
      /\ agreed' = agreed
  BY DEF server_runs, server_queues, server_refuses
<1>3. multi' \in BOOLEAN /\ did' \in {"nothing", "queued", "run"}
  BY DEF CallInv, TypeOK, server_runs, server_queues, server_refuses
<1>4. open
  BY <1>1 DEF CallInv, TypeOK
<1>5. TypeOK'
  BY <1>1, <1>2, <1>3, <1>4 DEF CallInv, TypeOK
<1>6. Agreed
  BY <1>1 DEF CallInv, Sent
<1>7. Answered'
  <2>1. CASE server_runs
    <3>1. Ran'
      BY <2>1 DEF server_runs, Allowed, Ran
    <3>2. multi' = (method.cmd = "MULTI")
      BY <2>1 DEF server_runs
    <3>3. ~multi \/ method.cmd = "DISCARD"
      BY <2>1 DEF server_runs, Allowed, Immediate
    <3>4. agreed => (method.cmd = "DISCARD" \/ ~transaction_mode_)
      BY <1>6, <3>3 DEF Agreed
    <3>5. QED BY <1>2, <3>1, <3>2, <3>4 DEF Answered
  <2>2. CASE server_queues
    <3>1. Queued'
      BY <2>2 DEF server_queues, Queued
    <3>2. QED BY <3>1 DEF Answered
  <2>3. CASE server_refuses
    <3>1. reply'.byte = "-"
      BY <2>3, ReplyParts DEF server_refuses
    <3>2. QED BY <3>1 DEF Answered
  <2>4. QED BY <2>1, <2>2, <2>3
<1>8. (Sent /\ WasRead /\ Understood /\ TrueMeansRun)'
  BY <1>1 DEF Sent, WasRead, Understood, TrueMeansRun
<1>9. QED BY <1>5, <1>7, <1>8 DEF CallInv

LEMMA ErrorStep ==
  ASSUME CallInv, read_fails \/ error_reply
  PROVE  CallInv'
<1>1. CASE read_fails
  <2> USE <1>1 DEF read_fails, ProtocolClose
  <2>1. reply'.byte = "none"
    BY ReplyParts DEF NoReply
  <2>2. Understood'
    BY <2>1 DEF Understood
  <2>3. QED BY <2>2, FailStep DEF CallInv, TypeOK
<1>2. CASE error_reply
  <2> USE <1>2 DEF error_reply, server
  <2>1. Understood'
    BY DEF Understood
  <2>2. QED BY <2>1, FailStep DEF CallInv, TypeOK
<1>3. QED BY <1>1, <1>2

\* A reply that the client refuses is a gap, or the client did not know the
\* transaction mode of the server.
LEMMA RefusedStep ==
  ASSUME CallInv, reply_refused
  PROVE  CallInv'
<1> USE DEF reply_refused, ProtocolClose
<1>1. ASSUME did = "run", ~Gap(method, reply), agreed
      PROVE  FALSE
  <2>1. Ran /\ (method.cmd = "DISCARD" \/ ~transaction_mode_)
    BY <1>1 DEF CallInv, Answered, Queued, Ran
  <2>2. TypeFits /\ Readable
    BY <1>1, <2>1, RanFits DEF CallInv
  <2>3. QED BY <2>2
<1>2. Understood'
  BY <1>1 DEF Understood
<1>3. QED BY <1>2, FailStep DEF CallInv, TypeOK

LEMMA ReadStep ==
  ASSUME CallInv, reply_read
  PROVE  CallInv'
<1> USE DEF reply_read, server
<1>1. \/ Queued
      \/ Ran /\ (agreed => method.cmd = "DISCARD" \/ ~transaction_mode_)
  BY DEF CallInv, Answered
<1>2. reply \in Replies \cup {Reply("+", "QUEUED")}
  BY <1>1, AnswersAreReplies DEF Queued, Ran
<1>3. out' \in Outputs
  BY <1>2, ReadTyped DEF Readable
<1>4. transaction_mode_' \in BOOLEAN
  <2>1. transaction_mode_ \in BOOLEAN
    BY DEF CallInv, TypeOK
  <2>2. QED BY <2>1
<1>5. TypeOK'
  BY <1>3, <1>4 DEF CallInv, TypeOK
<1>6. WasRead'
  <2>1. CASE Queued
    <3>1. out' = Output("kStatus", "QUEUED")
      BY <2>1, ReadLine DEF Queued
    <3>2. Queued'
      BY <2>1 DEF Queued
    <3>3. QED BY <3>1, <3>2 DEF WasRead
  <2>2. CASE Ran /\ (agreed => method.cmd = "DISCARD" \/ ~transaction_mode_)
    <3>1. Ran'
      BY <2>2 DEF Ran
    <3>2. ASSUME agreed, ~Gap(method, reply)
          PROVE  out' = ReadOutput(reply, reply_type_of(method.cmd))
      BY <2>2, <3>2, RanFits DEF CallInv
    <3>3. QED BY <3>1, <3>2 DEF WasRead
  <2>3. QED BY <1>1, <2>1, <2>2
<1>7. (Sent /\ Answered /\ Understood /\ TrueMeansRun)'
  BY DEF Sent, Answered, Understood, TrueMeansRun
<1>8. QED BY <1>5, <1>6, <1>7 DEF CallInv

\* No getter but those for any status takes +QUEUED for its value.
LEMMA QueuedIsFalse ==
  ASSUME NEW m, m \in Methods, m.get \notin {"status", "raw", "old keys"}
  PROVE  Output("kStatus", "QUEUED") \notin TrueFor(m.get) \cup NilFor(m.get)
<1>1. m.get \in {"integer", "bulk", "bulk2", "mbulks", "ok", "pong", "bxpop",
                 "brpoplpush", "rank"}
  <2>1. Fits(m) \/ m \in raw_methods
    BY EachMethod
  <2>2. QED BY <2>1, RawCommands DEF Fits, Suits
<1>2. ASSUME NEW type, type # "kStatus"
      PROVE  /\ Output("kStatus", "QUEUED") \notin Has(type)
             /\ Output("kStatus", "QUEUED") \notin Null(type)
  BY <1>2 DEF Output, Has, Null
<1>3. /\ Output("kStatus", "QUEUED") # Output("kStatus", "OK")
      /\ Output("kStatus", "QUEUED") # Output("kStatus", "PONG")
      /\ Output("kStatus", "QUEUED") # Output("kMultiBulk", "full")
  BY DEF Output
<1>4. CASE m.get \in {"ok", "pong"}
  BY <1>3, <1>4, Getters
<1>5. CASE m.get = "bxpop"
  <2>1. Output("kStatus", "QUEUED") \notin Null("kMultiBulk")
    BY <1>2
  <2>2. QED BY <1>3, <1>5, <2>1, Getters
<1>6. CASE m.get \in
             {"integer", "bulk", "bulk2", "mbulks", "brpoplpush", "rank"}
  <2>1. \A type \in {"kInteger", "kBulk", "kMultiBulk", "kSpecialMultiBulk"} :
          /\ Output("kStatus", "QUEUED") \notin Has(type)
          /\ Output("kStatus", "QUEUED") \notin Null(type)
    BY <1>2
  <2>2. CASE m.get = "integer"
    BY <2>1, <2>2, Getters
  <2>3. CASE m.get = "bulk" \/ m.get = "bulk2"
    BY <2>1, <2>3, Getters
  <2>4. CASE m.get = "mbulks"
    BY <2>1, <2>4, Getters
  <2>5. CASE m.get = "brpoplpush" \/ m.get = "rank"
    BY <2>1, <2>5, Getters
  <2>6. QED BY <1>6, <2>2, <2>3, <2>4, <2>5
<1>7. QED BY <1>1, <1>4, <1>5, <1>6

LEMMA ResultStep ==
  ASSUME CallInv, result
  PROVE  CallInv'
<1>1. PICK r \in {"true", "nil", "false"} :
        /\ Return(method, r)
        /\ r = "true" => out \in TrueFor(method.get)
        /\ r = "nil" => out \in NilFor(method.get)
        /\ r = "false" =>
             out \notin TrueFor(method.get) \cup NilFor(method.get)
  BY DEF result
<1>2. pc' = "idle" /\ ret' = old_style(method, r)
  BY <1>1 DEF Return
<1>3. /\ pc = "result" /\ open' = open
      /\ transaction_mode_' = transaction_mode_ /\ multi' = multi
      /\ did' = did /\ reply' = reply /\ method' = method
      /\ size' = size /\ out' = out /\ agreed' = agreed
  BY DEF result, server
<1>4. TypeOK'
  BY <1>2, <1>3, Returned DEF CallInv, TypeOK
<1>5. TrueMeansRun'
  <2> SUFFICES ASSUME ret' # "false",
                      method.get \notin {"status", "raw", "old keys"}
               PROVE  did = "run"
    BY <1>3 DEF TrueMeansRun
  <2>1. r # "false"
    BY <1>2, Returned
  <2>2. method \in Methods
    BY DEF CallInv, TypeOK
  <2>3. out # Output("kStatus", "QUEUED")
    BY <1>1, <2>1, <2>2, QueuedIsFalse
  <2>4. QED BY <1>3, <2>3 DEF CallInv, WasRead, Ran
<1>6. Understood'
  <2> SUFFICES ASSUME did = "run", ~Gap(method, reply), agreed
               PROVE  ret' = ResultOf(method, reply)
    BY <1>3 DEF Understood
  <2>1. Ran /\ out = ReadOutput(reply, reply_type_of(method.cmd))
    BY <1>3 DEF CallInv, WasRead, Queued
  <2>2. ReplyFits(method, reply)
    BY <2>1, KnownMethod DEF CallInv, Ran, MethodFits
  <2>3. ResultOf(method, reply) \in {"true", "nil"}
    BY DEF ResultOf
  <2>4. r = ResultOf(method, reply)
    BY <1>1, <2>1, <2>2, <2>3 DEF ReplyFits
  <2>5. method.get = "old keys" => ResultOf(method, reply) = "true"
    <3>1. method.get = "old keys" => NilFor(method.get) = {}
      BY AnyOutput
    <3>2. QED BY <2>2, <2>3, <3>1 DEF ReplyFits
  <2>6. QED BY <1>2, <2>4, <2>5, Returned
<1>7. (Sent /\ Answered /\ WasRead)'
  BY <1>2 DEF Sent, Answered, WasRead
<1>8. QED BY <1>4, <1>5, <1>6, <1>7 DEF CallInv

LEMMA LostStep ==
  ASSUME CallInv, connection_lost
  PROVE  CallInv'
<1> USE DEF connection_lost
<1>1. TypeOK'
  BY DEF CallInv, TypeOK
<1>2. Understood' /\ TrueMeansRun'
  BY DEF CallInv, Understood, TrueMeansRun
<1>3. (Sent /\ Answered /\ WasRead)'
  BY DEF Sent, Answered, WasRead
<1>4. QED BY <1>1, <1>2, <1>3 DEF CallInv

LEMMA StutterStep ==
  ASSUME CallInv, UNCHANGED vars
  PROVE  CallInv'
<1> USE DEF vars
<1>1. TypeOK' /\ Sent'
  BY DEF CallInv, TypeOK, Sent, Agreed
<1>2. Queued' = Queued /\ Ran' = Ran
  BY DEF Queued, Ran
<1>3. Answered' /\ WasRead'
  BY <1>2 DEF CallInv, Answered, WasRead
<1>4. Understood' /\ TrueMeansRun'
  BY DEF CallInv, Understood, TrueMeansRun
<1>5. QED BY <1>1, <1>3, <1>4 DEF CallInv

LEMMA CallInvNext == CallInv /\ [Next]_vars => CallInv'
BY CallStep, WriteStep, ServerStep, ErrorStep, RefusedStep, ReadStep,
   ResultStep, LostStep, StutterStep DEF Next

LEMMA CallInvAlways == Spec => []CallInv
BY CallInvInit, CallInvNext, PTL DEF Spec

-----------------------------------------------------------------------------
(***************************************************************************)
(* The theorems.                                                           *)
(***************************************************************************)

\* Every command that a method names is in the table and every container
\* holds a value of its type, in every state of a call and for vectors of
\* every size (TypeOK).
THEOREM CommandsTypeCorrect == Spec => []TypeOK
<1>1. CallInv => TypeOK
  BY DEF CallInv
<1>2. QED BY <1>1, CallInvAlways, PTL

\* check_argc never refuses what a method of Redis2 or RedisBase2 pushes,
\* whatever its optional arguments and the size of its vector, unless the
\* vector is empty (ArgsAccepted).
THEOREM AlwaysAccepted == Spec => []ArgsAccepted
<1>1. CallInv => ArgsAccepted
  <2> SUFFICES ASSUME CallInv, pc = "check", method.get # "raw",
                      ~(method.each > 0 /\ size = 0)
               PROVE  check_argc
    BY DEF ArgsAccepted
  <2>1. command_info.argc = argc_of(method.cmd)
    BY CommandInfo DEF CallInv
  <2>2. method.fixed \in Nat /\ method.each \in Nat /\ ArgsFit(method)
    BY KnownMethod DEF CallInv, MethodFits
  <2>3. size \in Nat /\ (method.each = 0 => size = 0)
    BY MaxSizeAssumption DEF CallInv, TypeOK, Sent
  <2>4. method.each = 0 \/ size >= 1
    BY <2>2, <2>3
  <2>5. given_argc >= method.fixed + method.each
    <3>1. \A f, e, s \in Nat : e = 0 \/ s >= 1 => f + e * s >= f + e
      OBVIOUS
    <3>2. QED BY <2>2, <2>3, <2>4, <3>1 DEF given_argc
  <2>6. method.each = 0 => given_argc = method.fixed
    BY <2>2, <2>3 DEF given_argc
  <2>7. given_argc \in Nat
    BY <2>2, <2>3 DEF given_argc
  <2>8. argc_of(method.cmd) \in Int
    BY ArgcIsInt
  <2>9. QED BY <2>1, <2>2, <2>5, <2>6, <2>7, <2>8 DEF check_argc, ArgsFit
<1>2. QED BY <1>1, CallInvAlways, PTL

\* A client that agrees with the server on the transaction mode takes what
\* the server answers to a command that it ran, but for the three gaps: the
\* type check, the getter and the telling of nil go with the reply of every
\* method (Understood).
THEOREM AlwaysUnderstood == Spec => []Understood
<1>1. CallInv => Understood
  BY DEF CallInv
<1>2. QED BY <1>1, CallInvAlways, PTL

\* A method that returns true was run by the server: +QUEUED is never taken
\* for success, agreed or not on the transaction mode (TrueMeansRun).
THEOREM AlwaysRun == Spec => []TrueMeansRun
<1>1. CallInv => TrueMeansRun
  BY DEF CallInv
<1>2. QED BY <1>1, CallInvAlways, PTL

\* In a transaction that client and server agree on, no reply makes the
\* client close the connection (TransactionSurvives).
THEOREM TransactionsSurvive == Spec => TransactionSurvives
<1> DEFINE Survives ==
      multi /\ transaction_mode_ /\ ~read_fails /\ ~connection_lost => open'
<1>1. CallInv /\ [Next]_vars => [Survives]_vars
  <2> SUFFICES ASSUME CallInv, Next, multi, transaction_mode_, ~read_fails,
                      ~connection_lost
               PROVE  open'
    OBVIOUS
  <2>1. open
    BY DEF CallInv, TypeOK
  <2>2. CASE reply_refused
    <3>1. Queued \/ (Ran /\ method.cmd = "MULTI")
      BY <2>2 DEF reply_refused, CallInv, Answered
    <3>2. CASE Queued
      BY <2>2, <3>2, QueuedFits DEF reply_refused, CallInv
    <3>3. CASE Ran /\ method.cmd = "MULTI"
      <4>1. "MULTI" \in SayOK
        BY DEF SayOK
      <4>2. reply = Reply("+", "OK")
        BY <3>3, <4>1, StatusAnswers DEF Ran
      <4>3. reply.byte = "+" /\ reply.value = "OK"
        BY <4>2, ReplyParts
      <4>4. ~Gap(method, reply)
        BY <3>3, <4>3 DEF Gap
      <4>5. QED BY <2>2, <3>3, <4>4, RanFits DEF reply_refused, CallInv
    <3>4. QED BY <3>1, <3>2, <3>3
  <2>3. CASE ~reply_refused
    BY <2>1, <2>3 DEF Next, call, call_fails, write_command, argc_refused,
       server_runs, server_queues, server_refuses, error_reply, reply_read,
       result
  <2>4. QED BY <2>2, <2>3
<1>2. QED BY <1>1, CallInvAlways, PTL DEF Spec, TransactionSurvives

=============================================================================
