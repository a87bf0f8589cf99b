-------------------------- MODULE MCRedisProtocol --------------------------
(***************************************************************************)
(* RedisProtocol on small sets of requests, for TLC.                       *)
(***************************************************************************)
EXTENDS RedisProtocol

Q(cmd, n) == [cmd |-> cmd, argc |-> n]

\* One command of every reply type, a wrong argument count, an unknown name.
AllTypes == {Q("SET", 2), Q("DEL", 1), Q("GET", 1), Q("GET", 2), Q("MGET", 2),
             Q("EVAL", 2), Q("MULTI", 0), Q("EXEC", 0), Q("DISCARD", 0),
             Q("NOOP", 0)}

MixedPipelines == {<<Q("SET", 2), Q("MGET", 1)>>, <<Q("GET", 1), Q("SET", 1)>>,
                   <<Q("MULTI", 0), Q("GET", 1), Q("EXEC", 0)>>}

\* The smallest applications in which a comment of the code fails.
PlainCommands == {Q("SET", 2), Q("GET", 1)}
PlainPipelines == {<<Q("SET", 2), Q("GET", 1)>>}
OpenTxnCommands == {Q("MULTI", 0), Q("GET", 1)}
NoPipelines == {}
=============================================================================
