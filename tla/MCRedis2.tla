------------------------------ MODULE MCRedis2 ------------------------------
(* Redis2 with two databases and a few commands, for TLC. *)
EXTENDS Redis2

TwoCommands == {[name |-> "SET", arg |-> 1], [name |-> "GET", arg |-> 2]}

\* Commands whose replies may be multi-bulks, as LRANGE's.
TwoReads == {[name |-> "GET", arg |-> 1], [name |-> "GET", arg |-> 2]}
=============================================================================
