----------------------------- MODULE MCRedis2P -----------------------------
(* Redis2P with two groups of one or two hosts, for TLC. *)
EXTENDS Redis2P, TLC

CONSTANTS k1, k2, a, b, v1, v2, setnx, incr, lpop

TwoKeys == {k1, k2}
TwoCallers == {a, b}

\* The two keys live in different partitions.
OneEach == k1 :> 5 @@ k2 :> 6

\* The two callers begin with different groups.
DifferentSeeds == a :> 4 @@ b :> 7

Lists == {<<k1, k2>>, <<k2, k2>>}

\* setnx writes v1 if nothing is there.
NilOr1 == {v1, Nil}
SetnxOnly == setnx :> [x \in NilOr1 |-> v1]

\* A counter that goes round, a list of up to two elements.
NilOr2 == {v1, v2, Nil}
Relative ==
  setnx :> [x \in NilOr2 |-> IF x = Nil THEN v1 ELSE x]
    @@ incr :> [x \in NilOr2 |-> IF x = v1 THEN v2 ELSE v1]
    @@ lpop :> [x \in NilOr2 |-> IF x = v2 THEN v1 ELSE Nil]

\* One key and one caller, for more values and databases.
OneCaller == {a}
OneSeed == a :> 5
OneKey == {k1}
OneList == {<<k1>>}
OneHash == k1 :> 5
=============================================================================
