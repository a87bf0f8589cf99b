----------------------------- MODULE MCRedisTss -----------------------------
(* RedisTss with a few threads, for TLC. *)
EXTENDS RedisTss
=============================================================================
