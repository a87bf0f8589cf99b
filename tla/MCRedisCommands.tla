-------------------------- MODULE MCRedisCommands ---------------------------
\* Every method of the client, with vectors of up to MaxSize elements.
EXTENDS RedisCommands
=============================================================================
