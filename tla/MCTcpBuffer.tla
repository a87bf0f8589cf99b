---------------------------- MODULE MCTcpBuffer -----------------------------
\* A buffer of two bytes that doubles, lines of up to three bytes cut at every
\* place, and size_t with a modulus of 16.
EXTENDS TcpBuffer
=============================================================================
