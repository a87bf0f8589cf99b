----------------------------- MODULE LineStream -----------------------------
(***************************************************************************)
(* What RedisProtocol relies on when it reads: the server's bytes are a    *)
(* stream, read_line takes the shortest prefix that ends in the delimiter, *)
(* read(n) takes n bytes and the two after them, each byte is taken once   *)
(* and in order, and a call that fails leaves no connection behind.  There *)
(* is no buffer here.                                                      *)
(***************************************************************************)
EXTENDS Integers, Sequences

CONSTANTS
  Payload,      \* the bytes other than CR and LF
  ReadSizes,    \* the sizes that are asked for
  MaxStream     \* bound: bytes sent on one connection

Bytes == Payload \cup {"CR", "LF"}

\* s_redis_line_end
DelimSize == 2

VARIABLES
  fd_,      \* there is a connection
  sent,     \* the bytes that the server has sent on it
  peer,     \* the server's end is still connected
  pos,      \* how many of them the calls have taken
  call,     \* the call in progress, NoCall between calls
  ret       \* what the last call returned

vars == <<fd_, sent, peer, pos, call, ret>>

NoCall == [op |-> "none", size |-> 0, blocking |-> FALSE]

Calls == [op : {"line"}, size : {0}, blocking : BOOLEAN]
           \cup [op : {"read"}, size : ReadSizes, blocking : BOOLEAN]

Nothing == [ok |-> FALSE, line |-> << >>]

Init ==
  /\ fd_ = FALSE
  /\ sent = << >>
  /\ peer = FALSE
  /\ pos = 0
  /\ call = NoCall
  /\ ret = Nothing

\* n bytes of the stream after the first p.
Slice(p, n) == [i \in 1..n |-> sent[p + i]]

\* The delimiter begins after the first p bytes.
DelimAt(p) ==
  /\ p + DelimSize <= Len(sent)
  /\ sent[p + 1] = "CR"
  /\ sent[p + 2] = "LF"

\* The call can be answered with n bytes.
Answer(n) ==
  \/ /\ call.op = "line"
     /\ DelimAt(pos + n)
     /\ \A m \in 0..(n - 1) : ~DelimAt(pos + m)
  \/ /\ call.op = "read"
     /\ n = call.size
     /\ pos + n + DelimSize <= Len(sent)

Disconnect ==
  /\ fd_' = FALSE
  /\ sent' = << >>
  /\ peer' = FALSE
  /\ pos' = 0

\* The server and the network.
Send(b) ==
  /\ fd_ /\ peer
  /\ Len(sent) < MaxStream
  /\ sent' = Append(sent, b)
  /\ UNCHANGED <<fd_, peer, pos, call, ret>>

PeerCloses ==
  /\ fd_ /\ peer
  /\ peer' = FALSE
  /\ UNCHANGED <<fd_, sent, pos, call, ret>>

\* The client connects and disconnects between calls.
Connect ==
  /\ call = NoCall
  /\ fd_' = TRUE
  /\ sent' = << >>
  /\ peer' = TRUE
  /\ pos' = 0
  /\ ret' = Nothing
  /\ UNCHANGED call

Close ==
  /\ call = NoCall
  /\ Disconnect
  /\ ret' = Nothing
  /\ UNCHANGED call

Start(c) ==
  /\ call = NoCall
  /\ fd_
  /\ call' = c
  /\ ret' = Nothing
  /\ UNCHANGED <<fd_, sent, peer, pos>>

\* The call takes its bytes; what it returns is never empty.
Deliver ==
  \E n \in 1..MaxStream :
    /\ Answer(n)
    /\ pos' = pos + n + DelimSize
    /\ ret' = [ok |-> TRUE, line |-> Slice(pos, n)]
    /\ call' = NoCall
    /\ UNCHANGED <<fd_, sent, peer>>

\* The call fails, and only for a reason: the bytes are not all there (a
\* timeout), the server is gone, or the line is empty.
Fail ==
  /\ call # NoCall
  /\ \/ ~peer
     \/ Answer(0)
     \/ \A n \in 0..MaxStream : ~Answer(n)
  /\ Disconnect
  /\ ret' = Nothing
  /\ call' = NoCall

Next ==
  \/ \E b \in Bytes : Send(b)
  \/ PeerCloses
  \/ Connect
  \/ Close
  \/ \E c \in Calls : Start(c)
  \/ Deliver
  \/ Fail

Spec == Init /\ [][Next]_vars
=============================================================================
