----------------------------- MODULE TcpBuffer ------------------------------
(***************************************************************************)
(* Reading from the socket, at the grain of bytes: TcpClientBuffer and     *)
(* TcpClient::Impl::read_line and read (tcp_client.cpp) under              *)
(* RedisProtocol::read_line and read (redis_protocol.cpp).                 *)
(*                                                                         *)
(* The buffer is memory with two positions.  A call alternates between     *)
(* looking at what is buffered, making room and recv(); the doubling loop  *)
(* of prepare() is a step per round.  Between any two steps the server may *)
(* send, or go away.  The stream `sent` and the ghost `pos` say what the   *)
(* memory ought to hold.                                                   *)
(***************************************************************************)
EXTENDS Integers, Sequences

CONSTANTS
  kDefaultBufferSize,
  kMaxBufferSize,
  SizeModulus,  \* 2^64: size_t arithmetic wraps around
  Payload,      \* the bytes other than CR and LF
  ReadSizes,    \* the sizes that read() is asked for
  MaxStream     \* bound: bytes sent on one connection

ASSUME BufferAssumption ==
  /\ kDefaultBufferSize \in Nat \ {0}
  /\ kMaxBufferSize \in Nat
  /\ kDefaultBufferSize < kMaxBufferSize
  /\ ReadSizes \subseteq Nat \ {0}
  /\ SizeModulus \in Nat
  /\ \A n \in ReadSizes : n + 2 < SizeModulus
  /\ MaxStream \in Nat
  /\ "CR" \notin Payload /\ "LF" \notin Payload

Bytes == Payload \cup {"CR", "LF"}

\* s_redis_line_end
DelimSize == 2

VARIABLES
  fd_,
  total_size,     \* buffer_.size()
  buffer_,        \* the memory, indexed from 0
  read_,          \* offset of the first byte received and not consumed
  to_read_,       \* offset at which the next byte is received
  pc,             \* which step of a call comes next, or "idle"
  call,           \* the call in progress
  search_offset,  \* local of read_line
  to_read,        \* local of read
  new_size,       \* local of prepare
  ret,            \* what the last call returned
  sent,           \* external: the bytes the server has sent
  peer,           \* external: the server's end is still connected
  recvd,          \* external: how many of them recv() has delivered
  pos             \* ghost: how many of them the calls have consumed

memory == <<total_size, buffer_, read_, to_read_>>
locals == <<search_offset, to_read, new_size>>
stream == <<sent, peer, recvd, pos>>
vars == <<fd_, total_size, buffer_, read_, to_read_, pc, call, search_offset,
          to_read, new_size, ret, sent, peer, recvd, pos>>

NoCall == [op |-> "none", size |-> 0, blocking |-> FALSE]

Calls == [op : {"line"}, size : {0}, blocking : BOOLEAN]
           \cup [op : {"read"}, size : ReadSizes, blocking : BOOLEAN]

Nothing == [ok |-> FALSE, line |-> << >>]

\* try to consume, prepare(), its loop, timed_read().
Steps == {"idle", "consume", "prepare", "grow", "recv"}

Zero == "NUL"     \* std::vector's fill

-----------------------------------------------------------------------------
(***************************************************************************)
(* TcpClientBuffer.                                                        *)
(***************************************************************************)

read_size == to_read_ - read_
free_size == total_size - to_read_

\* Mutant of clear: one of the two positions is forgotten.
ClearKeepsToRead ==
  /\ total_size' = kDefaultBufferSize
  /\ buffer_' = [i \in 0..(kDefaultBufferSize - 1) |-> buffer_[i]]
  /\ read_' = 0
  /\ UNCHANGED to_read_

\* The vector shrinks to its default size and keeps its first bytes.
clear ==
  /\ total_size' = kDefaultBufferSize
  /\ buffer_' = [i \in 0..(kDefaultBufferSize - 1) |-> buffer_[i]]
  /\ read_' = 0
  /\ to_read_' = 0

\* Mutant of Reallocate: memcpy from begin().
ReallocateFromBegin(n) ==
  /\ total_size' = n
  /\ buffer_' = [i \in 0..(n - 1) |->
                   IF i < read_size THEN buffer_[i] ELSE Zero]
  /\ read_' = 0
  /\ to_read_' = read_size

\* A new vector of n bytes that begins with what was not consumed.
Reallocate(n) ==
  /\ total_size' = n
  /\ buffer_' = [i \in 0..(n - 1) |->
                   IF i < read_size THEN buffer_[read_ + i] ELSE Zero]
  /\ read_' = 0
  /\ to_read_' = read_size

\* drain() prepares default-size room in a vector of at least
\* kMaxBufferSize bytes, so its loop makes no round: the vector is replaced
\* by one of the same size.
consume(size) ==
  \/ /\ read_size > size
     /\ read_' = read_ + size
     /\ UNCHANGED <<total_size, buffer_, to_read_>>
  \/ /\ read_size = size
     /\ total_size >= kMaxBufferSize
     /\ buffer_' = [i \in 0..(total_size - 1) |-> Zero]
     /\ read_' = 0
     /\ to_read_' = 0
     /\ UNCHANGED total_size
  \/ /\ read_size = size
     /\ total_size < kMaxBufferSize
     /\ read_' = 0
     /\ to_read_' = 0
     /\ UNCHANGED <<total_size, buffer_>>

-----------------------------------------------------------------------------
(***************************************************************************)
(* Connections.                                                            *)
(***************************************************************************)

\* TcpClient::Impl::close; the stream goes away with the socket.
Disconnect ==
  /\ fd_' = FALSE
  /\ clear
  /\ sent' = << >>
  /\ peer' = FALSE
  /\ recvd' = 0
  /\ pos' = 0

Init ==
  /\ fd_ = FALSE
  /\ total_size = kDefaultBufferSize
  /\ buffer_ = [i \in 0..(kDefaultBufferSize - 1) |-> Zero]
  /\ read_ = 0
  /\ to_read_ = 0
  /\ pc = "idle"
  /\ call = NoCall
  /\ search_offset = 0
  /\ to_read = 0
  /\ new_size = 0
  /\ ret = Nothing
  /\ sent = << >>
  /\ peer = FALSE
  /\ recvd = 0
  /\ pos = 0

\* connect() begins with close().
connect ==
  /\ pc = "idle"
  /\ fd_' = TRUE
  /\ clear
  /\ sent' = << >>
  /\ peer' = TRUE
  /\ recvd' = 0
  /\ pos' = 0
  /\ ret' = Nothing
  /\ UNCHANGED <<pc, call, locals>>

close ==
  /\ pc = "idle"
  /\ Disconnect
  /\ ret' = Nothing
  /\ UNCHANGED <<pc, call, locals>>

server_sends ==
  /\ fd_ /\ peer
  /\ Len(sent) < MaxStream
  /\ \E b \in Bytes : sent' = Append(sent, b)
  /\ UNCHANGED <<fd_, memory, pc, call, locals, ret, peer, recvd, pos>>

server_closes ==
  /\ fd_ /\ peer
  /\ peer' = FALSE
  /\ UNCHANGED <<fd_, memory, pc, call, locals, ret, sent, recvd, pos>>

-----------------------------------------------------------------------------
(***************************************************************************)
(* A call.                                                                 *)
(***************************************************************************)

\* size_t subtraction.
Minus(a, b) == IF a >= b THEN a - b ELSE a - b + SizeModulus

expect == call.size + DelimSize

\* Mutant of Begin: read() forgets what is buffered already.
BeginIgnoresBuffered(c) ==
  /\ pc = "idle"
  /\ fd_
  /\ pc' = "consume"
  /\ call' = c
  /\ search_offset' = 0
  /\ to_read' = IF c.op = "read" THEN c.size + DelimSize ELSE 0
  /\ new_size' = 0
  /\ ret' = Nothing
  /\ UNCHANGED <<fd_, memory, stream>>

Begin(c) ==
  /\ pc = "idle"
  /\ fd_
  /\ pc' = "consume"
  /\ call' = c
  /\ search_offset' = 0
  /\ to_read' = IF c.op = "read" THEN Minus(c.size + DelimSize, read_size) ELSE 0
  /\ new_size' = 0
  /\ ret' = Nothing
  /\ UNCHANGED <<fd_, memory, stream>>

read_line == \E c \in Calls : c.op = "line" /\ Begin(c)

read == \E c \in Calls : c.op = "read" /\ Begin(c)

Finish(result) ==
  /\ pc' = "idle"
  /\ call' = NoCall
  /\ search_offset' = 0
  /\ to_read' = 0
  /\ new_size' = 0
  /\ ret' = result

\* The n bytes at the front of the buffer.
Front(n) == [i \in 1..n |-> buffer_[read_ + i - 1]]

\* Mutant of Returns: RedisProtocol accepts whatever came with ec = 0.
ReturnsEvenEmpty(n) ==
  /\ consume(n + DelimSize)
  /\ pos' = pos + n + DelimSize
  /\ Finish([ok |-> TRUE, line |-> Front(n)])
  /\ UNCHANGED <<fd_, sent, peer, recvd>>

\* TcpClient hands over n bytes; RedisProtocol closes when there are none.
Returns(n) ==
  \/ /\ n > 0
     /\ consume(n + DelimSize)
     /\ pos' = pos + n + DelimSize
     /\ Finish([ok |-> TRUE, line |-> Front(n)])
     /\ UNCHANGED <<fd_, sent, peer, recvd>>
  \/ /\ n = 0
     /\ Disconnect
     /\ Finish(Nothing)

\* memcmp(delim, search_begin + k, delim_size) = 0
Matches(k) ==
  /\ buffer_[read_ + k] = "CR"
  /\ buffer_[read_ + k + 1] = "LF"

\* search_curr <= search_end
InSearch(k) == search_offset <= k /\ k + DelimSize <= read_size

\* The first match of the search.
line_found ==
  /\ pc = "consume"
  /\ call.op = "line"
  /\ \E k \in 0..(read_size - DelimSize) :
       /\ InSearch(k)
       /\ Matches(k)
       /\ \A j \in 0..(k - 1) : InSearch(j) => ~Matches(j)
       /\ Returns(k)

\* Mutant of SearchedTo: the search resumes behind the last byte.
SearchedToEnd == read_size

\* Where search_offset stands after a search without a match.
SearchedTo == IF search_offset + DelimSize <= read_size
              THEN read_size - DelimSize + 1
              ELSE search_offset

line_not_found ==
  /\ pc = "consume"
  /\ call.op = "line"
  /\ \A k \in 0..(read_size - DelimSize) : InSearch(k) => ~Matches(k)
  /\ search_offset' = SearchedTo
  /\ pc' = "prepare"
  /\ UNCHANGED <<fd_, memory, call, to_read, new_size, ret, stream>>

read_done ==
  /\ pc = "consume"
  /\ call.op = "read"
  /\ read_size >= expect
  /\ Returns(call.size)

read_not_done ==
  /\ pc = "consume"
  /\ call.op = "read"
  /\ read_size < expect
  /\ pc' = "prepare"
  /\ UNCHANGED <<fd_, memory, call, locals, ret, stream>>

\* The room that prepare() is asked for.
Wanted == IF call.op = "line" THEN kDefaultBufferSize ELSE to_read

\* Mutant of HasRoom: the consumed bytes count as room.
ConsumedIsRoom == Wanted = 0 \/ total_size - read_size >= Wanted

HasRoom == Wanted = 0 \/ free_size >= Wanted

prepare ==
  /\ pc = "prepare"
  /\ IF HasRoom
     THEN pc' = "recv" /\ UNCHANGED new_size
     ELSE pc' = "grow" /\ new_size' = total_size
  /\ UNCHANGED <<fd_, memory, call, search_offset, to_read, ret, stream>>

\* new_size <= min_new_size
TooSmall == new_size <= read_size + Wanted

grow ==
  /\ pc = "grow"
  /\ TooSmall
  /\ new_size' = 2 * new_size
  /\ UNCHANGED <<fd_, memory, pc, call, search_offset, to_read, ret, stream>>

grown ==
  /\ pc = "grow"
  /\ ~TooSmall
  /\ Reallocate(new_size)
  /\ pc' = "recv"
  /\ UNCHANGED <<fd_, call, locals, ret, stream>>

\* recv() copies n bytes behind to_read_, produce(n).
Produce(n) ==
  /\ buffer_' = [i \in 0..(total_size - 1) |->
                   IF to_read_ <= i /\ i < to_read_ + n
                   THEN sent[recvd + i - to_read_ + 1] ELSE buffer_[i]]
  /\ to_read_' = to_read_ + n
  /\ UNCHANGED <<total_size, read_>>

recv ==
  /\ pc = "recv"
  /\ \E n \in 1..free_size :
       /\ recvd + n <= Len(sent)
       /\ Produce(n)
       /\ recvd' = recvd + n
       /\ to_read' = IF call.op = "read" THEN Minus(to_read, n) ELSE to_read
  /\ pc' = "consume"
  /\ UNCHANGED <<fd_, call, search_offset, new_size, ret, sent, peer, pos>>

\* timed_read() returns 0 or -1: a timeout when nothing has arrived, the end
\* of the stream, a reset, or no room to receive into.  errno, and with it
\* ec, may be 0; the string is empty and RedisProtocol closes either way.
recv_fails ==
  /\ pc = "recv"
  /\ \/ recvd = Len(sent) /\ ~call.blocking
     \/ ~peer
     \/ free_size = 0
  /\ Disconnect
  /\ Finish(Nothing)

ClientStep ==
  \/ line_found
  \/ line_not_found
  \/ read_done
  \/ read_not_done
  \/ prepare
  \/ grow
  \/ grown
  \/ recv
  \/ recv_fails

Next ==
  \/ connect
  \/ close
  \/ server_sends
  \/ server_closes
  \/ read_line
  \/ read
  \/ ClientStep

Spec == Init /\ [][Next]_vars

\* The thread that made the call keeps running.
FairSpec == Spec /\ WF_vars(ClientStep)

-----------------------------------------------------------------------------
(***************************************************************************)
(* Properties.                                                             *)
(***************************************************************************)

\* Types, and the inequality that a comment of TcpClientBuffer promises:
\* buffer_.begin() <= read <= to_read <= buffer_.end().
TypeOK ==
  /\ fd_ \in BOOLEAN
  /\ total_size \in Nat /\ kDefaultBufferSize <= total_size
  /\ buffer_ \in [0..(total_size - 1) -> Bytes \cup {Zero}]
  /\ read_ \in Nat
  /\ to_read_ \in Nat
  /\ read_ <= to_read_
  /\ to_read_ <= total_size
  /\ pc \in Steps
  /\ call \in Calls \cup {NoCall}
  /\ (pc = "idle") <=> (call = NoCall)
  /\ search_offset \in Nat
  /\ to_read \in Int
  /\ new_size \in Nat
  /\ ret.ok \in BOOLEAN
  /\ sent \in Seq(Bytes)
  /\ peer \in BOOLEAN
  /\ recvd \in Nat
  /\ pos \in Nat

\* The memory between the two positions holds exactly the bytes that were
\* received and not consumed, through every compaction, growth, wrap of the
\* positions and reconnection.
BufferHolds ==
  /\ recvd = pos + read_size
  /\ recvd <= Len(sent)
  /\ \A i \in 0..(read_size - 1) : buffer_[read_ + i] = sent[pos + i + 1]

\* recv() is never called with no room: it would return 0, which the client
\* takes for the end of the stream.  read() has room for all it waits for.
RoomToRead ==
  pc = "recv" => free_size > 0 /\ (call.op = "read" => free_size >= to_read)

\* The counter of read(), a size_t that wraps around, is exact whenever it
\* is used.
ToReadExact ==
  call.op = "read" /\ pc \in {"prepare", "grow", "recv"} =>
    to_read > 0 /\ to_read + read_size = expect

\* read_line resumes its search without looking again at the bytes before
\* search_offset: no delimiter begins there, the split one included.
NothingSkipped ==
  call.op = "line" =>
    \A k \in 0..(search_offset - 1) :
      k + DelimSize <= read_size => ~Matches(k)

Stream == INSTANCE LineStream

\* The buffered reader implements the stream of lines that the protocol
\* relies on.
ImplementsStream == Stream!Spec

\* A read_line for which the server has sent a complete line returns a line.
\* Only the server's closing excuses it: a client that misses the delimiter or
\* has no room left, and gives up the connection itself, does not.
LineReturned ==
  \A n \in 1..MaxStream :
    (call.op = "line" /\ Stream!Answer(n)) ~> (ret.ok \/ (fd_ /\ ~peer))
=============================================================================
