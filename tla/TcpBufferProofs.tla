-------------------------- MODULE TcpBufferProofs ---------------------------
(***************************************************************************)
(* Proofs about TcpBuffer for every buffer size, stream and read size.     *)
(***************************************************************************)
EXTENDS TcpBuffer, TLAPS

\* What the loop of prepare() has reached.
GrowOK == pc = "grow" => total_size <= new_size

\* to_read before read() has looked at the buffer.
ToReadPending ==
  call.op = "read" /\ pc = "consume" /\ read_size < expect =>
    to_read + read_size = expect

\* Every byte before search_offset has been looked at together with the one
\* behind it.
SearchedInside ==
  call.op = "line" => search_offset = 0 \/ search_offset < read_size

\* The search has seen all that is buffered when the call goes for more.
SearchComplete ==
  call.op = "line" /\ pc \in {"prepare", "grow", "recv"} =>
    read_size < search_offset + DelimSize

\* The conjuncts about the buffer and the stream, then those about a call.
BufferInv == TypeOK /\ BufferHolds

CallInv ==
  /\ RoomToRead
  /\ ToReadExact
  /\ ToReadPending
  /\ NothingSkipped
  /\ SearchedInside
  /\ SearchComplete
  /\ GrowOK

Inv == BufferInv /\ CallInv

LEMMA SizeFacts == \A n \in ReadSizes : n \in Nat /\ n > 0
  BY BufferAssumption

LEMMA NothingOk == Nothing.ok \in BOOLEAN
  BY DEF Nothing

LEMMA CallFacts ==
  ASSUME NEW c \in Calls
  PROVE  /\ c.op \in {"line", "read"}
         /\ c.size \in Nat
         /\ c.op = "read" => c.size \in ReadSizes /\ c.size > 0
         /\ c.blocking \in BOOLEAN
         /\ c # NoCall
<1>1. CASE c \in [op : {"line"}, size : {0}, blocking : BOOLEAN]
  BY <1>1 DEF NoCall
<1>2. CASE c \in [op : {"read"}, size : ReadSizes, blocking : BOOLEAN]
  <2>1. c.op = "read" /\ c.size \in ReadSizes /\ c.blocking \in BOOLEAN
    BY <1>2
  <2>2. c.size \in Nat /\ c.size > 0
    BY <2>1, SizeFacts
  <2> QED BY <2>1, <2>2 DEF NoCall
<1> QED BY <1>1, <1>2 DEF Calls

LEMMA NoCallOp == NoCall.op = "none"
  BY DEF NoCall

\* Between calls there is nothing to maintain about a call.
LEMMA IdleInv == pc = "idle" /\ call = NoCall => CallInv
  BY NoCallOp DEF CallInv, RoomToRead, ToReadExact, ToReadPending, NothingSkipped, SearchedInside, SearchComplete, GrowOK

\* An empty buffer in front of an empty stream.
LEMMA ClearInv ==
  ASSUME BufferInv, clear, sent' = << >>, recvd' = 0, pos' = 0,
         pc' \in Steps, call' \in Calls \cup {NoCall},
         (pc' = "idle") <=> (call' = NoCall),
         search_offset' \in Nat, to_read' \in Int, new_size' \in Nat,
         ret'.ok \in BOOLEAN, fd_' \in BOOLEAN, peer' \in BOOLEAN
  PROVE  BufferInv'
<1>1. TypeOK'
  BY BufferAssumption DEF BufferInv, TypeOK, clear
<1>2. BufferHolds'
  BY DEF BufferHolds, clear, read_size
<1> QED BY <1>1, <1>2 DEF BufferInv

LEMMA InitInv == Init => Inv
<1> SUFFICES ASSUME Init PROVE Inv
  OBVIOUS
<1>1. TypeOK
  <2>1. buffer_ \in [0..(total_size - 1) -> Bytes \cup {Zero}]
    BY DEF Init
  <2>2. sent \in Seq(Bytes)
    BY DEF Init
  <2>3. ret.ok \in BOOLEAN
    BY NothingOk DEF Init
  <2>4. fd_ \in BOOLEAN /\ peer \in BOOLEAN /\ ((pc = "idle") <=> (call = NoCall))
        /\ call \in Calls \cup {NoCall} /\ pc \in Steps
    BY DEF Init, Steps
  <2>5. /\ total_size \in Nat /\ kDefaultBufferSize <= total_size
        /\ read_ \in Nat /\ to_read_ \in Nat /\ read_ <= to_read_ /\ to_read_ <= total_size
        /\ search_offset \in Nat /\ to_read \in Int /\ new_size \in Nat
        /\ recvd \in Nat /\ pos \in Nat
    BY BufferAssumption DEF Init
  <2> QED BY <2>1, <2>2, <2>3, <2>4, <2>5 DEF TypeOK
<1>2. BufferHolds
  BY DEF Init, BufferHolds, read_size
<1> QED BY <1>1, <1>2, IdleInv DEF Init, Inv, BufferInv

LEMMA ConnectInv == Inv /\ connect => Inv'
<1> SUFFICES ASSUME Inv, connect PROVE Inv'
  OBVIOUS
<1>1. BufferInv'
  <2>1. /\ pc' \in Steps /\ call' \in Calls \cup {NoCall}
        /\ (pc' = "idle") <=> (call' = NoCall)
        /\ search_offset' \in Nat /\ to_read' \in Int /\ new_size' \in Nat
        /\ ret'.ok \in BOOLEAN /\ fd_' \in BOOLEAN /\ peer' \in BOOLEAN
    BY NothingOk DEF connect, Inv, BufferInv, TypeOK, locals
  <2> QED BY <2>1, ClearInv DEF connect, Inv
<1>2. CallInv'
  BY IdleInv, NoCallOp DEF connect, Inv, BufferInv, TypeOK, CallInv, RoomToRead, ToReadExact,
     ToReadPending, NothingSkipped, SearchedInside, SearchComplete, GrowOK
<1> QED BY <1>1, <1>2 DEF Inv

LEMMA CloseInv == Inv /\ close => Inv'
<1> SUFFICES ASSUME Inv, close PROVE Inv'
  OBVIOUS
<1>1. BufferInv'
  <2>1. /\ pc' \in Steps /\ call' \in Calls \cup {NoCall}
        /\ (pc' = "idle") <=> (call' = NoCall)
        /\ search_offset' \in Nat /\ to_read' \in Int /\ new_size' \in Nat
        /\ ret'.ok \in BOOLEAN /\ fd_' \in BOOLEAN /\ peer' \in BOOLEAN
    BY NothingOk DEF close, Disconnect, Inv, BufferInv, TypeOK, locals
  <2> QED BY <2>1, ClearInv DEF close, Disconnect, Inv
<1>2. CallInv'
  BY NoCallOp DEF close, Inv, BufferInv, TypeOK, CallInv, RoomToRead, ToReadExact,
     ToReadPending, NothingSkipped, SearchedInside, SearchComplete, GrowOK
<1> QED BY <1>1, <1>2 DEF Inv

\* A call that fails, in recv() or with an empty line.
LEMMA FailInv ==
  ASSUME Inv, Disconnect, Finish(Nothing)
  PROVE  Inv'
<1>1. BufferInv'
  <2>1. /\ pc' \in Steps /\ call' \in Calls \cup {NoCall}
        /\ (pc' = "idle") <=> (call' = NoCall)
        /\ search_offset' \in Nat /\ to_read' \in Int /\ new_size' \in Nat
        /\ ret'.ok \in BOOLEAN /\ fd_' \in BOOLEAN /\ peer' \in BOOLEAN
    <3>1. pc' \in Steps /\ call' \in Calls \cup {NoCall}
          /\ ((pc' = "idle") <=> (call' = NoCall))
          /\ ret'.ok \in BOOLEAN /\ fd_' \in BOOLEAN /\ peer' \in BOOLEAN
      BY NothingOk, Zenon DEF Finish, Disconnect, Steps
    <3>2. search_offset' \in Nat /\ to_read' \in Int /\ new_size' \in Nat
      BY DEF Finish
    <3> QED BY <3>1, <3>2
  <2> QED BY <2>1, ClearInv DEF Disconnect, Inv
<1>2. CallInv'
  BY NoCallOp DEF Finish, CallInv, RoomToRead, ToReadExact,
     ToReadPending, NothingSkipped, SearchedInside, SearchComplete, GrowOK
<1> QED BY <1>1, <1>2 DEF Inv

\* Steps that leave the memory and the positions alone keep what the buffer
\* holds; the stream may only grow.
LEMMA SameBuffer ==
  ASSUME BufferHolds, TypeOK, UNCHANGED memory, recvd' = recvd, pos' = pos,
         sent' = sent \/ \E b \in Bytes : sent' = Append(sent, b)
  PROVE  BufferHolds' /\ sent' \in Seq(Bytes)
<1>1. sent' \in Seq(Bytes) /\ Len(sent') >= Len(sent)
      /\ \A i \in 1..Len(sent) : sent'[i] = sent[i]
  BY DEF TypeOK
<1>2. recvd' = pos' + read_size' /\ recvd' <= Len(sent')
  BY <1>1 DEF BufferHolds, memory, read_size, TypeOK
<1>3. ASSUME NEW i \in 0..(read_size' - 1)
      PROVE  buffer_'[read_' + i] = sent'[pos' + i + 1]
  <2>1. i \in 0..(read_size - 1) /\ pos + i + 1 \in 1..Len(sent)
    BY DEF BufferHolds, memory, read_size, TypeOK
  <2> QED BY <1>1, <2>1 DEF BufferHolds, memory
<1> QED BY <1>1, <1>2, <1>3 DEF BufferHolds

LEMMA SendsInv == Inv /\ server_sends => Inv'
<1> SUFFICES ASSUME Inv, server_sends PROVE Inv'
  OBVIOUS
<1>1. BufferHolds' /\ sent' \in Seq(Bytes)
  BY SameBuffer DEF Inv, BufferInv, server_sends
<1>2. TypeOK'
  BY <1>1 DEF Inv, BufferInv, TypeOK, server_sends, memory, locals
<1>3. CallInv'
  BY DEF Inv, CallInv, server_sends, memory, locals, RoomToRead, ToReadExact, ToReadPending,
     NothingSkipped, SearchedInside, SearchComplete, GrowOK, read_size, free_size, Matches, expect
<1> QED BY <1>1, <1>2, <1>3 DEF Inv, BufferInv

LEMMA ClosesInv == Inv /\ server_closes => Inv'
<1> SUFFICES ASSUME Inv, server_closes PROVE Inv'
  OBVIOUS
<1>1. BufferInv'
  BY SameBuffer DEF Inv, BufferInv, TypeOK, server_closes, memory, locals
<1>2. CallInv'
  BY DEF Inv, CallInv, server_closes, memory, locals, RoomToRead, ToReadExact, ToReadPending,
     NothingSkipped, SearchedInside, SearchComplete, GrowOK, read_size, free_size, Matches, expect
<1> QED BY <1>1, <1>2 DEF Inv

LEMMA BeginInv ==
  ASSUME NEW c \in Calls, Inv, Begin(c)
  PROVE  Inv'
<1>1. BufferHolds'
  BY SameBuffer DEF Begin, Inv, BufferInv, stream
<1>2. TypeOK'
  <2>1. c.size \in Nat /\ c # NoCall
    BY CallFacts
  <2>2. to_read' \in Int
    BY <2>1, BufferAssumption DEF Inv, BufferInv, TypeOK, Begin, Minus, DelimSize, read_size
  <2> QED BY <2>1, <2>2, NothingOk DEF Inv, BufferInv, TypeOK, Begin, memory, stream, Steps
<1>3. CallInv'
  <2>1. c.size \in Nat
    BY CallFacts
  <2>2. ToReadPending'
    BY <2>1, BufferAssumption DEF Inv, BufferInv, TypeOK, Begin, memory, ToReadPending, Minus,
       read_size, expect, DelimSize
  <2> QED BY <2>2 DEF Begin, CallInv, RoomToRead, ToReadExact, NothingSkipped, SearchedInside, SearchComplete, GrowOK
<1> QED BY <1>1, <1>2, <1>3 DEF Inv, BufferInv

LEMMA NotFoundInv == Inv /\ line_not_found => Inv'
<1> SUFFICES ASSUME Inv, line_not_found PROVE Inv'
  OBVIOUS
<1>0. read_size \in Nat /\ search_offset \in Nat /\ search_offset' \in Nat
  BY DEF Inv, BufferInv, TypeOK, read_size, line_not_found, SearchedTo, DelimSize
<1>1. BufferInv'
  BY <1>0, SameBuffer, NoCallOp
  DEF Inv, BufferInv, TypeOK, line_not_found, memory, stream, Steps
<1>2. NothingSkipped'
  <2> SUFFICES ASSUME NEW k \in 0..(search_offset' - 1), k + DelimSize <= read_size
               PROVE  ~Matches(k)
    BY DEF NothingSkipped, line_not_found, memory, Matches, read_size
  <2>1. CASE k < search_offset
    BY <1>0, <2>1 DEF Inv, CallInv, NothingSkipped, line_not_found
  <2>2. CASE k >= search_offset
    <3>1. k \in 0..(read_size - DelimSize) /\ InSearch(k)
      BY <1>0, <2>2 DEF InSearch, DelimSize
    <3> QED BY <3>1 DEF line_not_found
  <2> QED BY <1>0, <2>1, <2>2
<1>3. SearchedInside' /\ SearchComplete'
  BY <1>0 DEF Inv, CallInv, SearchedInside, SearchComplete, line_not_found, memory, read_size, SearchedTo, DelimSize
<1> QED BY <1>1, <1>2, <1>3 DEF Inv, CallInv, line_not_found, RoomToRead, ToReadExact, ToReadPending, GrowOK

LEMMA NotDoneInv == Inv /\ read_not_done => Inv'
<1> SUFFICES ASSUME Inv, read_not_done PROVE Inv'
  OBVIOUS
<1>1. BufferInv'
  BY SameBuffer, NoCallOp
  DEF Inv, BufferInv, TypeOK, read_not_done, memory, stream, locals, Steps
<1>2. ToReadExact'
  <2>1. call \in Calls /\ call.size \in Nat
    BY CallFacts, NoCallOp DEF Inv, BufferInv, TypeOK, read_not_done
  <2> QED BY <2>1 DEF Inv, BufferInv, TypeOK, CallInv, ToReadPending, ToReadExact, read_not_done, memory, locals,
          read_size, expect, DelimSize
<1>3. NothingSkipped' /\ SearchedInside' /\ SearchComplete'
  BY DEF NothingSkipped, SearchedInside, SearchComplete, read_not_done
<1> QED BY <1>1, <1>2, <1>3 DEF Inv, CallInv, read_not_done, RoomToRead, ToReadPending, GrowOK

LEMMA PrepareInv == Inv /\ prepare => Inv'
<1> SUFFICES ASSUME Inv, prepare PROVE Inv'
  OBVIOUS
<1>1. BufferInv'
  BY SameBuffer, NoCallOp
  DEF Inv, BufferInv, TypeOK, prepare, memory, stream, Steps
<1>2. RoomToRead'
  <2>1. call \in Calls /\ call.op \in {"line", "read"}
    BY CallFacts, NoCallOp DEF Inv, BufferInv, TypeOK, prepare
  <2> QED BY <2>1, BufferAssumption DEF Inv, BufferInv, TypeOK, CallInv, ToReadExact, RoomToRead, prepare, memory,
          HasRoom, Wanted, free_size
<1>3. ToReadExact'
  BY DEF Inv, CallInv, ToReadExact, prepare, memory, read_size, expect
<1>4. NothingSkipped' /\ SearchedInside' /\ SearchComplete'
  BY DEF Inv, CallInv, NothingSkipped, SearchedInside, SearchComplete, prepare, memory, read_size, Matches
<1> QED BY <1>1, <1>2, <1>3, <1>4 DEF Inv, BufferInv, TypeOK, CallInv, prepare, ToReadPending, GrowOK, memory

LEMMA GrowInv == Inv /\ grow => Inv'
<1> SUFFICES ASSUME Inv, grow PROVE Inv'
  OBVIOUS
<1>1. BufferInv'
  BY SameBuffer, NoCallOp
  DEF Inv, BufferInv, TypeOK, grow, memory, stream, Steps
<1>2. ToReadExact' /\ NothingSkipped' /\ SearchedInside' /\ SearchComplete'
  BY DEF Inv, CallInv, ToReadExact, NothingSkipped, SearchedInside, SearchComplete, grow, memory, read_size, expect, Matches
<1>3. GrowOK'
  BY DEF Inv, BufferInv, TypeOK, CallInv, GrowOK, grow, memory
<1> QED BY <1>1, <1>2, <1>3 DEF Inv, CallInv, grow, RoomToRead, ToReadPending

LEMMA GrownInv == Inv /\ grown => Inv'
<1> SUFFICES ASSUME Inv, grown PROVE Inv'
  OBVIOUS
<1>0. /\ read_size \in Nat /\ read_size' = read_size
      /\ new_size \in Nat /\ kDefaultBufferSize <= new_size
      /\ read_size + Wanted < new_size /\ Wanted \in Nat /\ Wanted > 0
  <2>1. call \in Calls /\ call.op \in {"line", "read"}
    BY CallFacts, NoCallOp DEF Inv, BufferInv, TypeOK, grown
  <2>2. Wanted \in Nat /\ Wanted > 0
    BY <2>1, BufferAssumption DEF Inv, BufferInv, TypeOK, CallInv, ToReadExact, Wanted, grown
  <2> QED BY <2>2, BufferAssumption
          DEF Inv, BufferInv, TypeOK, CallInv, GrowOK, grown, TooSmall, Reallocate, read_size
<1>1. buffer_' \in [0..(total_size' - 1) -> Bytes \cup {Zero}]
  <2> SUFFICES ASSUME NEW i \in 0..(new_size - 1), i < read_size
               PROVE  buffer_[read_ + i] \in Bytes \cup {Zero}
    BY DEF grown, Reallocate
  <2>1. read_ + i \in 0..(total_size - 1)
    BY <1>0 DEF Inv, BufferInv, TypeOK, read_size
  <2> QED BY <2>1 DEF Inv, BufferInv, TypeOK
<1>2. TypeOK'
  BY <1>0, <1>1, NoCallOp DEF Inv, BufferInv, TypeOK, grown, Reallocate, stream, locals, Steps
<1>3. ASSUME NEW i \in 0..(read_size - 1)
      PROVE  buffer_'[read_' + i] = buffer_[read_ + i]
  BY <1>0 DEF grown, Reallocate
<1>4. BufferHolds'
  BY <1>0, <1>3 DEF Inv, BufferInv, BufferHolds, grown, stream
<1>5. RoomToRead'
  BY <1>0 DEF RoomToRead, grown, Reallocate, free_size, Wanted, locals
<1>6. ToReadExact'
  BY <1>0 DEF Inv, CallInv, ToReadExact, grown, locals, expect
<1>7. NothingSkipped'
  <2> SUFFICES ASSUME call.op = "line", NEW k \in 0..(search_offset - 1),
                      k + DelimSize <= read_size
               PROVE  ~Matches(k)'
    BY <1>0 DEF NothingSkipped, grown, locals
  <2>1. ~Matches(k)
    BY DEF Inv, CallInv, NothingSkipped
  <2>2. k \in 0..(read_size - 1) /\ k + 1 \in 0..(read_size - 1)
    BY <1>0 DEF DelimSize, Inv, BufferInv, TypeOK
  <2>3. buffer_'[read_' + k] = buffer_[read_ + k]
    BY <1>3, <2>2
  <2>4. buffer_'[read_' + (k + 1)] = buffer_[read_ + (k + 1)]
    BY <1>3, <2>2
  <2>5. /\ read_' + (k + 1) = read_' + k + 1
        /\ read_ + (k + 1) = read_ + k + 1
    <3>1. read_ \in Nat /\ read_' \in Nat
      BY <1>2 DEF Inv, BufferInv, TypeOK
    <3>2. k \in Nat
      BY <2>2
    <3> QED BY <3>1, <3>2
  <2> QED BY <2>1, <2>3, <2>4, <2>5 DEF Matches
<1>8. SearchedInside' /\ SearchComplete'
  BY <1>0 DEF Inv, CallInv, SearchedInside, SearchComplete, grown, locals
<1> QED BY <1>2, <1>4, <1>5, <1>6, <1>7, <1>8
        DEF Inv, BufferInv, CallInv, grown, ToReadPending, GrowOK

LEMMA RecvInv == Inv /\ recv => Inv'
<1> SUFFICES ASSUME Inv, recv PROVE Inv'
  OBVIOUS
<1>1. PICK n \in 1..free_size :
        /\ recvd + n <= Len(sent)
        /\ Produce(n)
        /\ recvd' = recvd + n
        /\ to_read' = IF call.op = "read" THEN Minus(to_read, n) ELSE to_read
  BY DEF recv
<1>0. /\ n \in Nat /\ n > 0 /\ n <= free_size /\ free_size \in Nat
      /\ read_size \in Nat /\ read_size' = read_size + n
      /\ to_read_ + n <= total_size
      /\ sent \in Seq(Bytes) /\ recvd \in Nat
  BY <1>1 DEF Inv, BufferInv, TypeOK, free_size, read_size, Produce
<1>2. TypeOK'
  <2>1. buffer_' \in [0..(total_size' - 1) -> Bytes \cup {Zero}]
    <3> SUFFICES ASSUME NEW i \in 0..(total_size - 1)
                 PROVE  (IF to_read_ <= i /\ i < to_read_ + n
                         THEN sent[recvd + i - to_read_ + 1] ELSE buffer_[i])
                          \in Bytes \cup {Zero}
      BY <1>1 DEF Produce
    <3>1. CASE to_read_ <= i /\ i < to_read_ + n
      <4>1. recvd + i - to_read_ + 1 \in 1..Len(sent)
        BY <1>0, <1>1, <3>1 DEF Inv, BufferInv, TypeOK
      <4> QED BY <1>0, <3>1, <4>1
    <3>2. CASE ~(to_read_ <= i /\ i < to_read_ + n)
      BY <3>2 DEF Inv, BufferInv, TypeOK
    <3> QED BY <3>1, <3>2
  <2>2. to_read' \in Int
    BY <1>0, <1>1, BufferAssumption DEF Inv, BufferInv, TypeOK, Minus
  <2> QED BY <1>0, <1>1, <2>1, <2>2, NoCallOp DEF Inv, BufferInv, TypeOK, recv, Produce, Steps
<1>3. ASSUME NEW i \in 0..(read_size - 1)
      PROVE  buffer_'[read_' + i] = buffer_[read_ + i]
  BY <1>0, <1>1 DEF Produce, Inv, BufferInv, TypeOK, read_size
<1>4. BufferHolds'
  <2>1. recvd' = pos' + read_size' /\ recvd' <= Len(sent')
    BY <1>0, <1>1 DEF Inv, BufferInv, BufferHolds, TypeOK, recv
  <2>2. ASSUME NEW i \in 0..(read_size' - 1)
        PROVE  buffer_'[read_' + i] = sent'[pos' + i + 1]
    <3>1. CASE i < read_size
      BY <1>0, <1>3, <3>1 DEF Inv, BufferInv, BufferHolds, recv
    <3>2. CASE i >= read_size
      <4>1. read_ + i \in 0..(total_size - 1) /\ to_read_ <= read_ + i /\ read_ + i < to_read_ + n
        BY <1>0, <3>2 DEF Inv, BufferInv, TypeOK, read_size
      <4>2. buffer_'[read_ + i] = sent[recvd + (read_ + i) - to_read_ + 1]
        BY <1>1, <4>1 DEF Produce
      <4>3. recvd + (read_ + i) - to_read_ + 1 = pos + i + 1
        BY <1>0 DEF Inv, BufferInv, BufferHolds, TypeOK, read_size
      <4> QED BY <1>1, <4>2, <4>3 DEF Produce, recv
    <3> QED BY <1>0, <3>1, <3>2
  <2> QED BY <2>1, <2>2 DEF BufferHolds
<1>5. ToReadPending'
  <2>1. CASE call.op = "read"
    <3>1. call \in Calls /\ call.size \in Nat
      BY <2>1, CallFacts, NoCallOp DEF Inv, BufferInv, TypeOK
    <3>2. to_read > 0 /\ to_read + read_size = expect
      BY <2>1 DEF Inv, CallInv, ToReadExact, recv
    <3> QED BY <1>0, <1>1, <2>1, <3>1, <3>2, BufferAssumption
            DEF ToReadPending, Minus, recv, expect, DelimSize, Inv, BufferInv, TypeOK
  <2> QED BY <2>1 DEF ToReadPending, recv
<1>6. NothingSkipped'
  <2> SUFFICES ASSUME call.op = "line", NEW k \in 0..(search_offset - 1)
               PROVE  ~Matches(k)'
    BY DEF NothingSkipped, recv
  <2>1. k \in Nat /\ k + 2 <= read_size
    BY <1>0 DEF Inv, BufferInv, TypeOK, CallInv, SearchedInside
  <2>2. ~Matches(k)
    BY <2>1 DEF Inv, CallInv, NothingSkipped, DelimSize
  <2>3. buffer_'[read_' + k] = buffer_[read_ + k]
    BY <1>0, <1>3, <2>1
  <2>4. buffer_'[read_' + (k + 1)] = buffer_[read_ + (k + 1)]
    BY <1>0, <1>3, <2>1
  <2>5. /\ read_' + (k + 1) = read_' + k + 1
        /\ read_ + (k + 1) = read_ + k + 1
    <3>1. read_ \in Nat /\ read_' \in Nat
      BY <1>2 DEF Inv, BufferInv, TypeOK
    <3>2. k \in Nat
      BY <2>1
    <3> QED BY <3>1, <3>2
  <2> QED BY <2>2, <2>3, <2>4, <2>5 DEF Matches
<1>7. SearchedInside'
  BY <1>0 DEF Inv, BufferInv, TypeOK, CallInv, SearchedInside, recv
<1> QED BY <1>2, <1>4, <1>5, <1>6, <1>7 DEF Inv, BufferInv, CallInv, recv, RoomToRead, ToReadExact,
        SearchComplete, GrowOK

\* A call that takes the n bytes in front of a delimiter.
LEMMA ReturnsInv ==
  ASSUME NEW n \in Nat, Inv, n + DelimSize <= read_size, Returns(n)
  PROVE  Inv'
<1>1. CASE n = 0
  BY <1>1, FailInv DEF Returns
<1>2. CASE n > 0
  <2>0. /\ consume(n + DelimSize)
        /\ pos' = pos + n + DelimSize
        /\ Finish([ok |-> TRUE, line |-> Front(n)])
        /\ UNCHANGED <<fd_, sent, peer, recvd>>
    BY <1>2 DEF Returns
  <2>1. /\ read_size \in Nat /\ read_size' = read_size - n - DelimSize
        /\ total_size' = total_size
        /\ read_' \in Nat /\ to_read_' \in Nat /\ read_' <= to_read_' /\ to_read_' <= total_size'
    BY <2>0 DEF consume, Inv, BufferInv, TypeOK, read_size, DelimSize
  <2>2. buffer_' \in [0..(total_size' - 1) -> Bytes \cup {Zero}]
    BY <2>0, <2>1 DEF consume, Inv, BufferInv, TypeOK
  <2>3. TypeOK'
    <3>1. pc' \in Steps /\ call' \in Calls \cup {NoCall}
          /\ ((pc' = "idle") <=> (call' = NoCall))
          /\ ret'.ok \in BOOLEAN /\ fd_' \in BOOLEAN /\ peer' \in BOOLEAN
      BY <2>0, Zenon DEF Finish, Steps, Inv, BufferInv, TypeOK
    <3>2. search_offset' \in Nat /\ to_read' \in Int /\ new_size' \in Nat
          /\ pos' \in Nat /\ recvd' \in Nat
      BY <2>0 DEF Finish, Inv, BufferInv, TypeOK, DelimSize
    <3> QED BY <2>0, <2>1, <2>2, <3>1, <3>2 DEF Inv, BufferInv, TypeOK
  <2>4. BufferHolds'
    <3>1. recvd' = pos' + read_size' /\ recvd' <= Len(sent')
      BY <2>0, <2>1 DEF Inv, BufferInv, BufferHolds, TypeOK, DelimSize
    <3>2. ASSUME NEW i \in 0..(read_size' - 1)
          PROVE  buffer_'[read_' + i] = sent'[pos' + i + 1]
      <4>1. read_size > n + DelimSize
        BY <2>1 DEF DelimSize
      <4>2. buffer_' = buffer_ /\ read_' = read_ + (n + DelimSize)
        BY <2>0, <2>1, <4>1 DEF consume, DelimSize
      <4>3. n + DelimSize + i \in 0..(read_size - 1)
        BY <2>1 DEF DelimSize
      <4>4. buffer_[read_ + (n + DelimSize + i)] = sent[pos + (n + DelimSize + i) + 1]
        BY <4>3 DEF Inv, BufferInv, BufferHolds
      <4>5. /\ read_ + (n + DelimSize + i) = read_' + i
            /\ pos + (n + DelimSize + i) + 1 = pos' + i + 1
        BY <2>0, <2>1, <4>2 DEF DelimSize, Inv, BufferInv, TypeOK
      <4> QED BY <2>0, <4>2, <4>4, <4>5
    <3> QED BY <3>1, <3>2 DEF BufferHolds
  <2>5. CallInv'
    BY <2>0, NoCallOp DEF Finish, CallInv, RoomToRead, ToReadExact,
       ToReadPending, NothingSkipped, SearchedInside, SearchComplete, GrowOK
  <2> QED BY <2>3, <2>4, <2>5 DEF Inv, BufferInv
<1> QED BY <1>1, <1>2

LEMMA StepInv == Inv /\ [Next]_vars => Inv'
<1> SUFFICES ASSUME Inv, [Next]_vars PROVE Inv'
  OBVIOUS
<1>1. CASE connect BY <1>1, ConnectInv
<1>2. CASE close BY <1>2, CloseInv
<1>3. CASE server_sends BY <1>3, SendsInv
<1>4. CASE server_closes BY <1>4, ClosesInv
<1>5. CASE read_line BY <1>5, BeginInv DEF read_line
<1>6. CASE read BY <1>6, BeginInv DEF read
<1>7. CASE line_found
  <2>1. PICK k \in 0..(read_size - DelimSize) : InSearch(k) /\ Returns(k)
    BY <1>7 DEF line_found
  <2>2. k \in Nat /\ k + DelimSize <= read_size
    BY <2>1 DEF InSearch
  <2> QED BY <2>1, <2>2, ReturnsInv
<1>8. CASE line_not_found BY <1>8, NotFoundInv
<1>9. CASE read_done
  <2>1. call.size \in Nat
    BY <1>9, CallFacts, NoCallOp DEF read_done, Inv, BufferInv, TypeOK
  <2>2. call.size + DelimSize <= read_size /\ Returns(call.size)
    BY <1>9, <2>1 DEF read_done, expect, DelimSize, Inv, BufferInv, TypeOK, read_size
  <2> QED BY <2>1, <2>2, ReturnsInv
<1>10. CASE read_not_done BY <1>10, NotDoneInv
<1>11. CASE prepare BY <1>11, PrepareInv
<1>12. CASE grow BY <1>12, GrowInv
<1>13. CASE grown BY <1>13, GrownInv
<1>14. CASE recv BY <1>14, RecvInv
<1>15. CASE recv_fails BY <1>15, FailInv DEF recv_fails
<1>16. CASE UNCHANGED vars
  <2>1. BufferInv'
    BY <1>16, SameBuffer DEF Inv, BufferInv, TypeOK, vars, memory
  <2>2. CallInv'
    BY <1>16 DEF Inv, CallInv, vars, RoomToRead, ToReadExact, ToReadPending, NothingSkipped,
       SearchedInside, SearchComplete, GrowOK, read_size, free_size, Matches, expect
  <2> QED BY <2>1, <2>2 DEF Inv
<1> QED BY <1>1, <1>2, <1>3, <1>4, <1>5, <1>6, <1>7, <1>8, <1>9, <1>10,
        <1>11, <1>12, <1>13, <1>14, <1>15, <1>16 DEF Next, ClientStep

\* The strengthened invariant.
THEOREM InvAlways == Spec => []Inv
<1>1. Inv /\ [Next]_vars => Inv' BY StepInv
<1> QED BY <1>1, InitInv, PTL DEF Spec

Bounded == Len(sent) <= MaxStream

LEMMA BoundAlways == Spec => []Bounded
<1>1. Init => Bounded
  BY BufferAssumption DEF Init, Bounded
<1>2. Inv /\ Bounded /\ [Next]_vars => Bounded'
  <2> SUFFICES ASSUME Inv, Len(sent) <= MaxStream, [Next]_vars
               PROVE  Len(sent') <= MaxStream
    BY DEF Bounded
  <2>1. CASE server_sends
    BY <2>1, BufferAssumption DEF server_sends, Inv, BufferInv, TypeOK
  <2>2. CASE sent' = << >>
    BY <2>2, BufferAssumption
  <2>3. CASE sent' = sent
    BY <2>3
  <2> QED
    BY <2>1, <2>2, <2>3
    DEF Next, ClientStep, connect, close, Disconnect, server_closes, read_line, read, Begin,
        stream, line_found, line_not_found, read_done, read_not_done, Returns, prepare, grow,
        grown, recv, recv_fails, vars
<1> QED BY <1>1, <1>2, InvAlways, PTL DEF Spec

\* A failing recv() happens for one of the reasons that the stream allows.
LEMMA FailImplements ==
  ASSUME Inv, Len(sent) <= MaxStream, recv_fails
  PROVE  Stream!Fail
<1>1. call # NoCall /\ call \in Calls
  BY DEF Inv, BufferInv, TypeOK, recv_fails
<1>2. Stream!Disconnect /\ ret' = Stream!Nothing /\ call' = Stream!NoCall
  BY DEF recv_fails, Disconnect, Finish, Nothing, NoCall, Stream!Disconnect, Stream!Nothing,
     Stream!NoCall
<1>3. ~peer \/ \A n \in 0..MaxStream : ~Stream!Answer(n)
  <2> SUFFICES ASSUME peer, NEW n \in 0..MaxStream, Stream!Answer(n) PROVE FALSE
    OBVIOUS
  <2>0. /\ recvd = Len(sent) /\ recvd = pos + read_size
        /\ read_size \in Nat /\ pos \in Nat /\ n \in Nat /\ search_offset \in Nat
    BY DEF recv_fails, Inv, BufferInv, BufferHolds, TypeOK, CallInv, RoomToRead, free_size, read_size
  <2>1. CASE call.op = "read"
    <3>1. to_read > 0 /\ to_read + read_size = expect /\ to_read \in Int
      BY <2>1 DEF Inv, BufferInv, TypeOK, CallInv, ToReadExact, recv_fails
    <3>2. n = call.size /\ pos + n + 2 <= Len(sent)
      BY <2>1 DEF Stream!Answer, Stream!DelimSize
    <3> QED BY <2>0, <3>1, <3>2 DEF expect, DelimSize
  <2>2. CASE call.op = "line"
    <3>1. pos + n + 2 <= Len(sent) /\ sent[pos + n + 1] = "CR" /\ sent[pos + n + 2] = "LF"
      BY <2>2 DEF Stream!Answer, Stream!DelimAt, Stream!DelimSize
    <3>2. n + 2 <= read_size /\ n < search_offset
      BY <2>0, <2>2, <3>1 DEF Inv, CallInv, SearchComplete, recv_fails, DelimSize
    <3>3. ~Matches(n)
      BY <2>0, <2>2, <3>2 DEF Inv, CallInv, NothingSkipped, DelimSize
    <3>4. buffer_[read_ + n] = sent[pos + n + 1]
      BY <2>0, <3>2 DEF Inv, BufferInv, BufferHolds
    <3>5. buffer_[read_ + (n + 1)] = sent[pos + (n + 1) + 1]
      BY <2>0, <3>2 DEF Inv, BufferInv, BufferHolds
    <3>6. read_ + (n + 1) = read_ + n + 1 /\ pos + (n + 1) + 1 = pos + n + 2
      BY <2>0 DEF Inv, BufferInv, TypeOK
    <3> QED BY <3>1, <3>3, <3>4, <3>5, <3>6 DEF Matches
  <2> QED BY <1>1, <2>1, <2>2, CallFacts
<1> QED BY <1>1, <1>2, <1>3 DEF Stream!Fail, NoCall, Stream!NoCall

\* What a call takes from the buffer is what the stream answers it with.
LEMMA ReturnsImplements ==
  ASSUME Inv, Len(sent) <= MaxStream, call # NoCall, NEW n \in Nat,
         n + DelimSize <= read_size, Stream!Answer(n), Returns(n)
  PROVE  Stream!Deliver \/ Stream!Fail
<1>0. read_size \in Nat /\ pos \in Nat /\ recvd = pos + read_size /\ recvd <= Len(sent)
  BY DEF Inv, BufferInv, TypeOK, BufferHolds, read_size
<1>1. CASE n = 0
  BY <1>1 DEF Returns, Disconnect, Finish, NoCall, Nothing, Stream!Fail, Stream!Disconnect,
     Stream!NoCall, Stream!Nothing
<1>2. CASE n > 0
  <2>1. n \in 1..MaxStream
    BY <1>0, <1>2, BufferAssumption DEF Inv, BufferInv, TypeOK, DelimSize
  <2>2. Front(n) = Stream!Slice(pos, n)
    <3> SUFFICES ASSUME NEW i \in 1..n PROVE buffer_[read_ + i - 1] = sent[pos + i]
      BY DEF Front, Stream!Slice
    <3>1. i - 1 \in 0..(read_size - 1)
      BY <1>0 DEF DelimSize
    <3>2. buffer_[read_ + (i - 1)] = sent[pos + (i - 1) + 1]
      BY <3>1 DEF Inv, BufferInv, BufferHolds
    <3>3. read_ + (i - 1) = read_ + i - 1 /\ pos + (i - 1) + 1 = pos + i
      BY <1>0 DEF Inv, BufferInv, TypeOK
    <3> QED BY <3>2, <3>3
  <2>3. /\ pos' = pos + n + Stream!DelimSize
        /\ ret' = [ok |-> TRUE, line |-> Stream!Slice(pos, n)]
        /\ call' = Stream!NoCall
        /\ UNCHANGED <<fd_, sent, peer>>
    BY <1>2, <2>2 DEF Returns, Finish, NoCall, Stream!NoCall, DelimSize, Stream!DelimSize
  <2> QED BY <2>1, <2>3 DEF Stream!Deliver
<1> QED BY <1>1, <1>2

LEMMA StepImplements ==
  ASSUME Inv, Len(sent) <= MaxStream, [Next]_vars
  PROVE  [Stream!Next]_(Stream!vars)
<1> USE DEF Stream!Next, Stream!vars
<1>1. CASE connect
  BY <1>1 DEF connect, Inv, BufferInv, TypeOK, Stream!Connect, NoCall, Stream!NoCall, Nothing,
     Stream!Nothing
<1>2. CASE close
  BY <1>2 DEF close, Disconnect, Inv, BufferInv, TypeOK, Stream!Close, Stream!Disconnect, NoCall,
     Stream!NoCall, Nothing, Stream!Nothing
<1>3. CASE server_sends
  BY <1>3 DEF server_sends, Stream!Send, Bytes, Stream!Bytes
<1>4. CASE server_closes
  BY <1>4 DEF server_closes, Stream!PeerCloses
<1>5. CASE \E c \in Calls : Begin(c)
  BY <1>5 DEF Begin, stream, Inv, BufferInv, TypeOK, Stream!Start, Calls, Stream!Calls, NoCall,
     Stream!NoCall, Nothing, Stream!Nothing
<1>6. CASE line_found
  <2>1. PICK n \in 0..(read_size - DelimSize) :
          /\ InSearch(n)
          /\ Matches(n)
          /\ \A j \in 0..(n - 1) : InSearch(j) => ~Matches(j)
          /\ Returns(n)
    BY <1>6 DEF line_found
  <2>0. /\ read_size \in Nat /\ pos \in Nat /\ recvd = pos + read_size /\ recvd <= Len(sent)
        /\ n \in Nat /\ n + 2 <= read_size /\ search_offset \in Nat /\ read_ \in Nat
    BY <2>1 DEF Inv, BufferInv, TypeOK, BufferHolds, read_size, DelimSize
  <2>2. ASSUME NEW m \in 0..n
        PROVE  Stream!DelimAt(pos + m) <=> Matches(m)
    <3>0. m \in 0..(read_size - 1) /\ m + 1 \in 0..(read_size - 1)
      BY <2>0
    <3>1. buffer_[read_ + m] = sent[pos + m + 1]
      BY <3>0 DEF Inv, BufferInv, BufferHolds
    <3>2. buffer_[read_ + (m + 1)] = sent[pos + (m + 1) + 1]
      BY <3>0 DEF Inv, BufferInv, BufferHolds
    <3>3. read_ + (m + 1) = read_ + m + 1 /\ pos + (m + 1) + 1 = pos + m + 2
          /\ pos + m + 2 <= Len(sent)
      BY <2>0 DEF Inv, BufferInv, TypeOK
    <3> QED BY <3>1, <3>2, <3>3 DEF Matches, Stream!DelimAt, Stream!DelimSize
  <2>3. Stream!DelimAt(pos + n)
    BY <2>0, <2>1, <2>2
  <2>4. ASSUME NEW m \in 0..(n - 1)
        PROVE  ~Stream!DelimAt(pos + m)
    <3>1. m \in 0..n /\ m + 2 <= read_size
      BY <2>0
    <3>2. CASE m < search_offset
      BY <1>6, <2>0, <2>2, <3>1, <3>2 DEF Inv, CallInv, NothingSkipped, line_found, DelimSize
    <3>3. CASE m >= search_offset
      BY <2>0, <2>1, <2>2, <3>1, <3>3 DEF InSearch, DelimSize
    <3> QED BY <2>0, <3>2, <3>3
  <2>5. Stream!Answer(n)
    BY <1>6, <2>3, <2>4 DEF Stream!Answer, line_found
  <2>6. call # NoCall
    BY <1>6, NoCallOp DEF line_found
  <2> QED BY <2>0, <2>1, <2>5, <2>6, ReturnsImplements DEF DelimSize
<1>7. CASE read_done
  <2>1. call # NoCall /\ call.size \in Nat
    BY <1>7, CallFacts, NoCallOp DEF read_done, Inv, BufferInv, TypeOK
  <2>2. call.size + DelimSize <= read_size /\ Returns(call.size)
    BY <1>7, <2>1 DEF read_done, expect, DelimSize, Inv, BufferInv, TypeOK, read_size
  <2>3. Stream!Answer(call.size)
    BY <1>7, <2>1, <2>2 DEF read_done, Stream!Answer, Stream!DelimSize, DelimSize, Inv, BufferInv, BufferHolds,
       TypeOK, read_size
  <2> QED BY <2>1, <2>2, <2>3, ReturnsImplements
<1>8. CASE recv_fails
  BY <1>8, FailImplements
<1>9. CASE UNCHANGED <<fd_, sent, peer, pos, call, ret>>
  BY <1>9
<1> QED
  BY <1>1, <1>2, <1>3, <1>4, <1>5, <1>6, <1>7, <1>8, <1>9
  DEF Next, ClientStep, read_line, read, line_not_found, read_not_done, prepare, grow, grown,
      recv, stream, vars

\* The buffered reader implements LineStream.
THEOREM BufferImplements == Spec => ImplementsStream
<1>1. Init => Stream!Init
  BY DEF Init, Stream!Init, NoCall, Stream!NoCall, Nothing, Stream!Nothing
<1>2. Inv /\ Bounded /\ [Next]_vars => [Stream!Next]_(Stream!vars)
  BY StepImplements DEF Bounded
<1> QED BY <1>1, <1>2, InvAlways, BoundAlways, PTL DEF Spec, ImplementsStream, Stream!Spec

\* The positions keep begin() <= read <= to_read <= end() for every buffer size
\* and every way the stream is cut.
THEOREM BufferTypeCorrect == Spec => []TypeOK
<1>1. Inv => TypeOK BY DEF Inv, BufferInv
<1> QED BY <1>1, InvAlways, PTL

\* prepare(), produce(), consume(), drain() and clear() never lose, repeat or
\* reorder a byte.
THEOREM AlwaysHolds == Spec => []BufferHolds
<1>1. Inv => BufferHolds BY DEF Inv, BufferInv
<1> QED BY <1>1, InvAlways, PTL

\* prepare() always leaves room for recv(), whatever the sizes of the buffer.
THEOREM AlwaysRoom == Spec => []RoomToRead
<1>1. Inv => RoomToRead BY DEF Inv, CallInv
<1> QED BY <1>1, InvAlways, PTL

\* The wrapped to_read of read() is never used.
THEOREM AlwaysExact == Spec => []ToReadExact
<1>1. Inv => ToReadExact BY DEF Inv, CallInv
<1> QED BY <1>1, InvAlways, PTL

\* read_line never overlooks a delimiter cut by two receives.
THEOREM NeverSkips == Spec => []NothingSkipped
<1>1. Inv => NothingSkipped BY DEF Inv, CallInv
<1> QED BY <1>1, InvAlways, PTL
=============================================================================
