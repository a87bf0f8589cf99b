------------------------ MODULE RedisProtocolProofs ------------------------
(***************************************************************************)
(* For every set of requests, every pipeline and every bound: the client's *)
(* reads and the server's replies stay in step (redis_protocol.cpp's       *)
(* __read_reply and exec_pipeline), unless a call has abandoned replies.   *)
(***************************************************************************)
EXTENDS RedisProtocol, TLAPS

\* What a "*" line announces is a natural number (the loops of
\* read_multi_bulk_2 and __read_reply run that many times).
LEMMA AnnouncedNat ==
  ASSUME NEW kind, NEW n \in Int
  PROVE  Announced(kind, n) \in Nat
BY DEF Announced

\* The lines that the server (external) may send have a kind and a number.
LEMMA LineType ==
  ASSUME srv \in Servers
  PROVE  \A line \in NextLines : line[1] \in Kinds /\ line[2] \in Int
<1> DEFINE L == Kinds \X Int
<1>1. BulkLines \subseteq L
  BY DEF BulkLines, Kinds
<1>2. ArrayLines \subseteq L
  <2>1. \A n \in -1..MaxLines : n \in Int
    BY ConstantsAssumption
  <2> QED BY <2>1 DEF ArrayLines, Kinds
<1>3. ErrorLine \subseteq L
  BY DEF ErrorLine, Kinds
<1>4. {<<"+", 0>>, <<":", 0>>} \subseteq L /\ {<<"+", 0>>} \subseteq L
      /\ {<<":", 0>>} \subseteq L
  BY DEF Kinds
<1>5. {<<"*", -1>>, <<"*", srv.queued>>} \subseteq L
  BY DEF Kinds, Servers
<1> HIDE DEF L
<1>6. ASSUME NEW type PROVE LinesOfType(type) \subseteq L
  BY <1>1, <1>2, <1>4 DEF LinesOfType
<1>7. ASSUME NEW cmd PROVE FirstLines(cmd) \subseteq L
  BY <1>3, <1>4, <1>5, <1>6 DEF FirstLines
<1>8. NextLines \subseteq L
  BY <1>1, <1>3, <1>6, <1>7 DEF NextLines
<1> QED
  BY <1>8 DEF L

\* Each reply line is well typed, and so is what is left of a sequence of
\* them after consume() or recv().
LEMMA SeqParts ==
  ASSUME NEW S, NEW s \in Seq(S), s # << >>
  PROVE  /\ Head(s) \in S
         /\ Head(s) = s[1]
         /\ Tail(s) \in Seq(S)
         /\ Len(Tail(s)) = Len(s) - 1
         /\ \A i \in 1..Len(Tail(s)) : Tail(s)[i] = s[i+1]
OBVIOUS

\* The same for a sequence that is cut in two by recv().
LEMMA SeqSplit ==
  ASSUME NEW S, NEW s \in Seq(S), NEW i \in 1..Len(s)
  PROVE  /\ SubSeq(s, 1, i) \in Seq(S)
         /\ Len(SubSeq(s, 1, i)) = i
         /\ \A j \in 1..i : SubSeq(s, 1, i)[j] = s[j]
         /\ SubSeq(s, i+1, Len(s)) \in Seq(S)
         /\ Len(SubSeq(s, i+1, Len(s))) = Len(s) - i
         /\ \A j \in 1..(Len(s) - i) : SubSeq(s, i+1, Len(s))[j] = s[i+j]
<1>1. Len(s) \in Nat /\ i \in Nat /\ i >= 1 /\ i <= Len(s)
  OBVIOUS
<1>2. SubSeq(s, 1, i) = [j \in 1..i |-> s[j]]
  BY <1>1
<1>3. SubSeq(s, i+1, Len(s)) = [j \in 1..(Len(s) - i) |-> s[i+j]]
  BY <1>1
<1> QED
  BY <1>1, <1>2, <1>3

\* Moving to another command of the call, and to another line of its reply.
LEMMA CallCommand ==
  ASSUME NEW c \in Calls, NEW k \in Nat
  PROVE  /\ [c EXCEPT !.k = k] \in Calls
         /\ [c EXCEPT !.k = k].k = k
         /\ [c EXCEPT !.k = k].cmds = c.cmds
         /\ [c EXCEPT !.k = k].first = c.first
         /\ [c EXCEPT !.k = k].todo = c.todo
         /\ [c EXCEPT !.k = k].op = c.op
BY DEF Calls

\* A call stays well typed when it moves to another line of a reply.
LEMMA CallLine ==
  ASSUME NEW c \in Calls, NEW todo \in Int, NEW body \in Bodies
  PROVE  /\ [c EXCEPT !.todo = todo, !.body = body] \in Calls
         /\ [c EXCEPT !.todo = todo, !.body = body].k = c.k
         /\ [c EXCEPT !.todo = todo, !.body = body].cmds = c.cmds
         /\ [c EXCEPT !.todo = todo, !.body = body].first = c.first
         /\ [c EXCEPT !.todo = todo, !.body = body].todo = todo
         /\ [c EXCEPT !.todo = todo, !.body = body].op = c.op
BY DEF Calls

\* The server's bookkeeping (external) keeps its type.
LEMMA ServerFields ==
  ASSUME srv \in Servers, NEW line, NEW cmd, LeftAfter(line) \in Nat
  PROVE  ServerAfter(line, cmd) \in Servers
<1>1. MultiAfter(cmd, line[1]) \in BOOLEAN
  BY DEF MultiAfter, Servers
<1>2. QueuedAfter(cmd, line[1]) \in Nat
  BY DEF QueuedAfter, Servers
<1>3. BodyOfReply(cmd) \in Bodies
  BY DEF BodyOfReply, Servers, Bodies
<1> QED
  BY <1>1, <1>2, <1>3 DEF ServerAfter, Servers, Bodies

\* Initial values and what close() assigns are well typed.
LEMMA Constants ==
  /\ NoCall \in Calls
  /\ FreshServer \in Servers
  /\ << >> \in Seq(Tokens)
  /\ << >> \in Seq(RedisCommand)
  /\ 0 \in Nat
BY DEF NoCall, FreshServer, Calls, Servers, Ops, Bodies

-----------------------------------------------------------------------------
\* Type correctness: every operation of RedisProtocol keeps its members, the
\* call in progress and the traffic well typed.
THEOREM TypeCorrect == Spec => []TypeOK
<1>1. Init => TypeOK
  BY Constants, Zenon DEF Init, TypeOK, Steps
<1> USE ConstantsAssumption
<1>2. TypeOK /\ [Next]_vars => TypeOK'
  <2> SUFFICES ASSUME TypeOK, [Next]_vars PROVE TypeOK'
    OBVIOUS
  <2> USE DEF TypeOK
  <2>b. \A i \in Nat : (i + 1) % Epochs \in Nat
    OBVIOUS
  <2>1. ASSUME ProtocolClose, pc' = "idle", call' \in Calls, ret' \in {"none", "true", "false"} PROVE TypeOK'
    BY <2>1, Constants DEF ProtocolClose, tcp_close, DropConnection, Steps
  <2>2. ASSUME ConnectSucceeds, pc' = "idle", call' \in Calls, ret' \in {"none", "true", "false"} PROVE TypeOK'
    BY <2>2, Constants, <2>b DEF ConnectSucceeds, Steps
  <2>3. ASSUME FailAndClose PROVE TypeOK'
    BY <2>1, <2>3, Constants DEF FailAndClose, Return
  <2>4. CASE Application
    <3>1. CASE close
      BY <2>1, <3>1 DEF close
    <3>2. CASE connect
      BY <2>1, <2>2, <3>2 DEF connect
    <3>3. CASE assure_connect
      BY <2>1, <2>2, <3>3 DEF assure_connect
    <3>4. CASE set_blocking_mode
      BY <3>4 DEF set_blocking_mode, network
    <3>5. ASSUME NEW op \in Ops, NEW cmds \in Seq(RedisCommand), cmds # << >>, Begin(op, cmds)
          PROVE TypeOK'
      <4>1. call' \in Calls /\ call'.k \in 1..Len(call'.cmds)
        BY <3>5 DEF Begin, Calls, Bodies
      <4> QED BY <3>5, <4>1 DEF Begin, Steps, client, network
    <3>6. CASE exec_command
      <4>1. PICK q \in Requests : Begin("exec", <<q>>)
        BY <3>6 DEF exec_command
      <4>2. <<q>> \in Seq(RedisCommand) /\ <<q>> # << >>
        OBVIOUS
      <4> QED BY <3>5, <4>1, <4>2 DEF Ops
    <3>7. CASE exec_commandv
      <4>1. PICK q \in Requests : Begin("execv", <<q>>)
        BY <3>7 DEF exec_commandv
      <4>2. <<q>> \in Seq(RedisCommand) /\ <<q>> # << >>
        OBVIOUS
      <4> QED BY <3>5, <4>1, <4>2 DEF Ops
    <3>8. CASE exec_pipeline
      <4>1. PICK qs \in Pipelines : Begin("pipeline", qs)
        BY <3>8 DEF exec_pipeline
      <4> QED BY <3>5, <4>1 DEF Ops
    <3> QED BY <2>4, <3>1, <3>2, <3>3, <3>4, <3>6, <3>7, <3>8 DEF Application
  <2>5. CASE InsideCall
    <3>1. CASE write_refused
      BY <3>1, Constants DEF write_refused, Return, Steps, client, network
    <3>2. CASE write_fails
      BY <2>3, <3>2 DEF write_fails
    <3>3. CASE write_command
      <4>1. call.cmds[call.k] \in RedisCommand
        BY <3>3 DEF write_command, Calls
      <4> QED BY <3>3, <4>1 DEF write_command, Steps, client
    <3>4. CASE pipeline_goes_on
      <4>1. call.k \in 1..Len(call.cmds) /\ Len(call.cmds) \in Nat
        BY <3>4 DEF pipeline_goes_on, MoreCommands, Calls
      <4>2. call.k \in Nat /\ call.k + 1 \in Nat /\ 1 \in Nat
        BY <4>1
      <4>3. /\ call' \in Calls
            /\ pc' # "idle" => call'.k \in 1..Len(call'.cmds)
        <5>1. CASE call' = [call EXCEPT !.k = @ + 1] /\ call.k < Len(call.cmds)
          BY <5>1, <4>1, <4>2, CallCommand, SMTT(30)
        <5>2. CASE call' = [call EXCEPT !.k = 1]
          <6>1. call \in Calls /\ 1 \in 1..Len(call.cmds)
            BY <4>1
          <6>2. [call EXCEPT !.k = 1] \in Calls
            BY <6>1, <4>2, CallCommand
          <6>3. [call EXCEPT !.k = 1].k = 1 /\ [call EXCEPT !.k = 1].cmds = call.cmds
            BY <6>1, <4>2, CallCommand
          <6> QED BY <5>2, <6>1, <6>2, <6>3
        <5>3. CASE call' = NoCall /\ pc' = "idle"
          BY <5>3, Constants
        <5> QED BY <3>4, <5>1, <5>2, <5>3 DEF pipeline_goes_on, MoreCommands, Return
      <4> QED BY <3>4, <4>3 DEF pipeline_goes_on, MoreCommands, Return, Steps, client, network
    <3>5. CASE pipeline_broken
      BY <2>3, <3>5 DEF pipeline_broken
    <3>6. CASE recv
      <4>1. PICK i \in 1..Len(wire) : /\ buffer_' = SubSeq(wire, 1, i)
                                      /\ wire' = SubSeq(wire, i + 1, Len(wire))
        BY <3>6 DEF recv
      <4>2. buffer_' \in Seq(Tokens) /\ wire' \in Seq(Tokens)
        BY <4>1, SeqSplit
      <4> QED BY <3>6, <4>2 DEF recv
    <3>7. CASE recv_fails
      BY <2>3, <3>7 DEF recv_fails
    <3>8. CASE parse_integer_fails
      BY <2>3, <3>8 DEF parse_integer_fails
    <3>9. CASE reply_refused
      BY <2>3, <3>9 DEF reply_refused
    <3>10. CASE reply_error
      BY <3>10, Constants, SeqParts DEF reply_error, Return, Steps, network
    <3>11. CASE read_more
      <4>1. Head(buffer_) \in Tokens /\ Tail(buffer_) \in Seq(Tokens)
        BY <3>11, SeqParts DEF read_more
      <4>2. Announced(Head(buffer_).kind, Head(buffer_).n) \in Nat
        BY <4>1, AnnouncedNat DEF Tokens
      <4>3. BodyAfter(Head(buffer_)) \in Bodies
        BY DEF BodyAfter, Bodies, Calls
      <4>4. call' \in Calls /\ call'.k = call.k /\ call'.cmds = call.cmds
        <5> DEFINE left == call.todo - 1 + Announced(Head(buffer_).kind, Head(buffer_).n)
        <5>1. left \in Int
          BY <4>2 DEF Calls
        <5>2. call' = [call EXCEPT !.todo = left, !.body = BodyAfter(Head(buffer_))]
          BY <3>11 DEF read_more
        <5> HIDE DEF left
        <5> QED BY <5>1, <5>2, <4>3, CallLine DEF Calls
      <4> QED BY <3>11, <4>1, <4>4 DEF read_more, network
    <3>12. CASE read_last
      <4>1. Tail(buffer_) \in Seq(Tokens)
        BY <3>12, SeqParts DEF read_last
      <4>2. ModeAfter(Current, transaction_mode_) \in BOOLEAN
        BY DEF ModeAfter
      <4>3. call' \in Calls /\ (pc' # "idle" => call'.k = call.k /\ call'.cmds = call.cmds)
        <5>1. CASE call' = [call EXCEPT !.todo = 1, !.body = "top"]
          <6>1. call \in Calls /\ 1 \in Int /\ "top" \in Bodies
            BY DEF Bodies
          <6>2. [call EXCEPT !.todo = 1, !.body = "top"] \in Calls
            BY <6>1, CallLine
          <6>3. /\ [call EXCEPT !.todo = 1, !.body = "top"].k = call.k
                /\ [call EXCEPT !.todo = 1, !.body = "top"].cmds = call.cmds
            BY <6>1 DEF Calls
          <6> QED BY <5>1, <6>2, <6>3
        <5>2. CASE call' = NoCall /\ pc' = "idle"
          BY <5>2, Constants
        <5> QED BY <3>12, <5>1, <5>2 DEF read_last, Return
      <4> QED BY <3>12, <4>1, <4>2, <4>3 DEF read_last, Return, Steps, network
    <3> QED BY <2>5, <3>1, <3>2, <3>3, <3>4, <3>5, <3>6, <3>7, <3>8, <3>9,
               <3>10, <3>11, <3>12 DEF InsideCall
  <2>6. CASE Environment
    <3>1. CASE server_closes
      BY <3>1 DEF server_closes, client
    <3>2. CASE server_sends
      <4>1. PICK line \in NextLines :
              /\ wire' = Append(wire, TokenFor(line))
              /\ reqs' = IF LeftAfter(line) > 0 THEN reqs ELSE Tail(reqs)
              /\ srv' = ServerAfter(line, Head(reqs).cmd)
        BY <3>2 DEF server_sends
      <4>2. line[1] \in Kinds /\ line[2] \in Int
        BY LineType
      <4>3. LeftAfter(line) \in Nat
        BY <4>2, AnnouncedNat DEF LeftAfter, Servers
      <4>4. TokenFor(line) \in Tokens
        BY <4>2 DEF TokenFor, Tokens, Servers
      <4>5. ServerAfter(line, Head(reqs).cmd) \in Servers
        BY <4>3, ServerFields
      <4>6. reqs' \in Seq(RedisCommand)
        BY <3>2, <4>1, SeqParts DEF server_sends
      <4>7. wire' \in Seq(Tokens)
        BY <4>1, <4>4
      <4> QED BY <3>2, <4>1, <4>5, <4>6, <4>7 DEF server_sends, client
    <3> QED BY <2>6, <3>1, <3>2 DEF Environment
  <2>7. CASE UNCHANGED vars
    BY <2>7 DEF vars
  <2> QED BY <2>4, <2>5, <2>6, <2>7 DEF Next
<1> QED
  BY <1>1, <1>2, PTL DEF Spec

-----------------------------------------------------------------------------
(***************************************************************************)
(* The stream of reply lines.                                              *)
(***************************************************************************)

\* consume(): the first line is read, the reader moves to the place after it.
LEMMA LeadsConsume ==
  ASSUME NEW p, NEW b \in Seq(Tokens), NEW s \in Seq(Tokens), NEW q,
         NEW c, NEW w \in Nat, Leads(p, b, s, q, c, w), b # << >>
  PROVE  Leads(After(Head(b)), Tail(b), s, q, c, w)
<1>1. /\ Head(b) = b[1]
      /\ Tail(b) \in Seq(Tokens)
      /\ Len(Tail(b)) = Len(b) - 1
      /\ \A i \in 1..Len(Tail(b)) : Tail(b)[i] = b[i+1]
  BY SeqParts
<1>2. Len(b) \in Nat /\ Len(b) >= 1
  OBVIOUS
<1>3. Chained(b, c, w)
  BY DEF Leads
<1>4. Chained(Tail(b), c, w)
  <2> SUFFICES ASSUME NEW i \in 1..Len(Tail(b))
               PROVE  /\ Tail(b)[i].conn = c
                      /\ Tail(b)[i].todo >= 1
                      /\ Tail(b)[i].req <= w
                      /\ i < Len(Tail(b)) => At(Tail(b)[i+1]) = After(Tail(b)[i])
    BY DEF Chained
  <2>1. i + 1 \in 1..Len(b) /\ (i < Len(Tail(b)) => i + 1 < Len(b) /\ i + 1 \in 1..Len(Tail(b)))
    BY <1>1, <1>2
  <2>2. Tail(b)[i] = b[i+1] /\ (i < Len(Tail(b)) => Tail(b)[i+1] = b[(i+1)+1])
    BY <1>1, <2>1
  <2> QED BY <1>3, <2>1, <2>2 DEF Chained
<1>5. StartsAt(After(Head(b)), Tail(b))
  <2> SUFFICES ASSUME Tail(b) # << >> PROVE At(Tail(b)[1]) = After(Head(b))
    BY DEF StartsAt
  <2>1. 1 \in 1..Len(Tail(b)) /\ 1 < Len(b) /\ 1 \in 1..Len(b)
    BY <1>1, <1>2
  <2>2. Tail(b)[1] = b[1+1]
    BY <1>1, <2>1
  <2> QED BY <1>1, <1>3, <2>1, <2>2 DEF Chained
<1>6. EndOf(After(Head(b)), Tail(b)) = EndOf(p, b)
  <2>1. CASE Tail(b) = << >>
    <3>1. Len(b) = 1
      BY <1>1, <1>2, <2>1, SMTT(30)
    <3> QED BY <1>1, <2>1, <3>1 DEF EndOf
  <2>2. CASE Tail(b) # << >>
    <3>1. Len(Tail(b)) \in 1..Len(Tail(b)) /\ Len(Tail(b)) + 1 = Len(b)
      BY <1>1, <1>2, <2>2
    <3>2. Tail(b)[Len(Tail(b))] = b[Len(b)]
      BY <1>1, <3>1
    <3> QED BY <2>2, <3>2 DEF EndOf
  <2> QED BY <2>1, <2>2
<1> QED
  BY <1>4, <1>5, <1>6 DEF Leads

\* recv(): lines move from the wire into the empty buffer.
LEMMA LeadsRecv ==
  ASSUME NEW p, NEW s \in Seq(Tokens), NEW q, NEW c, NEW w \in Nat,
         Leads(p, << >>, s, q, c, w), NEW i \in 1..Len(s)
  PROVE  Leads(p, SubSeq(s, 1, i), SubSeq(s, i+1, Len(s)), q, c, w)
<1> DEFINE b == SubSeq(s, 1, i)
           r == SubSeq(s, i+1, Len(s))
<1>1. /\ b \in Seq(Tokens) /\ Len(b) = i /\ \A j \in 1..i : b[j] = s[j]
      /\ r \in Seq(Tokens) /\ Len(r) = Len(s) - i
      /\ \A j \in 1..(Len(s) - i) : r[j] = s[i+j]
  BY SeqSplit
<1>2. Len(s) \in Nat /\ i \in Nat /\ 1 <= i /\ i <= Len(s)
  OBVIOUS
<1>3. Chained(s, c, w) /\ At(s[1]) = p /\ q = After(s[Len(s)])
  BY <1>2 DEF Leads, EndOf, StartsAt
<1> HIDE DEF b, r
<1>4. b # << >> /\ EndOf(p, b) = After(s[i])
  BY <1>1, <1>2 DEF EndOf
<1>5. Chained(b, c, w)
  <2> SUFFICES ASSUME NEW j \in 1..Len(b)
               PROVE  /\ b[j].conn = c
                      /\ b[j].todo >= 1
                      /\ b[j].req <= w
                      /\ j < Len(b) => At(b[j+1]) = After(b[j])
    BY DEF Chained
  <2>1. j \in 1..Len(s) /\ j \in 1..i /\ (j < Len(b) => j < Len(s) /\ j + 1 \in 1..i)
    BY <1>1, <1>2
  <2>2. b[j] = s[j] /\ (j < Len(b) => b[j+1] = s[j+1])
    BY <1>1, <2>1
  <2> QED BY <1>3, <2>1, <2>2 DEF Chained
<1>6. Chained(r, c, w)
  <2> SUFFICES ASSUME NEW j \in 1..Len(r)
               PROVE  /\ r[j].conn = c
                      /\ r[j].todo >= 1
                      /\ r[j].req <= w
                      /\ j < Len(r) => At(r[j+1]) = After(r[j])
    BY DEF Chained
  <2>1. /\ i + j \in 1..Len(s) /\ j \in 1..(Len(s) - i)
        /\ j < Len(r) => i + j < Len(s) /\ j + 1 \in 1..(Len(s) - i) /\ i + (j + 1) = (i + j) + 1
    BY <1>1, <1>2
  <2>2. r[j] = s[i+j] /\ (j < Len(r) => r[j+1] = s[(i+j)+1])
    BY <1>1, <2>1
  <2> QED BY <1>3, <2>1, <2>2 DEF Chained
<1>7. StartsAt(p, b)
  <2>1. 1 \in 1..i
    BY <1>2
  <2> QED BY <1>1, <1>3, <2>1 DEF StartsAt
<1>8. StartsAt(After(s[i]), r)
  <2> SUFFICES ASSUME r # << >> PROVE At(r[1]) = After(s[i])
    BY DEF StartsAt
  <2>1. 1 \in 1..(Len(s) - i) /\ i < Len(s)
    BY <1>1, <1>2
  <2> QED BY <1>1, <1>3, <2>1 DEF Chained
<1>9. EndOf(After(s[i]), r) = After(s[Len(s)])
  <2>1. CASE r = << >>
    <3>1. Len(s) = i
      BY <1>1, <1>2, <2>1
    <3> QED BY <2>1, <3>1 DEF EndOf
  <2>2. CASE r # << >>
    <3>1. Len(r) \in 1..(Len(s) - i) /\ i + Len(r) = Len(s)
      BY <1>1, <1>2, <2>2
    <3>2. r[Len(r)] = s[Len(s)]
      BY <1>1, <3>1
    <3> QED BY <2>2, <3>2 DEF EndOf
  <2> QED BY <2>1, <2>2
<1>10. Leads(p, b, r, q, c, w)
  BY <1>3, <1>4, <1>5, <1>6, <1>7, <1>8, <1>9 DEF Leads
<1> QED
  BY <1>10 DEF b, r

\* The server (external) sends the line that stands at its place.
LEMMA LeadsSend ==
  ASSUME NEW p, NEW b \in Seq(Tokens), NEW s \in Seq(Tokens), NEW q,
         NEW c, NEW w \in Nat, Leads(p, b, s, q, c, w),
         NEW t \in Tokens, At(t) = q, t.conn = c, t.todo >= 1, t.req <= w
  PROVE  Leads(p, b, Append(s, t), After(t), c, w)
<1> DEFINE a == Append(s, t)
           m == EndOf(p, b)
<1>1. /\ a \in Seq(Tokens) /\ Len(a) = Len(s) + 1 /\ a # << >>
      /\ \A i \in 1..Len(s) : a[i] = s[i]
      /\ a[Len(s) + 1] = t
      /\ Len(s) \in Nat
  <2>1. Len(s) \in Nat /\ a \in Seq(Tokens) /\ Len(a) = Len(s) + 1
    OBVIOUS
  <2>2. a # << >>
    BY <2>1
  <2>3. \A i \in 1..Len(s) : a[i] = s[i]
    OBVIOUS
  <2>4. a[Len(s) + 1] = t
    OBVIOUS
  <2> QED BY <2>1, <2>2, <2>3, <2>4
<1>2. Chained(s, c, w) /\ StartsAt(m, s) /\ At(t) = EndOf(m, s) /\ Chained(b, c, w) /\ StartsAt(p, b)
  BY DEF Leads
<1> HIDE DEF a, m
<1>3. Chained(a, c, w)
  <2> SUFFICES ASSUME NEW i \in 1..Len(a)
               PROVE  /\ a[i].conn = c
                      /\ a[i].todo >= 1
                      /\ a[i].req <= w
                      /\ i < Len(a) => At(a[i+1]) = After(a[i])
    BY DEF Chained
  <2>1. CASE i < Len(s)
    <3>1. i \in 1..Len(s) /\ i + 1 \in 1..Len(s)
      BY <1>1, <2>1
    <3> QED BY <1>1, <1>2, <2>1, <3>1 DEF Chained
  <2>2. CASE i = Len(s)
    <3>1. i \in 1..Len(s) /\ s # << >>
      BY <1>1, <2>2
    <3>2. At(t) = After(s[i])
      BY <1>2, <2>2, <3>1 DEF EndOf
    <3> QED BY <1>1, <1>2, <2>2, <3>1, <3>2 DEF Chained
  <2>3. CASE i = Len(s) + 1
    BY <1>1, <2>3
  <2> QED BY <1>1, <2>1, <2>2, <2>3
<1>4. StartsAt(m, a)
  <2>1. CASE s = << >>
    <3>1. a[1] = t
      BY <1>1, <2>1
    <3> QED BY <1>2, <2>1, <3>1 DEF StartsAt, EndOf
  <2>2. CASE s # << >>
    <3>1. 1 \in 1..Len(s)
      BY <1>1, <2>2
    <3> QED BY <1>1, <1>2, <2>2, <3>1 DEF StartsAt
  <2> QED BY <2>1, <2>2
<1>5. EndOf(m, a) = After(t)
  BY <1>1 DEF EndOf
<1>6. Leads(p, b, a, After(t), c, w)
  BY <1>2, <1>3, <1>4, <1>5 DEF Leads, m
<1> QED
  BY <1>6 DEF a

\* write_command(): one more request may be answered.
LEMMA LeadsGrow ==
  ASSUME NEW p, NEW b \in Seq(Tokens), NEW s \in Seq(Tokens), NEW q,
         NEW c, NEW w \in Nat, Leads(p, b, s, q, c, w)
  PROVE  Leads(p, b, s, q, c, w + 1)
<1>1. ASSUME NEW x \in Seq(Tokens), Chained(x, c, w) PROVE Chained(x, c, w + 1)
  <2>1. ASSUME NEW i \in 1..Len(x) PROVE x[i].req <= w + 1
    <3>1. x[i] \in Tokens
      OBVIOUS
    <3>2. x[i].req \in Nat
      BY <3>1 DEF Tokens
    <3>3. x[i].req <= w
      BY <1>1 DEF Chained
    <3> QED BY <3>2, <3>3
  <2> QED BY <1>1, <2>1 DEF Chained
<1> QED
  BY <1>1 DEF Leads

\* A fresh connection: nothing buffered, nothing on the wire.
LEMMA LeadsEmpty ==
  ASSUME NEW p, NEW c, NEW w
  PROVE  Leads(p, << >>, << >>, p, c, w)
BY DEF Leads, Chained, StartsAt, EndOf

\* A reader that stands behind the last request finds no line: the stream
\* holds answers to requests only.
LEMMA LeadsNowhere ==
  ASSUME NEW b \in Seq(Tokens), NEW s \in Seq(Tokens), NEW q, NEW c,
         NEW w \in Nat, Leads(<<w + 1, 1>>, b, s, q, c, w)
  PROVE  b = << >> /\ s = << >> /\ q = <<w + 1, 1>>
<1>1. ASSUME NEW x \in Seq(Tokens), Chained(x, c, w), StartsAt(<<w + 1, 1>>, x)
      PROVE  x = << >>
  <2> SUFFICES ASSUME x # << >> PROVE FALSE
    OBVIOUS
  <2>1. 1 \in 1..Len(x) /\ x[1] \in Tokens
    OBVIOUS
  <2>2. x[1].req <= w /\ x[1].req \in Nat
    BY <1>1, <2>1 DEF Chained, Tokens
  <2>3. x[1].req = w + 1
    BY <1>1 DEF StartsAt, At
  <2> QED BY <2>2, <2>3
<1>2. b = << >>
  BY <1>1 DEF Leads
<1>3. s = << >>
  BY <1>1, <1>2 DEF Leads, EndOf
<1> QED
  BY <1>2, <1>3 DEF Leads, EndOf

-----------------------------------------------------------------------------
(***************************************************************************)
(* Requests and replies stay in step.                                      *)
(***************************************************************************)

\* close() and a new connection start from an empty stream.
LEMMA InOrderFresh ==
  ASSUME pc = "idle", written = 0, reqs = << >>, wire = << >>,
         buffer_ = << >>, srv = FreshServer, call.todo = 1
  PROVE  InOrder
<1>1. ClientAt = <<1, 1>> /\ <<srv.req, srv.todo>> = <<1, 1>>
  BY DEF ClientAt, FreshServer
<1>2. Stream
  BY <1>1, LeadsEmpty DEF Stream
<1>3. Pending
  BY DEF Pending, FreshServer
<1>4. Progress
  BY DEF Progress
<1> QED
  BY <1>2, <1>3, <1>4 DEF InOrder

\* NoCall's reader stands at the first line of a reply.
LEMMA NoCallTodo == NoCall.todo = 1
BY DEF NoCall

\* The place after a line, given how many lines its reply still misses.
LEMMA AfterLine ==
  ASSUME NEW t \in Tokens, NEW left, left = t.todo - 1 + Announced(t.kind, t.n)
  PROVE  /\ left = 0 => After(t) = <<t.req + 1, 1>>
         /\ left # 0 => After(t) = <<t.req, left>>
BY DEF After

\* Every operation keeps requests and replies in step (InOrder), whatever
\* server, network and application do.
THEOREM StaysInOrder == Spec => []InOrder
<1> USE ConstantsAssumption
<1>1. Init => InOrder
  BY InOrderFresh, NoCallTodo DEF Init
<1>2. TypeOK /\ TypeOK' /\ InOrder /\ [Next]_vars => InOrder'
  <2> SUFFICES ASSUME TypeOK, TypeOK', InOrder, [Next]_vars PROVE InOrder'
    OBVIOUS
  <2>t. /\ written \in Nat /\ conn \in Nat /\ buffer_ \in Seq(Tokens) /\ wire \in Seq(Tokens)
        /\ call \in Calls /\ srv \in Servers /\ owed \in BOOLEAN /\ reqs \in Seq(RedisCommand)
        /\ pc # "idle" => call.k \in 1..Len(call.cmds)
    BY DEF TypeOK
  <2>c. /\ call.k \in Nat /\ call.first \in Nat /\ call.todo \in Int
        /\ call.cmds \in Seq(RedisCommand) /\ Len(call.cmds) \in Nat
    BY <2>t DEF Calls
  <2>0. Progress /\ Pending /\ (~owed => Stream)
    BY DEF InOrder
  <2>1. ASSUME ProtocolClose \/ ConnectSucceeds, pc' = "idle", call'.todo = 1
        PROVE  InOrder'
    <3>1. /\ written' = 0 /\ reqs' = << >> /\ wire' = << >> /\ buffer_' = << >>
          /\ srv' = FreshServer
      BY <2>1 DEF ProtocolClose, DropConnection, tcp_close, ConnectSucceeds
    <3>2. ClientAt' = <<1, 1>> /\ <<srv'.req, srv'.todo>> = <<1, 1>>
      BY <2>1, <3>1 DEF ClientAt, FreshServer
    <3>3. Stream'
      BY <3>1, <3>2, LeadsEmpty DEF Stream
    <3>4. Pending'
      BY <3>1 DEF Pending, FreshServer
    <3>5. Progress'
      BY <2>1 DEF Progress
    <3> QED BY <3>3, <3>4, <3>5 DEF InOrder
  <2>2. ASSUME FailAndClose PROVE InOrder'
    BY <2>1, <2>2, NoCallTodo DEF FailAndClose, Return
  <2>3. CASE Application
    <3>1. CASE close \/ connect \/ assure_connect
      <4>1. call'.todo = 1 /\ pc' = "idle"
        BY <3>1, <2>0 DEF close, connect, assure_connect, Progress
      <4> QED BY <2>1, <3>1, <4>1 DEF close, connect, assure_connect
    <3>2. CASE set_blocking_mode
      BY <3>2, <2>0 DEF set_blocking_mode, network, InOrder, Progress, Pending, Stream, ClientAt
    <3>3. ASSUME NEW op \in Ops, NEW cmds, op # "pipeline" => Len(cmds) = 1, Begin(op, cmds)
          PROVE  InOrder'
      <4>1. /\ call'.todo = 1 /\ call'.first = written + 1 /\ call'.k = 1
            /\ call'.op = op /\ call'.cmds = cmds /\ pc' = "write" /\ pc = "idle"
            /\ UNCHANGED <<buffer_, wire, srv, conn, written, reqs, owed, fd_>>
        BY <3>3 DEF Begin, client, network
      <4>2. ClientAt' = ClientAt
        BY <4>1 DEF ClientAt
      <4>3. ~owed' => Stream'
        BY <4>1, <4>2, <2>0 DEF Stream
      <4>4. Progress'
        BY <4>1, <3>3, <2>t DEF Progress
      <4>5. Pending'
        BY <4>1, <2>0 DEF Pending
      <4> QED BY <4>3, <4>4, <4>5 DEF InOrder
    <3>4. CASE exec_command
      <4>1. PICK q \in Requests : Begin("exec", <<q>>)
        BY <3>4 DEF exec_command
      <4> QED BY <3>3, <4>1 DEF Ops
    <3>5. CASE exec_commandv
      <4>1. PICK q \in Requests : Begin("execv", <<q>>)
        BY <3>5 DEF exec_commandv
      <4> QED BY <3>3, <4>1 DEF Ops
    <3>6. CASE exec_pipeline
      BY <3>3, <3>6 DEF exec_pipeline, Ops
    <3> QED BY <2>3, <3>1, <3>2, <3>4, <3>5, <3>6 DEF Application
  <2>4. CASE InsideCall
    <3>1. CASE write_refused
      <4>1. /\ pc = "write" /\ pc' = "idle" /\ call' = NoCall
            /\ owed' = (owed \/ (fd_ /\ call.k > 1))
            /\ UNCHANGED <<buffer_, wire, srv, conn, written, reqs, fd_>>
        BY <3>1 DEF write_refused, Return, client, network
      <4>2. Progress'
        BY <4>1, NoCallTodo DEF Progress
      <4>3. Pending'
        BY <4>1, <2>0 DEF Pending
      <4>4. ASSUME ~owed' PROVE Stream'
        <5>0. ~owed /\ ~(fd_ /\ call.k > 1) /\ (call.k > 1 => fd_)
          BY <4>1, <4>4, <2>0, Zenon DEF Progress
        <5>1. ~owed /\ call.k = 1
          <6>1. ~(call.k > 1) /\ call.k \in 1..Len(call.cmds)
            BY <5>0, <4>1, <2>t
          <6> QED BY <5>0, <6>1, <2>c
        <5>2. ClientAt' = ClientAt
          BY <4>1, <5>1, <2>0, <2>t, <2>c DEF ClientAt, Progress
        <5> QED BY <4>1, <5>1, <5>2, <2>0 DEF Stream
      <4> QED BY <4>2, <4>3, <4>4 DEF InOrder
    <3>2. CASE write_fails
      BY <2>2, <3>2 DEF write_fails
    <3>3. CASE write_command
      <4>1. /\ pc = "write" /\ pc' \in {"write_check", "read"} /\ fd_
            /\ (pc' = "write_check") <=> (call.op = "pipeline")
            /\ written' = written + 1 /\ reqs' = Append(reqs, call.cmds[call.k])
            /\ UNCHANGED <<buffer_, wire, srv, conn, call, owed, fd_>>
        BY <3>3 DEF write_command, client
      <4>2. Progress'
        <5>1. /\ call.todo = 1 /\ written = call.first + call.k - 2
              /\ call.op # "pipeline" => Len(call.cmds) = 1 /\ call.k = 1
          BY <4>1, <2>0, <2>t, <2>c DEF Progress
        <5>2. written' = call.first + call.k - 1
          BY <5>1, <4>1, <2>c
        <5>3. pc' = "read" => written' = call.first + Len(call.cmds) - 1
          BY <5>1, <5>2, <4>1
        <5> QED BY <5>1, <5>2, <5>3, <4>1 DEF Progress
      <4>3. ClientAt' = ClientAt
        <5>1. pc' = "read" => call.k = 1 /\ call.todo = 1
          BY <4>1, <2>0, <2>t, <2>c DEF Progress
        <5> QED BY <5>1, <4>1, <2>c, SMTT(30) DEF ClientAt
      <4>4. Pending'
        <5>1. Len(reqs') = Len(reqs) + 1
          BY <4>1, <2>t
        <5> QED BY <5>1, <4>1, <2>0, <2>t DEF Pending, Servers
      <4>5. ~owed' => Stream'
        BY <4>1, <4>3, <2>0, <2>t, LeadsGrow DEF Stream
      <4> QED BY <4>2, <4>4, <4>5 DEF InOrder
    <3>4. CASE pipeline_goes_on
      <4>1. /\ pc \in {"write_check", "read_check"} /\ fd_
            /\ UNCHANGED <<buffer_, wire, srv, conn, written, reqs, owed, fd_>>
        BY <3>4 DEF pipeline_goes_on, MoreCommands, client, network
      <4>2. CASE /\ call.k < Len(call.cmds)
                 /\ pc' = IF pc = "write_check" THEN "write" ELSE "read"
                 /\ call' = [call EXCEPT !.k = @ + 1]
        <5>1. /\ call'.k = call.k + 1 /\ call'.cmds = call.cmds /\ call'.first = call.first
              /\ call'.todo = call.todo /\ call'.op = call.op
          BY <4>2, <2>t DEF Calls
        <5>2. Progress'
          <6>1. /\ call.op = "pipeline" /\ call.todo = 1
                /\ pc = "write_check" => written = call.first + call.k - 1
                /\ pc = "read_check" => written = call.first + Len(call.cmds) - 1
            BY <4>1, <2>0 DEF Progress
          <6>2. pc' = "write" => written' = call'.first + call'.k - 2
            BY <6>1, <4>1, <4>2, <5>1, <2>c
          <6>3. pc' = "read" => written' = call'.first + Len(call'.cmds) - 1
            BY <6>1, <4>1, <4>2, <5>1
          <6>4. pc' \in {"write", "read"} /\ fd_' /\ call'.op = "pipeline" /\ call'.todo = 1
            BY <6>1, <4>1, <4>2, <5>1
          <6> QED BY <6>2, <6>3, <6>4 DEF Progress
        <5>3. ClientAt' = ClientAt
          <6>1. call.todo = 1
            BY <4>1, <2>0 DEF Progress
          <6>2. CASE pc = "write_check"
            BY <6>2, <4>2, <5>1 DEF ClientAt
          <6>3. CASE pc = "read_check"
            <7>1. call'.first + call'.k - 1 = call.first + call.k
              BY <5>1, <2>c
            <7> QED BY <6>1, <6>3, <7>1, <4>2, <5>1 DEF ClientAt
          <6> QED BY <6>2, <6>3, <4>1
        <5> QED BY <4>1, <5>2, <5>3, <2>0 DEF InOrder, Stream, Pending
      <4>3. CASE /\ call.k = Len(call.cmds) /\ pc = "write_check" /\ pc' = "read"
                 /\ call' = [call EXCEPT !.k = 1]
        <5>1. /\ call'.k = 1 /\ call'.cmds = call.cmds /\ call'.first = call.first
              /\ call'.todo = call.todo /\ call'.op = call.op
          BY <4>3, <2>t DEF Calls
        <5>2. Progress'
          BY <4>1, <4>3, <5>1, <2>0, <2>c DEF Progress
        <5>3. ClientAt' = ClientAt
          BY <4>1, <4>3, <5>1, <2>0, <2>c DEF ClientAt, Progress
        <5> QED BY <4>1, <5>2, <5>3, <2>0 DEF InOrder, Stream, Pending
      <4>4. CASE /\ call.k = Len(call.cmds) /\ pc = "read_check"
                 /\ pc' = "idle" /\ call' = NoCall
        <5>1. Progress'
          BY <4>4, NoCallTodo DEF Progress
        <5>2. ClientAt' = ClientAt
          BY <4>1, <4>4, <2>0, <2>t, <2>c, SMTT(30) DEF ClientAt, Progress
        <5> QED BY <4>1, <5>1, <5>2, <2>0 DEF InOrder, Stream, Pending
      <4>5. ~MoreCommands => call.k = Len(call.cmds)
        BY <4>1, <2>t, <2>c DEF MoreCommands, Calls
      <4> QED BY <3>4, <4>2, <4>3, <4>4, <4>5 DEF pipeline_goes_on, MoreCommands, Return
    <3>5. CASE pipeline_broken
      BY <2>2, <3>5 DEF pipeline_broken
    <3>6. CASE recv
      <4>1. PICK i \in 1..Len(wire) : /\ buffer_' = SubSeq(wire, 1, i)
                                      /\ wire' = SubSeq(wire, i + 1, Len(wire))
        BY <3>6 DEF recv
      <4>2. buffer_ = << >> /\ UNCHANGED <<fd_, pc, call, owed, conn, written, reqs, srv>>
        BY <3>6 DEF recv
      <4>3. ClientAt' = ClientAt
        BY <4>2 DEF ClientAt
      <4>4. Stream => Stream'
        BY <4>1, <4>2, <4>3, <2>t, LeadsRecv DEF Stream
      <4> QED BY <4>2, <4>4, <2>0 DEF InOrder, Progress, Pending
    <3>7. CASE recv_fails
      BY <2>2, <3>7 DEF recv_fails
    <3>8. CASE parse_integer_fails
      BY <2>2, <3>8 DEF parse_integer_fails
    <3>9. CASE reply_refused
      BY <2>2, <3>9 DEF reply_refused
    <3>10. ASSUME pc = "read", buffer_ # << >>, ~owed
           PROVE  /\ Head(buffer_) \in Tokens
                  /\ At(Head(buffer_)) = <<call.first + call.k - 1, call.todo>>
                  /\ Head(buffer_).req = call.first + call.k - 1
                  /\ Head(buffer_).todo = call.todo
                  /\ Announced(Head(buffer_).kind, Head(buffer_).n) \in Nat
                  /\ Leads(After(Head(buffer_)), Tail(buffer_), wire,
                           <<srv.req, srv.todo>>, conn, written)
      <4>1. Head(buffer_) \in Tokens /\ Head(buffer_) = buffer_[1]
        BY <3>10, <2>t, SeqParts
      <4>2. Leads(ClientAt, buffer_, wire, <<srv.req, srv.todo>>, conn, written)
        BY <3>10, <2>0 DEF Stream
      <4>3. ClientAt = <<call.first + call.k - 1, call.todo>>
        BY <3>10 DEF ClientAt
      <4>4. At(Head(buffer_)) = ClientAt
        BY <4>1, <4>2, <3>10 DEF Leads, StartsAt
      <4>5. Announced(Head(buffer_).kind, Head(buffer_).n) \in Nat
        BY <4>1, AnnouncedNat DEF Tokens
      <4>6. Leads(After(Head(buffer_)), Tail(buffer_), wire,
                  <<srv.req, srv.todo>>, conn, written)
        BY <4>2, <3>10, <2>t, LeadsConsume
      <4>7. /\ Head(buffer_).req = call.first + call.k - 1
            /\ Head(buffer_).todo = call.todo
        BY <4>3, <4>4 DEF At
      <4> QED BY <4>1, <4>3, <4>4, <4>5, <4>6, <4>7
    <3>11. CASE reply_error
      <4>1. /\ pc = "read" /\ buffer_ # << >> /\ Head(buffer_).kind = "-"
            /\ buffer_' = Tail(buffer_)
            /\ owed' = (owed \/ call.todo > 1 \/ call.k < Len(call.cmds))
            /\ pc' = "idle" /\ call' = NoCall
            /\ UNCHANGED <<fd_, wire, srv, conn, written, reqs>>
        BY <3>11 DEF reply_error, IsSoftError, Return, network
      <4>2. Progress'
        BY <4>1, NoCallTodo DEF Progress
      <4>3. Pending'
        BY <4>1, <2>0 DEF Pending
      <4>4. ASSUME ~owed' PROVE Stream'
        <5>0. ~owed /\ ~(call.todo > 1) /\ ~(call.k < Len(call.cmds))
          BY <4>1, <4>4
        <5>1. ~owed /\ call.todo = 1 /\ call.k = Len(call.cmds)
          <6>1. call.todo >= 1 /\ call.k \in 1..Len(call.cmds)
            BY <4>1, <2>0, <2>t DEF Progress
          <6> QED BY <5>0, <6>1, <2>c
        <5>2. Announced(Head(buffer_).kind, Head(buffer_).n) = 0
          BY <4>1 DEF Announced
        <5>3. After(Head(buffer_)) = <<call.first + call.k - 1 + 1, 1>>
          BY <5>1, <5>2, <4>1, <3>10, AfterLine
        <5>4. ClientAt' = After(Head(buffer_))
          BY <5>1, <5>3, <4>1, <2>0, <2>t, <2>c DEF ClientAt, Progress
        <5> QED BY <5>1, <5>4, <4>1, <3>10 DEF Stream
      <4> QED BY <4>2, <4>3, <4>4 DEF InOrder
    <3>12. CASE read_more
      <4> DEFINE left == call.todo - 1 + Announced(Head(buffer_).kind, Head(buffer_).n)
      <4>1. /\ pc = "read" /\ buffer_ # << >> /\ left > 0
            /\ buffer_' = Tail(buffer_)
            /\ UNCHANGED <<fd_, pc, owed, wire, srv, conn, written, reqs>>
        BY <3>12 DEF read_more, network
      <4>2. Announced(Head(buffer_).kind, Head(buffer_).n) \in Nat
        <5>1. Head(buffer_) \in Tokens
          BY <4>1, <2>t, SeqParts
        <5> QED BY <5>1, AnnouncedNat DEF Tokens
      <4>3. /\ call'.k = call.k /\ call'.cmds = call.cmds /\ call'.first = call.first
            /\ call'.todo = left /\ call'.op = call.op
        <5>1. call' = [call EXCEPT !.todo = left, !.body = BodyAfter(Head(buffer_))]
          BY <3>12 DEF read_more
        <5> QED BY <5>1, <2>t DEF Calls
      <4>4. left \in Nat /\ left >= 1
        BY <4>1, <4>2, <2>c
      <4> HIDE DEF left
      <4>5. Progress'
        BY <4>1, <4>3, <4>4, <2>0 DEF Progress
      <4>6. Pending'
        BY <4>1, <2>0 DEF Pending
      <4>7. ASSUME ~owed' PROVE Stream'
        <5>1. After(Head(buffer_)) = <<call.first + call.k - 1, left>>
          BY <4>1, <4>4, <4>7, <3>10, AfterLine DEF left
        <5>2. ClientAt' = After(Head(buffer_))
          BY <5>1, <4>1, <4>3 DEF ClientAt
        <5> QED BY <5>2, <4>1, <4>7, <3>10 DEF Stream
      <4> QED BY <4>5, <4>6, <4>7 DEF InOrder
    <3>13. CASE read_last
      <4> DEFINE left == call.todo - 1 + Announced(Head(buffer_).kind, Head(buffer_).n)
      <4>1. /\ pc = "read" /\ buffer_ # << >> /\ left = 0
            /\ buffer_' = Tail(buffer_)
            /\ UNCHANGED <<fd_, owed, wire, srv, conn, written, reqs>>
        BY <3>13 DEF read_last, network
      <4>2. \/ /\ call.op = "pipeline" /\ pc' = "read_check"
               /\ call' = [call EXCEPT !.todo = 1, !.body = "top"]
            \/ /\ call.op # "pipeline" /\ pc' = "idle" /\ call' = NoCall
        BY <3>13 DEF read_last, Return
      <4> HIDE DEF left
      <4>3. Progress' /\ ClientAt' = <<call.first + call.k, 1>>
        <5>1. CASE /\ call.op = "pipeline" /\ pc' = "read_check"
                   /\ call' = [call EXCEPT !.todo = 1, !.body = "top"]
          <6>1. /\ call'.k = call.k /\ call'.cmds = call.cmds /\ call'.first = call.first
                /\ call'.todo = 1 /\ call'.op = call.op
            BY <5>1, <2>t DEF Calls
          <6>2. fd_ /\ written = call.first + Len(call.cmds) - 1
            BY <4>1, <2>0 DEF Progress
          <6>3. Progress'
            BY <4>1, <5>1, <6>1, <6>2 DEF Progress
          <6> QED BY <5>1, <6>1, <6>3 DEF ClientAt
        <5>2. CASE call.op # "pipeline" /\ pc' = "idle" /\ call' = NoCall
          <6>1. Progress'
            BY <5>2, NoCallTodo DEF Progress
          <6>2. written = call.first /\ call.k = 1
            <7>1. Len(call.cmds) = 1 /\ written = call.first + Len(call.cmds) - 1
              BY <4>1, <5>2, <2>0 DEF Progress
            <7> QED BY <7>1, <4>1, <2>t, <2>c
          <6> QED BY <4>1, <5>2, <6>1, <6>2, <2>c DEF ClientAt
        <5> QED BY <4>2, <5>1, <5>2
      <4>4. Pending'
        BY <4>1, <2>0 DEF Pending
      <4>5. ASSUME ~owed' PROVE Stream'
        <5>1. After(Head(buffer_)) = <<call.first + call.k - 1 + 1, 1>>
          BY <4>1, <4>5, <3>10, AfterLine DEF left
        <5>2. ClientAt' = After(Head(buffer_))
          BY <5>1, <4>3, <2>c
        <5> QED BY <5>2, <4>1, <4>5, <3>10 DEF Stream
      <4> QED BY <4>3, <4>4, <4>5 DEF InOrder
    <3> QED BY <2>4, <3>1, <3>2, <3>3, <3>4, <3>5, <3>6, <3>7, <3>8, <3>9,
               <3>11, <3>12, <3>13 DEF InsideCall
  <2>5. CASE Environment
    <3>1. CASE server_closes
      BY <3>1, <2>0 DEF server_closes, client, InOrder, Progress, Pending, Stream, ClientAt
    <3>2. CASE server_sends
      <4>1. PICK line \in NextLines :
              /\ wire' = Append(wire, TokenFor(line))
              /\ reqs' = IF LeftAfter(line) > 0 THEN reqs ELSE Tail(reqs)
              /\ srv' = ServerAfter(line, Head(reqs).cmd)
        BY <3>2 DEF server_sends
      <4>2. reqs # << >> /\ UNCHANGED <<fd_, buffer_, pc, call, owed, conn, written>>
        BY <3>2 DEF server_sends, client
      <4>3. line[1] \in Kinds /\ line[2] \in Int
        BY <2>t, LineType
      <4>4. TokenFor(line) \in Tokens
        BY <4>3, <2>t DEF TokenFor, Tokens, Servers
      <4>5. LeftAfter(line) \in Nat
        BY <4>3, <2>t, AnnouncedNat DEF LeftAfter, Servers
      <4>6. /\ LeftAfter(line) = 0 => srv'.req = srv.req + 1 /\ srv'.todo = 1
            /\ LeftAfter(line) # 0 => srv'.req = srv.req /\ srv'.todo = LeftAfter(line)
        BY <4>1, <4>5 DEF ServerAfter
      <4>7. Len(reqs) \in Nat /\ Len(reqs) >= 1 /\ Len(Tail(reqs)) = Len(reqs) - 1
        BY <4>2, <2>t, SeqParts
      <4>8. Pending'
        <5>1. srv.req \in Nat /\ srv.todo \in Nat
          BY <2>t DEF Servers
        <5>2. CASE LeftAfter(line) = 0
          BY <5>1, <5>2, <4>1, <4>2, <4>6, <4>7, <2>0 DEF Pending
        <5>3. CASE LeftAfter(line) # 0
          BY <5>1, <5>3, <4>1, <4>2, <4>5, <4>6, <2>0 DEF Pending
        <5> QED BY <5>2, <5>3
      <4>9. ClientAt' = ClientAt
        BY <4>2 DEF ClientAt
      <4>10. ASSUME ~owed' PROVE Stream'
        <5>1. /\ At(TokenFor(line)) = <<srv.req, srv.todo>>
              /\ TokenFor(line).conn = conn
              /\ TokenFor(line).todo >= 1
              /\ TokenFor(line).req = srv.req
              /\ TokenFor(line).todo - 1 + Announced(TokenFor(line).kind, TokenFor(line).n) = LeftAfter(line)
          BY <2>0 DEF At, TokenFor, Pending, LeftAfter
        <5>2. TokenFor(line).req <= written
          BY <5>1, <4>7, <2>0, <2>t DEF Pending, Servers
        <5>3. After(TokenFor(line)) = <<srv'.req, srv'.todo>>
          BY <5>1, <4>4, <4>6, AfterLine
        <5>4. Leads(ClientAt, buffer_, wire, <<srv.req, srv.todo>>, conn, written)
          BY <4>2, <4>10, <2>0 DEF Stream
        <5>5. Leads(ClientAt, buffer_, Append(wire, TokenFor(line)),
                    After(TokenFor(line)), conn, written)
          BY <5>1, <5>2, <5>4, <4>4, <2>t, LeadsSend
        <5> QED BY <5>3, <5>5, <4>1, <4>2, <4>9 DEF Stream
      <4> QED BY <4>2, <4>8, <4>10, <2>0 DEF InOrder, Progress
    <3> QED BY <2>5, <3>1, <3>2 DEF Environment
  <2>6. CASE UNCHANGED vars
    BY <2>6, <2>0 DEF vars, InOrder, Progress, Pending, Stream, ClientAt
  <2> QED BY <2>3, <2>4, <2>5, <2>6 DEF Next
<1> QED
  BY <1>1, <1>2, TypeCorrect, PTL DEF Spec

\* A reply line is read for the command that it answers, at the place in the
\* reply where __read_reply believes to be.
THEOREM AnswersAlwaysMatch == Spec => []AnswersMatch
<1>1. TypeOK /\ InOrder => AnswersMatch
  <2> SUFFICES ASSUME TypeOK, InOrder, pc = "read", buffer_ # << >>, ~owed
               PROVE  /\ Head(buffer_).conn = conn
                      /\ Head(buffer_).req = call.first + call.k - 1
                      /\ Head(buffer_).todo = call.todo
    BY DEF AnswersMatch
  <2>1. Leads(ClientAt, buffer_, wire, <<srv.req, srv.todo>>, conn, written)
    BY DEF InOrder, Stream
  <2>2. buffer_ \in Seq(Tokens)
    BY DEF TypeOK
  <2>3. Head(buffer_) = buffer_[1] /\ 1 \in 1..Len(buffer_)
    BY <2>2
  <2>4. Head(buffer_).conn = conn
    BY <2>1, <2>3 DEF Leads, Chained
  <2>5. At(Head(buffer_)) = <<call.first + call.k - 1, call.todo>>
    BY <2>1, <2>3 DEF Leads, StartsAt, ClientAt
  <2> QED BY <2>4, <2>5 DEF At
<1> QED
  BY <1>1, TypeCorrect, StaysInOrder, PTL

\* Between two calls an open connection holds no unread reply and the server
\* owes none: exec_command and exec_pipeline read what they wrote.
THEOREM AlwaysDrained == Spec => []Drained
<1>1. TypeOK /\ InOrder => Drained
  <2> SUFFICES ASSUME TypeOK, InOrder, pc = "idle", ~owed
               PROVE  IsDrained
    BY DEF Drained
  <2>1. Leads(<<written + 1, 1>>, buffer_, wire, <<srv.req, srv.todo>>, conn, written)
    BY DEF InOrder, Stream, ClientAt
  <2>2. buffer_ \in Seq(Tokens) /\ wire \in Seq(Tokens) /\ written \in Nat
    BY DEF TypeOK
  <2>3. buffer_ = << >> /\ wire = << >> /\ <<srv.req, srv.todo>> = <<written + 1, 1>>
    BY <2>1, <2>2, LeadsNowhere
  <2> QED BY <2>3 DEF IsDrained
<1> QED
  BY <1>1, TypeCorrect, StaysInOrder, PTL

\* Without a descriptor there is no buffered byte and no transaction: every
\* path of RedisProtocol that gives up the socket goes through close().
THEOREM AlwaysClosedClean == Spec => []ClosedIsClean
<1>1. Init => ClosedIsClean
  BY DEF Init, ClosedIsClean
<1>2. InOrder /\ ClosedIsClean /\ [Next]_vars => ClosedIsClean'
  <2> SUFFICES ASSUME InOrder, ClosedIsClean, [Next]_vars PROVE ClosedIsClean'
    OBVIOUS
  <2>0. pc = "read" => fd_
    BY DEF InOrder, Progress
  <2>1. ASSUME ProtocolClose \/ ConnectSucceeds PROVE ClosedIsClean'
    BY <2>1 DEF ProtocolClose, tcp_close, ConnectSucceeds, ClosedIsClean
  <2>2. ASSUME FailAndClose PROVE ClosedIsClean'
    BY <2>1, <2>2 DEF FailAndClose
  <2>3. ASSUME UNCHANGED <<fd_, buffer_, transaction_mode_>> PROVE ClosedIsClean'
    BY <2>3 DEF ClosedIsClean
  <2>4. ASSUME pc = "read", fd_' = fd_ PROVE ClosedIsClean'
    BY <2>0, <2>4 DEF ClosedIsClean
  <2>5. CASE Application
    <3>1. CASE close \/ connect \/ assure_connect
      BY <2>1, <3>1 DEF close, connect, assure_connect
    <3>2. CASE set_blocking_mode
      BY <2>3, <3>2 DEF set_blocking_mode
    <3>3. CASE exec_command \/ exec_commandv \/ exec_pipeline
      BY <2>3, <3>3 DEF exec_command, exec_commandv, exec_pipeline, Begin, client
    <3> QED BY <2>5, <3>1, <3>2, <3>3 DEF Application
  <2>6. CASE InsideCall
    <3>1. CASE write_fails \/ pipeline_broken \/ recv_fails \/ parse_integer_fails \/ reply_refused
      BY <2>2, <3>1 DEF write_fails, pipeline_broken, recv_fails, parse_integer_fails, reply_refused
    <3>2. CASE write_refused \/ write_command \/ pipeline_goes_on
      BY <2>3, <3>2 DEF write_refused, write_command, pipeline_goes_on, MoreCommands, client
    <3>3. CASE recv \/ reply_error \/ read_more \/ read_last
      BY <2>4, <3>3 DEF recv, reply_error, read_more, read_last
    <3> QED BY <2>6, <3>1, <3>2, <3>3 DEF InsideCall
  <2>7. CASE Environment
    BY <2>3, <2>7 DEF Environment, server_sends, server_closes, client
  <2>8. CASE UNCHANGED vars
    BY <2>3, <2>8 DEF vars
  <2> QED BY <2>5, <2>6, <2>7, <2>8 DEF Next
<1> QED
  BY <1>1, <1>2, StaysInOrder, PTL DEF Spec

-----------------------------------------------------------------------------
(***************************************************************************)
(* Client and server about transactions.                                   *)
(***************************************************************************)

\* One line more, one line less, and a sequence cut in two.
LEMMA ModeEmpty ==
  ASSUME NEW c
  PROVE  NotEnded(c, << >>) /\ ~Started(c, << >>)
BY DEF NotEnded, Started

LEMMA ModeAppend ==
  ASSUME NEW c, NEW s \in Seq(Tokens), NEW t \in Tokens
  PROVE  /\ NotEnded(c, s) /\ ~EndsTransaction(c, t) => NotEnded(c, Append(s, t))
         /\ Started(c, s) /\ ~EndsTransaction(c, t) => Started(c, Append(s, t))
         /\ StartsTransaction(c, t) => Started(c, Append(s, t))
<1> DEFINE n == Len(s)
           a == Append(s, t)
<1>1. /\ n \in Nat /\ Len(a) = n + 1 /\ a[n + 1] = t
      /\ \A i \in 1..n : a[i] = s[i]
  OBVIOUS
<1> HIDE DEF n, a
<1>2. \A i \in 1..Len(a) : i \in 1..n \/ i = n + 1
  BY <1>1
<1>3. NotEnded(c, s) /\ ~EndsTransaction(c, t) => NotEnded(c, a)
  BY <1>1, <1>2 DEF NotEnded, n
<1>4. ASSUME Started(c, s), ~EndsTransaction(c, t) PROVE Started(c, a)
  <2>1. PICK i \in 1..n : /\ StartsTransaction(c, s[i])
                          /\ \A j \in (i+1)..n : ~EndsTransaction(c, s[j])
    BY <1>4 DEF Started, n
  <2>2. i \in 1..Len(a) /\ StartsTransaction(c, a[i])
    BY <1>1, <2>1
  <2>3. \A j \in (i+1)..Len(a) : (j \in 1..n /\ j \in (i+1)..n) \/ j = n + 1
    BY <1>1, <2>1
  <2>4. \A j \in (i+1)..Len(a) : ~EndsTransaction(c, a[j])
    BY <1>1, <1>4, <2>1, <2>3
  <2>5. QED
    BY <2>2, <2>4 DEF Started
<1>5. ASSUME StartsTransaction(c, t) PROVE Started(c, a)
  <2>1. n + 1 \in 1..Len(a) /\ (n + 1 + 1)..Len(a) = {}
    BY <1>1
  <2>2. QED
    BY <1>1, <1>5, <2>1 DEF Started
<1>6. QED
  BY <1>3, <1>4, <1>5 DEF a

LEMMA ModeConsume ==
  ASSUME NEW c, NEW s \in Seq(Tokens), s # << >>
  PROVE  /\ NotEnded(c, s) => ~EndsTransaction(c, Head(s)) /\ NotEnded(c, Tail(s))
         /\ Started(c, s) =>
              Started(c, Tail(s)) \/ (StartsTransaction(c, Head(s)) /\ NotEnded(c, Tail(s)))
<1> DEFINE n == Len(s)
           z == Tail(s)
<1>1. /\ n \in Nat \ {0} /\ Len(z) = n - 1 /\ Head(s) = s[1]
      /\ \A i \in 1..Len(z) : z[i] = s[i + 1]
  BY SeqParts
<1> HIDE DEF n, z
<1>2. \A i \in 1..Len(z) : i + 1 \in 1..n /\ i + 1 \in 2..n
  BY <1>1
<1>3. NotEnded(c, s) => ~EndsTransaction(c, Head(s)) /\ NotEnded(c, z)
  <2>1. 1 \in 1..n
    BY <1>1
  <2>2. QED
    BY <1>1, <1>2, <2>1 DEF NotEnded, n
<1>4. ASSUME Started(c, s)
      PROVE  Started(c, z) \/ (StartsTransaction(c, Head(s)) /\ NotEnded(c, z))
  <2>1. PICK i \in 1..n : /\ StartsTransaction(c, s[i])
                          /\ \A j \in (i+1)..n : ~EndsTransaction(c, s[j])
    BY <1>4 DEF Started, n
  <2>2. CASE i = 1
    <3>1. \A j \in 1..Len(z) : ~EndsTransaction(c, z[j])
      BY <1>1, <1>2, <2>1, <2>2
    <3>2. QED
      BY <1>1, <2>1, <2>2, <3>1 DEF NotEnded
  <2>3. CASE i # 1
    <3>1. i - 1 \in 1..Len(z) /\ (i - 1) + 1 = i
      BY <1>1, <2>1, <2>3
    <3>2. StartsTransaction(c, z[i - 1])
      BY <1>1, <2>1, <3>1
    <3>3. \A j \in ((i - 1) + 1)..Len(z) : j \in 1..Len(z) /\ j + 1 \in (i + 1)..n
      BY <1>1, <2>1, <2>3
    <3>4. \A j \in ((i - 1) + 1)..Len(z) : ~EndsTransaction(c, z[j])
      BY <1>1, <2>1, <3>3
    <3>5. QED
      BY <3>1, <3>2, <3>4 DEF Started
  <2>4. QED
    BY <2>2, <2>3
<1>5. QED
  BY <1>3, <1>4 DEF z

LEMMA ModeRecv ==
  ASSUME NEW c, NEW s \in Seq(Tokens), NEW i \in 1..Len(s)
  PROVE  LET b == SubSeq(s, 1, i)
             r == SubSeq(s, i + 1, Len(s))
         IN  /\ NotEnded(c, s) => NotEnded(c, b) /\ NotEnded(c, r)
             /\ Started(c, s) => Started(c, r) \/ (NotEnded(c, r) /\ Started(c, b))
<1> DEFINE n == Len(s)
           b == SubSeq(s, 1, i)
           r == SubSeq(s, i + 1, Len(s))
<1>1. /\ n \in Nat /\ i \in 1..n /\ Len(b) = i /\ Len(r) = n - i
      /\ \A j \in 1..i : b[j] = s[j]
      /\ \A j \in 1..(n - i) : r[j] = s[i + j]
  BY SeqSplit
<1> HIDE DEF n, b, r
<1>2. \A j \in 1..(n - i) : i + j \in 1..n
  BY <1>1
<1>3. NotEnded(c, s) => NotEnded(c, b) /\ NotEnded(c, r)
  <2>1. \A j \in 1..i : j \in 1..n
    BY <1>1
  <2>2. QED
    BY <1>1, <1>2, <2>1 DEF NotEnded, n
<1>4. ASSUME Started(c, s) PROVE Started(c, r) \/ (NotEnded(c, r) /\ Started(c, b))
  <2>1. PICK k \in 1..n : /\ StartsTransaction(c, s[k])
                          /\ \A j \in (k+1)..n : ~EndsTransaction(c, s[j])
    BY <1>4 DEF Started, n
  <2>2. CASE k <= i
    <3>1. \A j \in 1..(n - i) : i + j \in (k+1)..n
      BY <1>1, <2>1, <2>2
    <3>2. NotEnded(c, r)
      BY <1>1, <2>1, <3>1 DEF NotEnded
    <3>3. k \in 1..Len(b) /\ \A j \in (k+1)..Len(b) : j \in 1..i /\ j \in (k+1)..n
      BY <1>1, <2>1, <2>2
    <3>4. Started(c, b)
      BY <1>1, <2>1, <3>3 DEF Started
    <3>5. QED
      BY <3>2, <3>4
  <2>3. CASE k > i
    <3>1. k - i \in 1..(n - i) /\ i + (k - i) = k
      BY <1>1, <2>1, <2>3
    <3>2. StartsTransaction(c, r[k - i])
      BY <1>1, <2>1, <3>1
    <3>3. \A j \in ((k - i) + 1)..(n - i) : j \in 1..(n - i) /\ i + j \in (k+1)..n
      BY <1>1, <2>1, <2>3
    <3>4. \A j \in ((k - i) + 1)..Len(r) : ~EndsTransaction(c, r[j])
      BY <1>1, <2>1, <3>3
    <3>5. QED
      BY <1>1, <3>1, <3>2, <3>4 DEF Started
  <2>4. QED
    BY <1>1, <2>1, <2>2, <2>3
<1>5. QED
  BY <1>3, <1>4 DEF b, r, n

\* Only the commands of a call and their place count.
LEMMA ModeSame ==
  ASSUME NEW c, NEW e, e.cmds = c.cmds, e.first = c.first, NEW s
  PROVE  Started(e, s) = Started(c, s) /\ NotEnded(e, s) = NotEnded(c, s)
BY DEF Started, NotEnded, StartsTransaction, EndsTransaction, CommandOf

\* Between calls nothing is in flight and nothing waits.
LEMMA IdleEmpty ==
  ASSUME TypeOK, InOrder, pc = "idle", ~owed
  PROVE  buffer_ = << >> /\ wire = << >> /\ reqs = << >>
<1>1. Leads(<<written + 1, 1>>, buffer_, wire, <<srv.req, srv.todo>>, conn, written)
  BY DEF InOrder, Stream, ClientAt
<1>2. /\ buffer_ \in Seq(Tokens) /\ wire \in Seq(Tokens) /\ written \in Nat
      /\ reqs \in Seq(RedisCommand)
  BY DEF TypeOK
<1>3. buffer_ = << >> /\ wire = << >> /\ <<srv.req, srv.todo>> = <<written + 1, 1>>
  BY <1>1, <1>2, LeadsNowhere
<1>4. srv.req = written + 1 /\ srv.req + Len(reqs) = written + 1
  BY <1>3 DEF InOrder, Pending
<1>5. Len(reqs) = 0
  BY <1>2, <1>4
<1>6. QED
  BY <1>2, <1>3, <1>5

LEMMA IdleEmptyNext ==
  ASSUME TypeOK', InOrder', pc' = "idle", ~owed'
  PROVE  buffer_' = << >> /\ wire' = << >>
<1>1. Leads(<<written' + 1, 1>>, buffer_', wire', <<srv'.req, srv'.todo>>, conn', written')
  BY DEF InOrder, Stream, ClientAt
<1>2. buffer_' \in Seq(Tokens) /\ wire' \in Seq(Tokens) /\ written' \in Nat
  BY DEF TypeOK
<1>3. QED
  BY <1>1, <1>2, LeadsNowhere

\* The first line in the buffer answers the command that is being read.
LEMMA ReadsCurrent ==
  ASSUME TypeOK, InOrder, pc = "read", buffer_ # << >>, ~owed
  PROVE  /\ buffer_ \in Seq(Tokens) /\ Head(buffer_) \in Tokens
         /\ CommandOf(call, Head(buffer_)) = Current
         /\ Head(buffer_).todo = call.todo
<1>1. Leads(ClientAt, buffer_, wire, <<srv.req, srv.todo>>, conn, written)
  BY DEF InOrder, Stream
<1>2. buffer_ \in Seq(Tokens) /\ call \in Calls
  BY DEF TypeOK
<1>3. Head(buffer_) = buffer_[1] /\ Head(buffer_) \in Tokens
  BY <1>2
<1>4. At(Head(buffer_)) = <<call.first + call.k - 1, call.todo>>
  BY <1>1, <1>3 DEF Leads, StartsAt, ClientAt
<1>5. Head(buffer_).req = call.first + call.k - 1 /\ Head(buffer_).todo = call.todo
  BY <1>4 DEF At
<1>6. Head(buffer_).req - call.first + 1 = call.k
  <2>1. call.first \in Nat /\ call.k \in Nat
    BY <1>2 DEF Calls
  <2>2. QED
    BY <1>5, <2>1
<1>7. QED
  BY <1>2, <1>3, <1>5, <1>6 DEF CommandOf, Current

\* What is left of the call when the server and its queue do not move.
LEMMA AnsweringKept ==
  ASSUME Answering, srv' = srv, reqs' = reqs, owed' = owed,
         pc # "idle", call'.cmds = call.cmds, call'.first = call.first
  PROVE  Answering'
BY DEF Answering

LEMMA AnsweringIdle ==
  ASSUME Answering, srv' = srv, reqs' = reqs, pc' = "idle"
  PROVE  Answering'
BY DEF Answering

\* A new connection.
LEMMA AwareFresh ==
  ASSUME srv' = FreshServer, reqs' = << >>
  PROVE  Answering' /\ Aware'
<1>1. srv'.body = "top" /\ srv'.todo = 1 /\ ~srv'.multi /\ 1..Len(reqs') = {}
  BY DEF FreshServer
<1>2. QED
  BY <1>1 DEF Answering, Aware

\* The server sends a line.
LEMMA AwareSends ==
  ASSUME TypeOK, InOrder, Answering, Aware, server_sends
  PROVE  Answering' /\ Aware'
<1>1. PICK line \in NextLines :
        /\ wire' = Append(wire, TokenFor(line))
        /\ reqs' = IF LeftAfter(line) > 0 THEN reqs ELSE Tail(reqs)
        /\ srv' = ServerAfter(line, Head(reqs).cmd)
  BY DEF server_sends
<1>2. /\ reqs # << >> /\ buffer_' = buffer_ /\ pc' = pc /\ call' = call /\ owed' = owed
      /\ transaction_mode_' = transaction_mode_
  BY DEF server_sends, client
<1> DEFINE cmd == Head(reqs).cmd
           t == TokenFor(line)
<1>3. /\ srv \in Servers /\ wire \in Seq(Tokens) /\ reqs \in Seq(RedisCommand) /\ conn \in Nat
      /\ call \in Calls
  BY DEF TypeOK
<1>4. line[1] \in Kinds /\ line[2] \in Int
  BY <1>3, LineType
<1>5. t \in Tokens
  BY <1>3, <1>4 DEF TokenFor, Tokens, Servers
<1>6. LeftAfter(line) \in Nat
  BY <1>3, <1>4, AnnouncedNat DEF LeftAfter, Servers
<1>7. /\ srv.body = "top" => srv'.multi = MultiAfter(cmd, line[1])
      /\ srv.body # "top" => srv'.multi = srv.multi
  BY <1>1 DEF ServerAfter
<1>8. /\ LeftAfter(line) > 0 =>
           srv'.req = srv.req /\ srv'.body = BodyOfReply(cmd) /\ reqs' = reqs
      /\ ~(LeftAfter(line) > 0) =>
           srv'.req = srv.req + 1 /\ srv'.body = "top" /\ srv'.todo = 1 /\ reqs' = Tail(reqs)
  BY <1>1 DEF ServerAfter
<1>9. BodyOfReply(cmd) # "top"
  BY DEF BodyOfReply
<1>10. srv.multi \in BOOLEAN /\ srv.req \in Nat /\ call.first \in Nat
  BY <1>3 DEF Servers, Calls
<1>11. ~(srv'.multi /\ cmd \in {"DISCARD", "EXEC"})
  <2>1. SUFFICES ASSUME cmd \in {"DISCARD", "EXEC"} PROVE ~srv'.multi
    OBVIOUS
  <2>2. MultiAfter(cmd, line[1]) = FALSE
    BY <2>1 DEF MultiAfter
  <2>3. CASE srv.body = "top"
    BY <1>7, <2>2, <2>3
  <2>4. CASE srv.body # "top"
    BY <1>7, <2>1, <2>4 DEF Answering
  <2>5. QED
    BY <2>3, <2>4
<1>12. srv'.body = "top" => srv'.todo = 1
  BY <1>8, <1>9
<1>13. srv'.body # "top" =>
         /\ reqs' # << >>
         /\ Head(reqs').cmd \in {"DISCARD", "EXEC"} => ~srv'.multi
  BY <1>2, <1>8, <1>11
<1>14. ASSUME pc' # "idle", ~owed'
       PROVE  \A i \in 1..Len(reqs') : reqs'[i] = call'.cmds[srv'.req - call'.first + i]
  <2>1. \A i \in 1..Len(reqs) : reqs[i] = call.cmds[srv.req - call.first + i]
    BY <1>2, <1>14 DEF Answering
  <2>2. CASE LeftAfter(line) > 0
    BY <1>2, <1>8, <2>1, <2>2
  <2>3. CASE ~(LeftAfter(line) > 0)
    <3>1. /\ Len(Tail(reqs)) = Len(reqs) - 1
          /\ \A i \in 1..Len(Tail(reqs)) : Tail(reqs)[i] = reqs[i + 1]
      BY <1>2, <1>3, SeqParts
    <3>2. \A i \in 1..Len(Tail(reqs)) :
            /\ i + 1 \in 1..Len(reqs)
            /\ srv.req - call.first + (i + 1) = (srv.req + 1) - call.first + i
      <4>1. Len(reqs) \in Nat
        BY <1>3
      <4>2. QED
        BY <1>10, <3>1, <4>1, SMTT(30)
    <3>3. QED
      BY <1>2, <1>8, <2>1, <2>3, <3>1, <3>2
  <2>4. QED
    BY <2>2, <2>3
<1>15. Answering'
  BY <1>12, <1>13, <1>14 DEF Answering
<1>16. ASSUME ~owed', srv'.multi
       PROVE  \/ Started(call, wire')
              \/ NotEnded(call, wire') /\ Started(call, buffer_)
              \/ NotEnded(call, wire') /\ NotEnded(call, buffer_) /\ transaction_mode_
  <2>1. pc # "idle"
    BY <1>2, <1>16, IdleEmpty
  <2>2. CommandOf(call, t) = cmd
    <3>1. Head(reqs) = reqs[1] /\ 1 \in 1..Len(reqs)
      BY <1>2, <1>3
    <3>2. reqs[1] = call.cmds[srv.req - call.first + 1]
      BY <1>2, <1>16, <2>1, <3>1 DEF Answering
    <3>3. t.req = srv.req
      BY DEF TokenFor
    <3>4. QED
      BY <3>1, <3>2, <3>3 DEF CommandOf
  <2>3. ~EndsTransaction(call, t)
    BY <1>11, <1>16, <2>2 DEF EndsTransaction
  <2>4. CASE srv.multi
    <3>1. \/ Started(call, wire)
          \/ NotEnded(call, wire) /\ Started(call, buffer_)
          \/ NotEnded(call, wire) /\ NotEnded(call, buffer_) /\ transaction_mode_
      BY <1>2, <1>16, <2>4 DEF Aware
    <3> HIDE DEF t
    <3>2. /\ NotEnded(call, wire) => NotEnded(call, wire')
          /\ Started(call, wire) => Started(call, wire')
      BY <1>1, <1>3, <1>5, <2>3, ModeAppend DEF t
    <3>3. QED
      BY <3>1, <3>2
  <2>5. CASE ~srv.multi
    <3>1. srv.body = "top" /\ cmd = "MULTI" /\ line[1] = "+"
      BY <1>7, <1>16, <2>5 DEF MultiAfter
    <3>2. srv.todo = 1
      BY <3>1 DEF Answering
    <3>3. t.kind = "+" /\ t.todo = 1
      BY <3>1, <3>2 DEF TokenFor
    <3>4. StartsTransaction(call, t)
      BY <2>2, <3>1, <3>3 DEF StartsTransaction
    <3> HIDE DEF t
    <3>5. Started(call, wire')
      BY <1>1, <1>3, <1>5, <3>4, ModeAppend DEF t
    <3>6. QED
      BY <3>5
  <2>6. QED
    BY <1>10, <2>4, <2>5
<1>17. Aware'
  BY <1>2, <1>16 DEF Aware
<1>18. QED
  BY <1>15, <1>17

\* The client reads a line.
LEMMA AwareReads ==
  ASSUME TypeOK, InOrder, Aware, pc = "read", buffer_ # << >>, ~owed, srv.multi,
         NEW mode,
         \/ /\ mode = ModeAfter(Current, transaction_mode_)
         \/ /\ mode = transaction_mode_
            /\ call.todo - 1 + Announced(Head(buffer_).kind, Head(buffer_).n) > 0
               \/ Head(buffer_).kind = "-"
  PROVE  \/ Started(call, wire)
         \/ NotEnded(call, wire) /\ Started(call, Tail(buffer_))
         \/ NotEnded(call, wire) /\ NotEnded(call, Tail(buffer_)) /\ mode
<1> DEFINE t == Head(buffer_)
<1>1. /\ buffer_ \in Seq(Tokens) /\ t \in Tokens
      /\ CommandOf(call, t) = Current /\ t.todo = call.todo
  BY ReadsCurrent
<1>2. /\ NotEnded(call, buffer_) => ~EndsTransaction(call, t) /\ NotEnded(call, Tail(buffer_))
      /\ Started(call, buffer_) =>
           Started(call, Tail(buffer_)) \/ (StartsTransaction(call, t) /\ NotEnded(call, Tail(buffer_)))
  BY <1>1, ModeConsume
<1>3. \/ Started(call, wire)
      \/ NotEnded(call, wire) /\ Started(call, buffer_)
      \/ NotEnded(call, wire) /\ NotEnded(call, buffer_) /\ transaction_mode_
  BY DEF Aware
<1>4. ASSUME StartsTransaction(call, t) PROVE mode
  <2>1. Current = "MULTI" /\ t.kind = "+" /\ t.todo = 1
    BY <1>1, <1>4 DEF StartsTransaction
  <2>2. Announced(t.kind, t.n) = 0
    BY <2>1 DEF Announced
  <2>3. mode = ModeAfter(Current, transaction_mode_)
    BY <1>1, <2>1, <2>2
  <2>4. QED
    BY <2>1, <2>3 DEF ModeAfter
<1>5. ASSUME ~EndsTransaction(call, t), transaction_mode_ PROVE mode
  <2>1. Current \notin {"DISCARD", "EXEC"}
    BY <1>1, <1>5 DEF EndsTransaction
  <2>2. ModeAfter(Current, transaction_mode_) = TRUE
    BY <1>5, <2>1 DEF ModeAfter, TypeOK
  <2>3. QED
    BY <1>5, <2>2
<1>6. QED
  BY <1>2, <1>3, <1>4, <1>5

\* A server that queues has a client that knows, or is about to read it.
LEMMA AwareNext ==
  ASSUME TypeOK, InOrder, TypeOK', InOrder', Answering, Aware, [Next]_vars
  PROVE  Answering' /\ Aware'
<1>1. ASSUME ProtocolClose \/ ConnectSucceeds PROVE Answering' /\ Aware'
  BY <1>1, AwareFresh DEF ProtocolClose, DropConnection, ConnectSucceeds
<1>2. ASSUME FailAndClose PROVE Answering' /\ Aware'
  BY <1>1, <1>2 DEF FailAndClose
<1>3. ASSUME UNCHANGED <<buffer_, wire, srv, reqs, owed, transaction_mode_>>, pc # "idle",
             call'.cmds = call.cmds, call'.first = call.first
      PROVE  Answering' /\ Aware'
  <2>1. Answering'
    BY <1>3, AnsweringKept
  <2>2. /\ Started(call', wire) = Started(call, wire) /\ NotEnded(call', wire) = NotEnded(call, wire)
        /\ Started(call', buffer_) = Started(call, buffer_)
        /\ NotEnded(call', buffer_) = NotEnded(call, buffer_)
    BY <1>3, ModeSame
  <2>3. QED
    BY <1>3, <2>1, <2>2 DEF Aware
<1>4. ASSUME UNCHANGED <<buffer_, wire, srv, reqs, owed, transaction_mode_, call, pc>>
      PROVE  Answering' /\ Aware'
  BY <1>4 DEF Answering, Aware
<1>5. ASSUME UNCHANGED <<buffer_, wire, srv, reqs, transaction_mode_>>, pc' = "idle",
             ~owed' => ~owed
      PROVE  Answering' /\ Aware'
  <2>1. Answering'
    BY <1>5, AnsweringIdle
  <2>2. ASSUME ~owed', srv.multi PROVE transaction_mode_' /\ buffer_' = << >> /\ wire' = << >>
    <3>1. buffer_' = << >> /\ wire' = << >>
      BY <1>5, <2>2, IdleEmptyNext
    <3>2. ~Started(call, wire) /\ ~Started(call, buffer_)
      BY <1>5, <3>1, ModeEmpty
    <3>3. QED
      BY <1>5, <2>2, <3>1, <3>2 DEF Aware
  <2>3. NotEnded(call', << >>)
    BY ModeEmpty
  <2>4. Aware'
    BY <1>5, <2>2, <2>3 DEF Aware
  <2>5. QED
    BY <2>1, <2>4
<1>6. ASSUME NEW op, NEW cmds, Begin(op, cmds) PROVE Answering' /\ Aware'
  <2>1. /\ UNCHANGED <<buffer_, wire, srv, reqs, owed, transaction_mode_>> /\ pc = "idle"
    BY <1>6 DEF Begin, client, network
  <2>2. ASSUME ~owed PROVE buffer_ = << >> /\ wire = << >> /\ reqs = << >>
    BY <2>1, <2>2, IdleEmpty
  <2>3. ~owed => 1..Len(reqs') = {}
    BY <2>1, <2>2
  <2>4. Answering'
    BY <2>1, <2>3 DEF Answering
  <2>5. NotEnded(call', << >>) /\ ~Started(call, << >>)
    BY ModeEmpty
  <2>6. Aware'
    BY <2>1, <2>2, <2>5 DEF Aware
  <2>7. QED
    BY <2>4, <2>6
<1>7. CASE Application
  <2>1. CASE close \/ connect \/ assure_connect
    BY <1>1, <2>1 DEF close, connect, assure_connect
  <2>2. CASE set_blocking_mode
    BY <1>4, <2>2 DEF set_blocking_mode, network
  <2>3. CASE exec_command \/ exec_commandv \/ exec_pipeline
    BY <1>6, <2>3 DEF exec_command, exec_commandv, exec_pipeline
  <2>4. QED
    BY <1>7, <2>1, <2>2, <2>3 DEF Application
<1>8. CASE InsideCall
  <2>1. CASE write_fails \/ pipeline_broken \/ recv_fails \/ parse_integer_fails \/ reply_refused
    BY <1>2, <2>1 DEF write_fails, pipeline_broken, recv_fails, parse_integer_fails, reply_refused
  <2>2. CASE write_refused
    <3>1. /\ UNCHANGED <<buffer_, wire, srv, reqs, transaction_mode_>> /\ pc' = "idle"
          /\ owed' = (owed \/ (fd_ /\ call.k > 1))
      BY <2>2 DEF write_refused, Return, client, network
    <3>2. QED
      BY <1>5, <3>1
  <2>3. CASE write_command
    <3>1. /\ UNCHANGED <<buffer_, wire, srv, owed, transaction_mode_, call>> /\ pc = "write"
          /\ reqs' = Append(reqs, call.cmds[call.k])
      BY <2>3 DEF write_command, client
    <3>2. Aware'
      BY <3>1 DEF Aware
    <3>3. /\ reqs \in Seq(RedisCommand) /\ call \in Calls /\ srv \in Servers /\ written \in Nat
          /\ call.k \in 1..Len(call.cmds)
      BY <3>1 DEF TypeOK
    <3>4. call.cmds[call.k] \in RedisCommand
      BY <3>3 DEF Calls
    <3> DEFINE q == call.cmds[call.k]
    <3>5. /\ Len(reqs') = Len(reqs) + 1 /\ reqs'[Len(reqs) + 1] = q /\ reqs' # << >>
          /\ \A i \in 1..Len(reqs) : reqs'[i] = reqs[i]
          /\ reqs # << >> => Head(reqs') = Head(reqs)
      BY <3>1, <3>3, <3>4
    <3>6. srv.req - call.first + (Len(reqs) + 1) = call.k
      <4>1. written = call.first + call.k - 2 /\ srv.req + Len(reqs) = written + 1
        BY <3>1 DEF InOrder, Progress, Pending
      <4>2. call.first \in Nat /\ call.k \in Nat /\ srv.req \in Nat /\ Len(reqs) \in Nat
        BY <3>3 DEF Calls, Servers
      <4>3. \A f, k, r, n, w \in Nat : w = f + k - 2 /\ r + n = w + 1 => r - f + (n + 1) = k
        OBVIOUS
      <4>4. QED
        BY <3>3, <4>1, <4>2, <4>3, SMTT(30)
    <3>7. ~owed => \A i \in 1..Len(reqs') : reqs'[i] = call.cmds[srv.req - call.first + i]
      <4>1. Len(reqs) \in Nat
        BY <3>3
      <4>2. \A i \in 1..Len(reqs') : i \in 1..Len(reqs) \/ i = Len(reqs) + 1
        BY <3>5, <4>1
      <4>3. QED
        BY <3>1, <3>5, <3>6, <4>2 DEF Answering
    <3>8. srv.body # "top" =>
            /\ reqs' # << >>
            /\ Head(reqs').cmd \in {"DISCARD", "EXEC"} => ~srv.multi
      BY <3>5 DEF Answering
    <3>9. Answering'
      BY <3>1, <3>7, <3>8 DEF Answering
    <3>10. QED
      BY <3>2, <3>9
  <2>4. CASE pipeline_goes_on
    <3>1. /\ UNCHANGED <<buffer_, wire, srv, reqs, owed, transaction_mode_>> /\ pc # "idle"
      BY <2>4 DEF pipeline_goes_on, client, network
    <3>2. \/ \E k \in Int : call' = [call EXCEPT !.k = k]
          \/ pc' = "idle"
      <4>1. call.k + 1 \in Int
        BY DEF TypeOK, Calls
      <4>2. QED
        BY <2>4, <4>1 DEF pipeline_goes_on, Return
    <3>3. CASE \E k \in Int : call' = [call EXCEPT !.k = k]
      <4>1. call'.cmds = call.cmds /\ call'.first = call.first
        BY <3>3 DEF TypeOK, Calls
      <4>2. QED
        BY <1>3, <3>1, <4>1
    <3>4. CASE pc' = "idle"
      BY <1>5, <3>1, <3>4
    <3>5. QED
      BY <3>2, <3>3, <3>4
  <2>5. CASE recv
    <3>1. PICK i \in 1..Len(wire) : /\ buffer_' = SubSeq(wire, 1, i)
                                    /\ wire' = SubSeq(wire, i + 1, Len(wire))
      BY <2>5 DEF recv
    <3>2. /\ buffer_ = << >> /\ pc = "read"
          /\ UNCHANGED <<srv, reqs, owed, transaction_mode_, call, pc>>
      BY <2>5 DEF recv
    <3>3. Answering'
      BY <3>2 DEF Answering
    <3>4. /\ NotEnded(call, wire) => NotEnded(call, buffer_') /\ NotEnded(call, wire')
          /\ Started(call, wire) =>
               Started(call, wire') \/ (NotEnded(call, wire') /\ Started(call, buffer_'))
      BY <3>1, ModeRecv DEF TypeOK
    <3>5. ~Started(call, buffer_)
      BY <3>2, ModeEmpty
    <3>6. Aware'
      BY <3>2, <3>4, <3>5 DEF Aware
    <3>7. QED
      BY <3>3, <3>6
  <2>6. ASSUME pc = "read", buffer_ # << >>, UNCHANGED <<wire, srv, reqs>>,
               buffer_' = Tail(buffer_), ~owed' => ~owed,
               pc' = "idle" \/ (/\ call'.cmds = call.cmds /\ call'.first = call.first
                                /\ owed' = owed),
               \/ transaction_mode_' = ModeAfter(Current, transaction_mode_)
               \/ /\ transaction_mode_' = transaction_mode_
                  /\ call.todo - 1 + Announced(Head(buffer_).kind, Head(buffer_).n) > 0
                     \/ Head(buffer_).kind = "-"
        PROVE  Answering' /\ Aware'
    <3>1. Answering'
      BY <2>6, AnsweringIdle, AnsweringKept
    <3>2. ASSUME ~owed', srv.multi
          PROVE  \/ Started(call, wire)
                 \/ NotEnded(call, wire) /\ Started(call, Tail(buffer_))
                 \/ NotEnded(call, wire) /\ NotEnded(call, Tail(buffer_)) /\ transaction_mode_'
      BY <2>6, <3>2, AwareReads
    <3>3. CASE pc' = "idle"
      <4>1. ASSUME ~owed' PROVE wire = << >> /\ Tail(buffer_) = << >>
        BY <2>6, <3>3, <4>1, IdleEmptyNext
      <4>2. /\ NotEnded(call', << >>) /\ ~Started(call, << >>)
        BY ModeEmpty
      <4>3. QED
        BY <2>6, <3>1, <3>2, <4>1, <4>2 DEF Aware
    <3>4. CASE call'.cmds = call.cmds /\ call'.first = call.first
      <4>1. /\ Started(call', wire) = Started(call, wire)
            /\ NotEnded(call', wire) = NotEnded(call, wire)
            /\ Started(call', Tail(buffer_)) = Started(call, Tail(buffer_))
            /\ NotEnded(call', Tail(buffer_)) = NotEnded(call, Tail(buffer_))
        BY <3>4, ModeSame
      <4>2. QED
        BY <2>6, <3>1, <3>2, <4>1 DEF Aware
    <3>5. QED
      BY <2>6, <3>3, <3>4
  <2>7. CASE reply_error
    <3>1. /\ pc = "read" /\ buffer_ # << >> /\ UNCHANGED <<wire, srv, reqs, transaction_mode_>>
          /\ buffer_' = Tail(buffer_) /\ pc' = "idle" /\ Head(buffer_).kind = "-"
      BY <2>7 DEF reply_error, IsSoftError, Return, network
    <3>2. ~owed' => ~owed
      BY <2>7 DEF reply_error
    <3>3. QED
      BY <2>6, <3>1, <3>2
  <2>8. CASE read_more
    <3>1. /\ pc = "read" /\ buffer_ # << >>
          /\ UNCHANGED <<wire, srv, reqs, owed, transaction_mode_>>
          /\ buffer_' = Tail(buffer_)
          /\ call.todo - 1 + Announced(Head(buffer_).kind, Head(buffer_).n) > 0
      BY <2>8 DEF read_more, network
    <3>2. \E x \in Int, b \in Bodies : call' = [call EXCEPT !.todo = x, !.body = b]
      <4>1. Head(buffer_) \in Tokens /\ call \in Calls
        BY <3>1, SeqParts DEF TypeOK
      <4>2. call.todo - 1 + Announced(Head(buffer_).kind, Head(buffer_).n) \in Int
        BY <4>1, AnnouncedNat DEF Tokens, Calls
      <4>3. BodyAfter(Head(buffer_)) \in Bodies
        BY <4>1 DEF BodyAfter, Bodies, Calls
      <4>4. QED
        BY <2>8, <4>2, <4>3 DEF read_more
    <3>3. call'.cmds = call.cmds /\ call'.first = call.first
      <4>1. call \in Calls
        BY DEF TypeOK
      <4>2. PICK x \in Int, b \in Bodies : call' = [call EXCEPT !.todo = x, !.body = b]
        BY <3>2
      <4>3. QED
        BY <4>1, <4>2 DEF Calls
    <3>4. QED
      BY <2>6, <3>1, <3>3
  <2>9. CASE read_last
    <3>1. /\ pc = "read" /\ buffer_ # << >> /\ UNCHANGED <<wire, srv, reqs, owed>>
          /\ buffer_' = Tail(buffer_)
          /\ transaction_mode_' = ModeAfter(Current, transaction_mode_)
      BY <2>9 DEF read_last, network
    <3>2. pc' = "idle" \/ call' = [call EXCEPT !.todo = 1, !.body = "top"]
      BY <2>9 DEF read_last, Return
    <3>3. pc' = "idle" \/ (call'.cmds = call.cmds /\ call'.first = call.first)
      <4>1. call \in Calls
        BY DEF TypeOK
      <4>2. QED
        BY <3>2, <4>1 DEF Calls
    <3>4. QED
      BY <2>6, <3>1, <3>3
  <2>10. QED
    BY <1>8, <2>1, <2>2, <2>3, <2>4, <2>5, <2>7, <2>8, <2>9 DEF InsideCall
<1>9. CASE Environment
  <2>1. CASE server_sends
    BY <2>1, AwareSends
  <2>2. CASE server_closes
    BY <1>4, <2>2 DEF server_closes, client
  <2>3. QED
    BY <1>9, <2>1, <2>2 DEF Environment
<1>10. CASE UNCHANGED vars
  BY <1>4, <1>10 DEF vars
<1>11. QED
  BY <1>7, <1>8, <1>9, <1>10 DEF Next

\* A server that is queueing the commands of an open connection has a client
\* that is in transaction mode: +QUEUED never passes for the success of a SET.
THEOREM NeverUnaware == Spec => []NeverQueuedUnaware
<1>1. Init => Answering /\ Aware
  <2>1. FreshServer.body = "top" /\ FreshServer.todo = 1 /\ ~FreshServer.multi
    BY DEF FreshServer
  <2>2. QED
    BY <2>1 DEF Init, Answering, Aware
<1>2. TypeOK /\ InOrder /\ TypeOK' /\ InOrder' /\ Answering /\ Aware /\ [Next]_vars
        => Answering' /\ Aware'
  BY AwareNext
<1>3. TypeOK /\ InOrder /\ Aware => NeverQueuedUnaware
  <2>1. SUFFICES ASSUME TypeOK, InOrder, Aware, pc = "idle", ~owed, srv.multi
                 PROVE  transaction_mode_
    BY DEF NeverQueuedUnaware
  <2>2. ~Started(call, wire) /\ ~Started(call, buffer_)
    BY <2>1, IdleEmpty, ModeEmpty
  <2>3. QED
    BY <2>1, <2>2 DEF Aware
<1>4. QED
  BY <1>1, <1>2, <1>3, TypeCorrect, StaysInOrder, PTL DEF Spec

=============================================================================
