--------------------------- MODULE RedisProtocol ---------------------------
(***************************************************************************)
(* The request/reply engine of the library: class RedisProtocol            *)
(* (redis_protocol.cpp) on top of one TcpClient (tcp_client.cpp), against   *)
(* a redis-server at the other end of a TCP connection.                    *)
(*                                                                         *)
(* One thread owns the object, so the client is a sequential program; what *)
(* runs concurrently is the server, the network and the clock.  A call is  *)
(* cut into one step per write_command and one per line read, because a    *)
(* timeout, a disconnection or an error reply can strike between any two.  *)
(*                                                                         *)
(* Bytes are abstracted to TOKENS, one per reply line (with the body of a  *)
(* bulk attached to its "$n" line).  Every token carries, as ghost fields, *)
(* the connection and the request it answers and the number of lines its   *)
(* reply still owed when it was sent; the client never looks at those.     *)
(***************************************************************************)
EXTENDS Integers, Sequences

CONSTANTS
  Requests,     \* the commands passed to exec_command(v)
  Pipelines,    \* the command vectors it passes to exec_pipeline
  MaxSent,      \* bound: commands written on one connection
  MaxLines,     \* bound: lines in one reply of the server
  Epochs        \* ghost: connections are numbered modulo Epochs

(***************************************************************************)
(* s_command_map, one command for every reply type and the three           *)
(* transaction commands.                                                   *)
(***************************************************************************)
Commands == {"NOOP", "SET", "DEL", "GET", "MGET", "EVAL",
             "MULTI", "DISCARD", "EXEC"}

ReplyTypes == {"kNone", "kStatus", "kInteger", "kBulk", "kMultiBulk",
               "kSpecialMultiBulk", "kDepends"}

reply_type(cmd) ==
  CASE cmd \in {"SET", "MULTI", "DISCARD"} -> "kStatus"
    [] cmd = "DEL"  -> "kInteger"
    [] cmd = "GET"  -> "kBulk"
    [] cmd = "MGET" -> "kMultiBulk"
    [] cmd = "EXEC" -> "kSpecialMultiBulk"
    [] cmd = "EVAL" -> "kDepends"
    [] OTHER        -> "kNone"

ARGC_NO_CHECKING == -65535

argc(cmd) ==
  CASE cmd \in {"MULTI", "DISCARD", "EXEC"} -> 0
    [] cmd = "GET"             -> 1
    [] cmd = "SET"             -> 2
    [] cmd \in {"DEL", "MGET"} -> -1
    [] cmd = "EVAL"            -> -2
    [] OTHER                   -> ARGC_NO_CHECKING

\* A RedisCommand: the command and the number of arguments given with it.
RedisCommand == [cmd : Commands, argc : Nat]

ASSUME ConstantsAssumption ==
  /\ Requests \subseteq RedisCommand
  /\ Pipelines \subseteq Seq(RedisCommand)
  /\ \A p \in Pipelines : p # << >>
  /\ MaxSent \in Nat
  /\ MaxLines \in Nat
  /\ Epochs \in Nat \ {0}

\* The kinds of reply line, by their first byte.
Kinds == {"+", "-", ":", "$", "*"}

(***************************************************************************)
(* A token.  n is the length of a "$" bulk (-1 nil, 0 empty, 1 longer) or  *)
(* the number of elements of a "*" reply (-1 nil), 0 otherwise.            *)
(***************************************************************************)
Tokens == [kind : Kinds, n : Int, conn : Nat, req : Nat, todo : Nat]

\* The number of further lines that a line announces.
Announced(kind, n) == IF kind = "*" /\ n > 0 THEN n ELSE 0

VARIABLES
  fd_,               \* TcpClient::Impl::fd_ is not -1
  buffer_,           \* TcpClientBuffer: tokens received and not consumed
  blocking_mode_,
  transaction_mode_,
  pc,                \* which step of a call comes next, or "idle"
  call,              \* the call in progress, NoCall between calls
  ret,               \* what the last call returned
  owed,              \* ghost: a call returned leaving replies unread
  conn,              \* ghost: number of the current connection
  written,           \* ghost: commands written on this connection
  reqs,              \* external: requests the server has not answered
  wire,              \* external: reply tokens on their way to the client
  peer,              \* external: the server's end is still connected
  srv                \* external: the server's view of this connection

client == <<fd_, buffer_, blocking_mode_, transaction_mode_>>
network == <<conn, written, reqs, wire, peer, srv>>
vars == <<fd_, buffer_, blocking_mode_, transaction_mode_, pc, call, ret,
          owed, conn, written, reqs, wire, peer, srv>>

(***************************************************************************)
(* A call: its kind, its commands, the position that its first command     *)
(* takes among the connection's requests, the index k of the command being *)
(* written or read, which reader is active (the first line of a reply,     *)
(* read_multi_bulk_2's loop or the special multi-bulk's recursion) and the *)
(* number of lines of the current reply that it still has to read.         *)
(***************************************************************************)
Ops == {"none", "exec", "execv", "pipeline"}
Bodies == {"top", "mbulk", "special"}

\* write_command, exec_pipeline's is_open() after it, the reading of one line
\* of a reply, exec_pipeline's is_open() after the last line.
Steps == {"idle", "write", "write_check", "read", "read_check"}

Calls == [op : Ops, cmds : Seq(RedisCommand), first : Nat, k : Nat,
          body : Bodies, todo : Int]

NoCall == [op |-> "none", cmds |-> << >>, first |-> 1, k |-> 1,
           body |-> "top", todo |-> 1]

Servers == [lines : Nat, req : Nat, todo : Nat \ {0}, body : Bodies,
            multi : BOOLEAN, queued : Nat]

FreshServer == [lines |-> 0, req |-> 1, todo |-> 1, body |-> "top",
                multi |-> FALSE, queued |-> 0]

TypeOK ==
  /\ fd_ \in BOOLEAN
  /\ buffer_ \in Seq(Tokens)
  /\ blocking_mode_ \in BOOLEAN
  /\ transaction_mode_ \in BOOLEAN
  /\ pc \in Steps
  /\ call \in Calls
  /\ pc # "idle" => call.k \in 1..Len(call.cmds)
  /\ ret \in {"none", "true", "false"}
  /\ owed \in BOOLEAN
  /\ conn \in Nat
  /\ written \in Nat
  /\ reqs \in Seq(RedisCommand)
  /\ wire \in Seq(Tokens)
  /\ peer \in BOOLEAN
  /\ srv \in Servers

Init ==
  /\ fd_ = FALSE
  /\ buffer_ = << >>
  /\ blocking_mode_ = FALSE
  /\ transaction_mode_ = FALSE
  /\ pc = "idle"
  /\ call = NoCall
  /\ ret = "none"
  /\ owed = FALSE
  /\ conn = 0
  /\ written = 0
  /\ reqs = << >>
  /\ wire = << >>
  /\ peer = FALSE
  /\ srv = FreshServer

-----------------------------------------------------------------------------
(***************************************************************************)
(* Closing, connecting.                                                    *)
(***************************************************************************)

\* The socket goes away together with everything in flight on it.
DropConnection ==
  /\ written' = 0
  /\ reqs' = << >>
  /\ wire' = << >>
  /\ peer' = FALSE
  /\ srv' = FreshServer
  /\ owed' = FALSE
  /\ UNCHANGED conn

tcp_close == fd_' = FALSE /\ buffer_' = << >>

\* Mutant of ProtocolClose: close() forgets to leave the transaction.
CloseKeepsTransaction ==
  /\ tcp_close
  /\ blocking_mode_' = FALSE
  /\ UNCHANGED transaction_mode_
  /\ DropConnection

ProtocolClose ==
  /\ tcp_close
  /\ blocking_mode_' = FALSE
  /\ transaction_mode_' = FALSE
  /\ DropConnection

Return(value) == pc' = "idle" /\ call' = NoCall /\ ret' = value

\* Every hard failure of a call: close(), set error_, return false.
FailAndClose ==
  /\ ProtocolClose
  /\ Return("false")

\* is_open() may answer false: there is no descriptor, or the last check is
\* more than kCheckOpenInterval seconds old and the peek of is_open_slow
\* finds that the server is gone.  It may also answer true in the second
\* case, when the last check is recent.
MayLookClosed == ~fd_ \/ ~peer

close ==
  /\ pc = "idle"
  /\ ProtocolClose
  /\ ret' = "none"
  /\ UNCHANGED <<pc, call>>

\* Mutant of ConnectSucceeds: TcpClient::connect without its close().
ConnectKeepsBuffer ==
  /\ fd_' = TRUE
  /\ conn' = (conn + 1) % Epochs
  /\ written' = 0
  /\ reqs' = << >>
  /\ wire' = << >>
  /\ peer' = TRUE
  /\ srv' = FreshServer
  /\ owed' = FALSE
  /\ UNCHANGED <<buffer_, blocking_mode_, transaction_mode_>>

\* connect() to a live server.  TcpClient::connect closes the old socket
\* and its buffer first; the two modes are left as they are.
ConnectSucceeds ==
  /\ fd_' = TRUE
  /\ buffer_' = << >>
  /\ conn' = (conn + 1) % Epochs
  /\ written' = 0
  /\ reqs' = << >>
  /\ wire' = << >>
  /\ peer' = TRUE
  /\ srv' = FreshServer
  /\ owed' = FALSE
  /\ UNCHANGED <<blocking_mode_, transaction_mode_>>

connect ==
  /\ pc = "idle"
  /\ ConnectSucceeds \/ ProtocolClose
  /\ ret' = "none"
  /\ UNCHANGED <<pc, call>>

\* When is_open() answers true nothing changes and that call is a stutter.
assure_connect ==
  /\ pc = "idle"
  /\ MayLookClosed
  /\ ConnectSucceeds \/ ProtocolClose
  /\ ret' = "none"
  /\ UNCHANGED <<pc, call>>

set_blocking_mode ==
  /\ pc = "idle"
  /\ blocking_mode_' = ~blocking_mode_
  /\ ret' = "none"
  /\ UNCHANGED <<fd_, buffer_, transaction_mode_, pc, call, owed, network>>

-----------------------------------------------------------------------------
(***************************************************************************)
(* Starting a call and writing its commands.                               *)
(***************************************************************************)

Begin(op, cmds) ==
  /\ pc = "idle"
  /\ written + Len(cmds) <= MaxSent
  /\ pc' = "write"
  /\ call' = [op |-> op, cmds |-> cmds, first |-> written + 1, k |-> 1,
              body |-> "top", todo |-> 1]
  /\ ret' = "none"
  /\ UNCHANGED <<client, owed, network>>

exec_command == \E q \in Requests : Begin("exec", <<q>>)

exec_commandv == \E q \in Requests : Begin("execv", <<q>>)

exec_pipeline == \E qs \in Pipelines : Begin("pipeline", qs)

\* check_argc: an exact number, a minimum (negative), or no check.
check_argc(q) ==
  LET expected == argc(q.cmd)
  IN  \/ expected = ARGC_NO_CHECKING
      \/ expected >= 0 /\ q.argc = expected
      \/ expected < 0 /\ q.argc >= -expected

\* write_commandv also refuses a command name that it does not know.
Accepted(q) ==
  /\ check_argc(q)
  /\ call.op = "execv" => q.cmd # "NOOP"

\* The soft refusal of write_command(v): nothing is written, nothing is
\* closed.  In a pipeline the commands before it have been written.
write_refused ==
  /\ pc = "write"
  /\ ~Accepted(call.cmds[call.k])
  /\ owed' = (owed \/ (fd_ /\ call.k > 1))
  /\ Return("false")
  /\ UNCHANGED <<client, network>>

\* timed_writen fails: no descriptor, a timeout, a reset connection.
write_fails ==
  /\ pc = "write"
  /\ Accepted(call.cmds[call.k])
  /\ FailAndClose

\* The bytes are in the socket.
write_command ==
  /\ pc = "write"
  /\ Accepted(call.cmds[call.k])
  /\ fd_
  /\ written' = written + 1
  /\ reqs' = Append(reqs, call.cmds[call.k])
  /\ pc' = IF call.op = "pipeline" THEN "write_check" ELSE "read"
  /\ UNCHANGED <<client, call, ret, owed, conn, wire, peer, srv>>

\* Mutant of MoreCommands: i<=size in the loop.
OneCommandTooMany == call.k <= Len(call.cmds)

\* The condition i<size of the two loops, for the next i.
MoreCommands == call.k < Len(call.cmds)

\* exec_pipeline's check between two operations: it goes on with the next
\* write, with the first read, with the next read, or returns ...
pipeline_goes_on ==
  /\ pc \in {"write_check", "read_check"}
  /\ fd_
  /\ \/ /\ MoreCommands
        /\ pc' = IF pc = "write_check" THEN "write" ELSE "read"
        /\ call' = [call EXCEPT !.k = @ + 1]
        /\ UNCHANGED ret
     \/ /\ ~MoreCommands
        /\ pc = "write_check"
        /\ pc' = "read"
        /\ call' = [call EXCEPT !.k = 1]
        /\ UNCHANGED ret
     \/ /\ ~MoreCommands
        /\ pc = "read_check"
        /\ Return("true")
  /\ UNCHANGED <<client, owed, network>>

\* ... or finds the connection broken.
pipeline_broken ==
  /\ pc \in {"write_check", "read_check"}
  /\ MayLookClosed
  /\ FailAndClose

-----------------------------------------------------------------------------
(***************************************************************************)
(* Reading replies.                                                        *)
(***************************************************************************)

Current == call.cmds[call.k].cmd

\* The reply type that __read_reply expects; in transaction mode every
\* command but three must answer +QUEUED.
ExpectedType ==
  IF transaction_mode_ /\ Current \notin {"MULTI", "DISCARD", "EXEC"}
    THEN "kStatus"
    ELSE reply_type(Current)

TypeChecked == reply_type(Current) # "kDepends"

TypeMatches(kind) ==
  \/ ~TypeChecked
  \/ kind = "+" /\ ExpectedType = "kStatus"
  \/ kind = ":" /\ ExpectedType = "kInteger"
  \/ kind = "$" /\ ExpectedType = "kBulk"
  \/ kind = "*" /\ ExpectedType \in {"kMultiBulk", "kSpecialMultiBulk"}

\* read_bulk_2 takes a nil or a non-empty bulk, nothing else.
BulkAccepted(t) == t.n = -1 \/ t.n > 0

\* "-" as a reply, or inside a special multi-bulk, is a soft error.
IsSoftError(t) == t.kind = "-" /\ call.body # "mbulk"

Acceptable(t) ==
  /\ t.kind # "-"
  /\ call.body = "top" => TypeMatches(t.kind)
  /\ call.body = "mbulk" => t.kind = "$"
  /\ t.kind = "$" => BulkAccepted(t)

\* timed_read puts some of what has arrived into the empty buffer.
recv ==
  /\ pc = "read"
  /\ buffer_ = << >>
  /\ \E i \in 1..Len(wire) :
       /\ buffer_' = SubSeq(wire, 1, i)
       /\ wire' = SubSeq(wire, i + 1, Len(wire))
  /\ UNCHANGED <<fd_, blocking_mode_, transaction_mode_, pc, call, ret, owed,
                 conn, written, reqs, peer, srv>>

\* Mutants of recv_fails: a timeout that keeps the connection; a poll() that
\* never times out.
recv_fails_softly ==
  /\ pc = "read"
  /\ buffer_ = << >>
  /\ ~blocking_mode_ \/ ~peer
  /\ Return("false")
  /\ UNCHANGED <<client, owed, network>>

recv_waits_forever ==
  /\ pc = "read"
  /\ buffer_ = << >>
  /\ ~peer
  /\ FailAndClose

\* timed_read fails: the timeout, which blocking mode disables, or the end
\* of the stream or a reset.  read_line and read close in every case.
recv_fails ==
  /\ pc = "read"
  /\ buffer_ = << >>
  /\ ~blocking_mode_ \/ ~peer
  /\ FailAndClose

\* parse_integer looks at an errno it never cleared, so it can reject any
\* number; every caller closes.
parse_integer_fails ==
  /\ pc = "read"
  /\ buffer_ # << >>
  /\ Head(buffer_).kind \in {":", "$", "*"}
  /\ FailAndClose

\* Mutant of reply_refused: return false without close().
reply_refused_softly ==
  /\ pc = "read"
  /\ buffer_ # << >>
  /\ ~IsSoftError(Head(buffer_))
  /\ ~Acceptable(Head(buffer_))
  /\ buffer_' = Tail(buffer_)
  /\ Return("false")
  /\ UNCHANGED <<fd_, blocking_mode_, transaction_mode_, owed, network>>

\* A line that the reader refuses: wrong type, wrong length.
reply_refused ==
  /\ pc = "read"
  /\ buffer_ # << >>
  /\ ~IsSoftError(Head(buffer_))
  /\ ~Acceptable(Head(buffer_))
  /\ FailAndClose

\* An error reply: return false and keep the connection.  What the call
\* had still to read (the rest of a nested reply, the replies of the
\* pipeline's other commands) stays in the stream.
reply_error ==
  /\ pc = "read"
  /\ buffer_ # << >>
  /\ IsSoftError(Head(buffer_))
  /\ buffer_' = Tail(buffer_)
  /\ owed' = (owed \/ call.todo > 1 \/ call.k < Len(call.cmds))
  /\ Return("false")
  /\ UNCHANGED <<fd_, blocking_mode_, transaction_mode_, network>>

\* Mutant of ModeAfter: MULTI does not start the transaction mode.
ModeAfterWithoutMulti(cmd, mode) ==
  CASE cmd \in {"DISCARD", "EXEC"} -> FALSE
    [] OTHER -> mode

\* transaction_mode_ after the last line of the reply to cmd.
ModeAfter(cmd, mode) ==
  CASE cmd = "MULTI" -> TRUE
    [] cmd \in {"DISCARD", "EXEC"} -> FALSE
    [] OTHER -> mode

\* Which loop reads the next line.
BodyAfter(t) ==
  IF call.body = "top"
    THEN IF ExpectedType = "kMultiBulk" THEN "mbulk" ELSE "special"
    ELSE call.body

\* An accepted line with more lines of the same reply to follow.
read_more ==
  LET t == Head(buffer_)
      left == call.todo - 1 + Announced(t.kind, t.n)
  IN  /\ pc = "read"
      /\ buffer_ # << >>
      /\ Acceptable(t)
      /\ left > 0
      /\ buffer_' = Tail(buffer_)
      /\ call' = [call EXCEPT !.todo = left, !.body = BodyAfter(t)]
      /\ UNCHANGED <<fd_, blocking_mode_, transaction_mode_, pc, ret, owed,
                     network>>

\* An accepted line that completes a reply.
read_last ==
  LET t == Head(buffer_)
  IN  /\ pc = "read"
      /\ buffer_ # << >>
      /\ Acceptable(t)
      /\ call.todo - 1 + Announced(t.kind, t.n) = 0
      /\ buffer_' = Tail(buffer_)
      /\ transaction_mode_' = ModeAfter(Current, transaction_mode_)
      /\ IF call.op = "pipeline"
           THEN /\ pc' = "read_check"
                /\ call' = [call EXCEPT !.todo = 1, !.body = "top"]
                /\ UNCHANGED ret
           ELSE Return("true")
      /\ UNCHANGED <<fd_, blocking_mode_, owed, network>>

-----------------------------------------------------------------------------
(***************************************************************************)
(* redis-server and the network (external).  Requests are answered in the  *)
(* order they were written, one line at a time.                            *)
(***************************************************************************)

BulkLines == {<<"$", -1>>, <<"$", 0>>, <<"$", 1>>}
ArrayLines == {<<"*", n>> : n \in -1..MaxLines}

LinesOfType(type) ==
  CASE type = "kStatus"    -> {<<"+", 0>>}
    [] type = "kInteger"   -> {<<":", 0>>}
    [] type = "kBulk"      -> BulkLines
    [] type = "kMultiBulk" -> ArrayLines
    [] type = "kDepends"   -> {<<"+", 0>>, <<":", 0>>} \cup BulkLines
                                                      \cup ArrayLines
    [] OTHER -> {}

ErrorLine == {<<"-", 0>>}

\* The first line of the reply to cmd.
FirstLines(cmd) ==
  IF srv.multi
    THEN CASE cmd \in {"MULTI", "NOOP"} -> ErrorLine
           [] cmd = "DISCARD" -> {<<"+", 0>>}
           [] cmd = "EXEC"    -> ErrorLine \cup {<<"*", -1>>, <<"*", srv.queued>>}
           [] OTHER           -> ErrorLine \cup {<<"+", 0>>}
    ELSE IF cmd \in {"DISCARD", "EXEC"} THEN ErrorLine
         ELSE ErrorLine \cup LinesOfType(reply_type(cmd))

NextLines ==
  CASE srv.body = "top"   -> FirstLines(Head(reqs).cmd)
    [] srv.body = "mbulk" -> BulkLines
    [] OTHER              -> ErrorLine \cup LinesOfType("kDepends")

MultiAfter(cmd, kind) ==
  CASE cmd = "MULTI" -> srv.multi \/ kind = "+"
    [] cmd \in {"DISCARD", "EXEC"} -> FALSE
    [] OTHER -> srv.multi

QueuedAfter(cmd, kind) ==
  IF srv.multi /\ cmd \notin {"MULTI", "DISCARD", "EXEC"}
    THEN IF kind = "+" THEN srv.queued + 1 ELSE srv.queued
    ELSE IF srv.multi /\ cmd = "MULTI" THEN srv.queued ELSE 0

\* The token for a line, and the server's state once it is sent.
TokenFor(line) ==
  [kind |-> line[1], n |-> line[2],
   conn |-> conn, req |-> srv.req, todo |-> srv.todo]

LeftAfter(line) == srv.todo - 1 + Announced(line[1], line[2])

BodyOfReply(cmd) ==
  IF srv.body # "top" THEN srv.body
  ELSE IF reply_type(cmd) = "kMultiBulk" THEN "mbulk" ELSE "special"

ServerAfter(line, cmd) ==
  LET more == LeftAfter(line) > 0
      isFirst == srv.body = "top"
  IN  [lines  |-> IF more THEN srv.lines + 1 ELSE 0,
       req    |-> IF more THEN srv.req ELSE srv.req + 1,
       todo   |-> IF more THEN LeftAfter(line) ELSE 1,
       body   |-> IF more THEN BodyOfReply(cmd) ELSE "top",
       multi  |-> IF isFirst THEN MultiAfter(cmd, line[1]) ELSE srv.multi,
       queued |-> IF isFirst THEN QueuedAfter(cmd, line[1]) ELSE srv.queued]

server_sends ==
  /\ peer
  /\ reqs # << >>
  /\ \E line \in NextLines :
       /\ srv.lines + 1 + LeftAfter(line) <= MaxLines
       /\ wire' = Append(wire, TokenFor(line))
       /\ reqs' = IF LeftAfter(line) > 0 THEN reqs ELSE Tail(reqs)
       /\ srv' = ServerAfter(line, Head(reqs).cmd)
  /\ UNCHANGED <<client, pc, call, ret, owed, conn, written, peer>>

\* The server dies, restarts or drops an idle client.  What is on the wire
\* may still arrive, or be lost with a reset (recv_fails).
server_closes ==
  /\ peer
  /\ peer' = FALSE
  /\ UNCHANGED <<client, pc, call, ret, owed, conn, written, reqs, wire, srv>>

-----------------------------------------------------------------------------
\* The application: it may call anything once the previous call returned.
Application ==
  \/ close \/ connect \/ assure_connect \/ set_blocking_mode
  \/ exec_command \/ exec_commandv \/ exec_pipeline

\* The code inside a call.
InsideCall ==
  \/ write_refused \/ write_fails \/ write_command
  \/ pipeline_goes_on \/ pipeline_broken
  \/ recv \/ recv_fails \/ parse_integer_fails
  \/ reply_refused \/ reply_error \/ read_more \/ read_last

Environment == server_sends \/ server_closes

Next == Application \/ InsideCall \/ Environment

Spec == Init /\ [][Next]_vars

\* The thread inside a call keeps running, and poll() with a timeout returns.
FairSpec == Spec /\ WF_vars(InsideCall)

-----------------------------------------------------------------------------
(***************************************************************************)
(* Properties.                                                             *)
(***************************************************************************)

\* A reply line is only ever read for the command it answers, at the place
\* in the reply where __read_reply believes to be: no late answer of a timed
\* out call, no line of an older connection, no neighbour's reply, as long
\* as no earlier call on this connection returned without reading all that
\* it had asked for.
AnswersMatch ==
  pc = "read" /\ buffer_ # << >> /\ ~owed =>
    /\ Head(buffer_).conn = conn
    /\ Head(buffer_).req = call.first + call.k - 1
    /\ Head(buffer_).todo = call.todo

\* Between calls an open connection is drained: everything written has been
\* answered and every line of every answer has been read.
IsDrained ==
  /\ buffer_ = << >>
  /\ wire = << >>
  /\ srv.req = written + 1

Drained == pc = "idle" /\ fd_ /\ ~owed => IsDrained

\* close() leaves nothing behind: without a descriptor there are no buffered
\* bytes that a later connection would read as its own, and no transaction.
ClosedIsClean == ~fd_ => buffer_ = << >> /\ ~transaction_mode_

\* The client never believes to be outside a transaction while the server is
\* queueing its commands: +QUEUED would pass for the success of a SET.
NeverQueuedUnaware ==
  pc = "idle" /\ fd_ /\ ~owed /\ srv.multi => transaction_mode_

\* A call that is not in blocking mode returns, whatever the server does:
\* the timeout of poll() bounds every read and every write.
CallReturns == pc # "idle" /\ ~blocking_mode_ ~> pc = "idle"

(***************************************************************************)
(* What comments of the repository say and the code does not do; each is   *)
(* checked by a run that TLC refutes.                                      *)
(***************************************************************************)

\* redis_protocol.h:84 on exec_pipeline: "write all and read all".  Once a
\* call has returned and the connection is still open, all has been read.
WriteAllReadAll == pc = "idle" /\ fd_ => IsDrained

\* redis_protocol.h:124: "In transaction mode, common commands' replies are
\* status code", which needs a server that is queueing.
ModeMeansQueueing ==
  pc = "idle" /\ fd_ /\ ~owed /\ transaction_mode_ => srv.multi

-----------------------------------------------------------------------------
(***************************************************************************)
(* The inductive invariant behind AnswersMatch and Drained.  It describes  *)
(* buffer_, wire and the server as one stream of lines in which each line  *)
(* tells where the next one stands: place <<r, n>> is the line of the      *)
(* reply to request r at which n lines of that reply are missing.          *)
(***************************************************************************)

At(t) == <<t.req, t.todo>>

After(t) ==
  LET left == t.todo - 1 + Announced(t.kind, t.n)
  IN  IF left = 0 THEN <<t.req + 1, 1>> ELSE <<t.req, left>>

\* The place where the client reads next.
ClientAt ==
  CASE pc = "idle"       -> <<written + 1, 1>>
    [] pc = "read"       -> <<call.first + call.k - 1, call.todo>>
    [] pc = "read_check" -> <<call.first + call.k, 1>>
    [] OTHER             -> <<call.first, 1>>

\* The lines s arrived over connection c, answer its first w requests and
\* follow one another.
Chained(s, c, w) ==
  \A i \in 1..Len(s) :
    /\ s[i].conn = c
    /\ s[i].todo >= 1
    /\ s[i].req <= w
    /\ i < Len(s) => At(s[i+1]) = After(s[i])

\* s continues the stream at place p, and ends at place EndOf(p, s).
StartsAt(p, s) == s # << >> => At(s[1]) = p
EndOf(p, s) == IF s = << >> THEN p ELSE After(s[Len(s)])

\* The lines buffered, then the lines on the wire, lead from place p to q.
Leads(p, buffered, onWire, q, c, w) ==
  /\ Chained(buffered, c, w)
  /\ Chained(onWire, c, w)
  /\ StartsAt(p, buffered)
  /\ StartsAt(EndOf(p, buffered), onWire)
  /\ q = EndOf(EndOf(p, buffered), onWire)

Stream == Leads(ClientAt, buffer_, wire, <<srv.req, srv.todo>>, conn, written)

\* The requests written and not answered are those in the server's queue.
Pending == srv.req + Len(reqs) = written + 1 /\ srv.todo >= 1

\* How far the call in progress has come.
Progress ==
  /\ call.todo >= 1
  /\ pc # "read" => call.todo = 1
  /\ pc \in {"write_check", "read", "read_check"} => fd_
  /\ pc = "write" /\ call.k > 1 => fd_
  /\ pc = "write" => written = call.first + call.k - 2
  /\ pc = "write_check" => written = call.first + call.k - 1
  /\ pc \in {"read", "read_check"} =>
       written = call.first + Len(call.cmds) - 1
  /\ pc \in {"write_check", "read_check"} => call.op = "pipeline"
  /\ pc # "idle" /\ call.op # "pipeline" => Len(call.cmds) = 1

\* Everything on the wire is in order, whoever sent it and whenever the
\* connection was opened, unless a call has abandoned replies.
InOrder ==
  /\ Progress
  /\ Pending
  /\ ~owed => Stream

(***************************************************************************)
(* The inductive invariant behind NeverQueuedUnaware: a server that queues *)
(* has said so to a client that knows it, or will once it has read what is *)
(* in flight.                                                              *)
(***************************************************************************)

\* The command of call c that line t answers.
CommandOf(c, t) == c.cmds[t.req - c.first + 1].cmd

StartsTransaction(c, t) == CommandOf(c, t) = "MULTI" /\ t.kind = "+" /\ t.todo = 1
EndsTransaction(c, t) == CommandOf(c, t) \in {"DISCARD", "EXEC"}

\* The lines s start a transaction that they do not end, or end none.
Started(c, s) ==
  \E i \in 1..Len(s) :
    StartsTransaction(c, s[i]) /\ \A j \in (i+1)..Len(s) : ~EndsTransaction(c, s[j])
NotEnded(c, s) == \A i \in 1..Len(s) : ~EndsTransaction(c, s[i])

\* The server is at a line of the reply to the request that it has to answer
\* next, and those that wait are commands of the call.
Answering ==
  /\ srv.body = "top" => srv.todo = 1
  /\ srv.body # "top" =>
       /\ reqs # << >>
       /\ Head(reqs).cmd \in {"DISCARD", "EXEC"} => ~srv.multi
  /\ pc # "idle" /\ ~owed =>
       \A i \in 1..Len(reqs) : reqs[i] = call.cmds[srv.req - call.first + i]

Aware ==
  ~owed /\ srv.multi =>
    \/ Started(call, wire)
    \/ NotEnded(call, wire) /\ Started(call, buffer_)
    \/ NotEnded(call, wire) /\ NotEnded(call, buffer_) /\ transaction_mode_
=============================================================================
