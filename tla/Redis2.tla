------------------------------- MODULE Redis2 -------------------------------
(***************************************************************************)
(* The client for one server: class Redis2 (redis.cpp).  What it adds to   *)
(* RedisProtocol is memory across calls: the database to select again on a *)
(* new connection, and the commands of the open transaction, which exec()  *)
(* pairs with the elements of the server's reply.                          *)
(*                                                                         *)
(* A method is cut into its calls of RedisProtocol, because the server may *)
(* go away between any two of them; each such call is one step with the    *)
(* outcomes that module RedisProtocol has: a closed connection, an error   *)
(* reply or a refusal that keeps it, an accepted reply.  All the methods   *)
(* that send one command and convert its reply are one action, command;    *)
(* blpop, brpop and brpoplpush are bxpop.  The application adds commands to *)
(* a transaction with add_command only.                                    *)
(***************************************************************************)
EXTENDS Integers, Sequences

CONSTANTS
  Databases,      \* database numbers
  UserCommands,   \* the commands that the application sends
  MaxCommands     \* bound: length of transaction_cmds_ and of the queue

ASSUME Redis2Assumption ==
  /\ Databases \subseteq Nat
  /\ 0 \in Databases
  /\ \A c \in UserCommands : c.name \in {"SET", "GET"}
  /\ MaxCommands \in Nat

(***************************************************************************)
(* A command: a name and an argument.  SET stands for the commands with a  *)
(* status reply, GET for those with any other reply.                       *)
(***************************************************************************)
SelectCommands == [name : {"SELECT"}, arg : Databases]
Control(name) == [name |-> name, arg |-> 0]
TxnNames == {"MULTI", "DISCARD", "EXEC"}
AllCommands == UserCommands \cup SelectCommands
                 \cup {Control(name) : name \in TxnNames}

VARIABLES
  fd_,                        \* proto_ has a descriptor
  blocking_mode_,             \* of proto_
  transaction_mode_,          \* of proto_
  db_index_,
  db_index_select_failure_,
  transaction_cmds_,
  pc,                         \* the next step of the method, or "idle"
  op,                         \* the method
  cmd,                        \* the command that it sends
  ret,                        \* what the last method returned
  peer,                       \* external: the server is connected
  db,                         \* external: its database for this connection
  multi,                      \* external: it is queueing commands
  queue,                      \* external: the commands queued
  owed,                       \* ghost: replies were left unread
  unreset,                    \* ghost: connected without on_reset
  inTxn,                      \* the application is between multi and exec
  asked                       \* the application asked for blocking mode

proto == <<fd_, blocking_mode_, transaction_mode_>>
members == <<db_index_, db_index_select_failure_, transaction_cmds_>>
method == <<pc, op, cmd, ret>>
server == <<peer, db, multi, queue>>
ghosts == <<owed, unreset, inTxn, asked>>
vars == <<fd_, blocking_mode_, transaction_mode_, db_index_,
          db_index_select_failure_, transaction_cmds_, pc, op, cmd, ret, peer,
          db, multi, queue, owed, unreset, inTxn, asked>>

\* assure: proto_->assure_connect of Redis2::assure_connect; reselect: its
\* select(); select: the same in the public select(); check: check_connect;
\* exec, reselect_exec, select_exec: proto_->exec_command.
Steps == {"idle", "assure", "check", "exec", "reselect", "reselect_exec",
          "select", "select_exec"}

Methods == {"none", "command", "bxpop", "select", "multi", "add_command",
            "add_commandv", "exec", "discard"}

TypeOK ==
  /\ fd_ \in BOOLEAN
  /\ blocking_mode_ \in BOOLEAN
  /\ transaction_mode_ \in BOOLEAN
  /\ db_index_ \in Databases
  /\ db_index_select_failure_ \in BOOLEAN
  /\ transaction_cmds_ \in Seq(UserCommands)
  /\ pc \in Steps
  /\ op \in Methods
  /\ cmd \in AllCommands
  /\ ret \in {"none", "true", "false"}
  /\ peer \in BOOLEAN
  /\ db \in Databases
  /\ multi \in BOOLEAN
  /\ queue \in Seq(AllCommands)
  /\ owed \in BOOLEAN
  /\ unreset \in BOOLEAN
  /\ inTxn \in BOOLEAN
  /\ asked \in BOOLEAN

Init ==
  /\ fd_ = FALSE
  /\ blocking_mode_ = FALSE
  /\ transaction_mode_ = FALSE
  /\ db_index_ \in Databases
  /\ db_index_select_failure_ = TRUE
  /\ transaction_cmds_ = << >>
  /\ pc = "idle"
  /\ op = "none"
  /\ cmd = Control("EXEC")
  /\ ret = "none"
  /\ peer = FALSE
  /\ db = 0
  /\ multi = FALSE
  /\ queue = << >>
  /\ owed = FALSE
  /\ unreset = FALSE
  /\ inTxn = FALSE
  /\ asked = FALSE

-----------------------------------------------------------------------------
(***************************************************************************)
(* RedisProtocol, as Redis2 uses it.                                       *)
(***************************************************************************)

\* A connection that is gone or new: the server starts it in database 0.
FreshServer(up) ==
  /\ peer' = up
  /\ db' = 0
  /\ multi' = FALSE
  /\ queue' = << >>
  /\ owed' = FALSE

\* close(), after which blocking_mode_ is b.
CloseThenBlock(b) ==
  /\ fd_' = FALSE
  /\ blocking_mode_' = b
  /\ transaction_mode_' = FALSE
  /\ FreshServer(FALSE)

proto_close == CloseThenBlock(FALSE)

proto_connect ==
  /\ fd_' = TRUE
  /\ FreshServer(TRUE)
  /\ UNCHANGED <<blocking_mode_, transaction_mode_>>

MayLookClosed == ~fd_ \/ ~peer

-----------------------------------------------------------------------------
(***************************************************************************)
(* The application starts a method.                                        *)
(***************************************************************************)

Begin(method_, step, command_) ==
  /\ pc = "idle"
  /\ pc' = step
  /\ op' = method_
  /\ cmd' = command_
  /\ ret' = "none"
  /\ UNCHANGED <<proto, members, server, owed, unreset, asked>>

command ==
  /\ ~inTxn
  /\ \E c \in UserCommands : Begin("command", "assure", c)
  /\ UNCHANGED inTxn

bxpop ==
  /\ ~inTxn
  /\ \E c \in UserCommands : c.name = "GET" /\ Begin("bxpop", "assure", c)
  /\ UNCHANGED inTxn

select ==
  /\ ~inTxn
  /\ \E c \in SelectCommands : Begin("select", "select", c)
  /\ UNCHANGED inTxn

start_multi ==
  /\ Begin("multi", "assure", Control("MULTI"))
  /\ UNCHANGED inTxn

add_command ==
  /\ Len(transaction_cmds_) < MaxCommands
  /\ \E c \in UserCommands, overload \in {"add_command", "add_commandv"} :
       Begin(overload, "check", c)
  /\ UNCHANGED inTxn

start_exec ==
  /\ Begin("exec", "check", Control("EXEC"))
  /\ inTxn' = FALSE

start_discard ==
  /\ Begin("discard", "check", Control("DISCARD"))
  /\ inTxn' = FALSE

\* Redis2::connect and close go straight to proto_: no on_reset.
connect ==
  /\ pc = "idle"
  /\ \/ proto_connect /\ unreset' = TRUE
     \/ proto_close /\ UNCHANGED unreset
  /\ inTxn' = FALSE
  /\ UNCHANGED <<members, method, asked>>

close ==
  /\ pc = "idle"
  /\ proto_close
  /\ inTxn' = FALSE
  /\ UNCHANGED <<members, method, unreset, asked>>

set_blocking_mode ==
  /\ pc = "idle"
  /\ blocking_mode_' = ~blocking_mode_
  /\ asked' = ~blocking_mode_
  /\ UNCHANGED <<fd_, transaction_mode_, members, method, server, owed,
                 unreset, inTxn>>

-----------------------------------------------------------------------------
(***************************************************************************)
(* The connection before a command.                                        *)
(***************************************************************************)

Goto(step) == pc' = step /\ UNCHANGED <<op, cmd, ret>>

Return(value) ==
  /\ pc' = "idle"
  /\ op' = "none"
  /\ cmd' = Control("EXEC")
  /\ ret' = value

\* Mutant of on_reset: the database is not marked for selection.
on_reset_keeps_db ==
  /\ transaction_cmds_' = << >>
  /\ unreset' = FALSE
  /\ UNCHANGED <<db_index_, db_index_select_failure_>>

on_reset ==
  /\ db_index_select_failure_' = (db_index_select_failure_ \/ db_index_ # 0)
  /\ transaction_cmds_' = << >>
  /\ unreset' = FALSE
  /\ UNCHANGED db_index_

\* Redis2::assure_connect up to its select().
AfterAssure(failure) == IF db_index_ # 0 /\ failure THEN "reselect" ELSE "exec"

assure_connect ==
  /\ pc = "assure"
  /\ \/ /\ fd_
        /\ Goto(AfterAssure(db_index_select_failure_))
        /\ UNCHANGED <<proto, members, server, owed, unreset>>
     \/ /\ MayLookClosed
        /\ proto_connect
        /\ on_reset
        /\ Goto(AfterAssure(db_index_select_failure_'))
     \/ /\ MayLookClosed
        /\ proto_close
        /\ Return("false")
        /\ UNCHANGED <<members, unreset>>
  /\ UNCHANGED <<inTxn, asked>>

\* select() calls proto_->assure_connect(NULL): nobody looks at the status.
select_connect ==
  /\ pc \in {"reselect", "select"}
  /\ \/ /\ fd_
        /\ Goto(IF pc = "select" THEN "select_exec" ELSE "reselect_exec")
        /\ UNCHANGED <<proto, server, owed, unreset>>
     \/ /\ MayLookClosed
        /\ proto_connect
        /\ unreset' = TRUE
        /\ Goto(IF pc = "select" THEN "select_exec" ELSE "reselect_exec")
     \/ /\ MayLookClosed
        /\ proto_close
        /\ Return("false")
        /\ UNCHANGED unreset
  /\ UNCHANGED <<members, inTxn, asked>>

\* add_command, exec and discard do not reconnect.
check_connect ==
  /\ pc = "check"
  /\ \/ fd_ /\ Goto("exec")
     \/ MayLookClosed /\ Return("false")
  /\ UNCHANGED <<proto, members, server, ghosts>>

-----------------------------------------------------------------------------
(***************************************************************************)
(* The server (external) executes or queues one command.  "ok" stands for  *)
(* the regular reply of the command; "array" is the reply to EXEC with one *)
(* element per command queued, "child_error" one with an error among them, *)
(* at which RedisProtocol stops reading.                                   *)
(***************************************************************************)

AllReplies == {"error", "ok", "queued", "nil", "array", "child_error"}

Replies(c) ==
  CASE multi /\ c.name = "MULTI"   -> {"error"}
    [] multi /\ c.name = "DISCARD" -> {"ok"}
    [] multi /\ c.name = "EXEC"    ->
         {"error", "nil", "array"}
           \cup (IF queue = << >> THEN {} ELSE {"child_error"})
    [] multi /\ c.name \notin TxnNames ->
         IF Len(queue) < MaxCommands THEN {"error", "queued"} ELSE {"error"}
    [] ~multi /\ c.name \in {"DISCARD", "EXEC"} -> {"error"}
    [] OTHER -> {"error", "ok"}

\* The database after the commands in the queue have run.
DbAfterQueue ==
  LET selects == {i \in 1..Len(queue) : queue[i].name = "SELECT"}
  IN  IF selects = {} THEN db
      ELSE queue[CHOOSE i \in selects : \A j \in selects : j <= i].arg

Serve(c, reply) ==
  /\ multi' = CASE c.name = "MULTI" -> multi \/ reply = "ok"
                [] c.name \in {"DISCARD", "EXEC"} -> FALSE
                [] OTHER -> multi
  /\ queue' = IF reply = "queued" THEN Append(queue, c)
              ELSE IF c.name \in {"DISCARD", "EXEC"} THEN << >> ELSE queue
  /\ db' = CASE reply = "ok" /\ c.name = "SELECT" -> c.arg
             [] reply \in {"array", "child_error"} -> DbAfterQueue
             [] OTHER -> db
  /\ UNCHANGED peer

\* What __read_reply takes for the reply: any line once replies were left
\* unread.
Seen(reply) == IF owed THEN AllReplies ELSE {reply}

server_closes ==
  /\ peer
  /\ peer' = FALSE
  /\ UNCHANGED <<proto, members, method, db, multi, queue, ghosts>>

-----------------------------------------------------------------------------
(***************************************************************************)
(* proto_->exec_command and what the methods make of its result.           *)
(***************************************************************************)

ExecSteps == {"exec", "reselect_exec", "select_exec"}

Sent ==
  IF pc = "reselect_exec" THEN [name |-> "SELECT", arg |-> db_index_] ELSE cmd

IsStatusCommand(c) == c.name \in {"SET", "SELECT"}

\* The reply types that __read_reply accepts for c.
TypeMatches(c, reply) ==
  CASE c.name = "EXEC" -> reply \in {"nil", "array"}
    [] c.name \in {"MULTI", "DISCARD"} -> reply \in {"ok", "queued"}
    [] IsStatusCommand(c) -> reply \in {"ok", "queued"}
    [] OTHER -> IF transaction_mode_ THEN reply = "queued" ELSE reply = "ok"

ModeAfter(c) ==
  CASE c.name = "MULTI" -> TRUE
    [] c.name \in {"DISCARD", "EXEC"} -> FALSE
    [] OTHER -> transaction_mode_

\* Mutant of BlockingAfterFailure: the mode is not put back.
BlockingStaysOn == pc = "exec" /\ op = "bxpop"

\* bxpop puts the blocking mode back, even on a connection just closed.
BlockingAfterFailure == pc = "exec" /\ op = "bxpop" /\ blocking_mode_

\* A timeout, a broken connection, a reply of the wrong type.
exec_fails ==
  /\ pc \in ExecSteps
  /\ CloseThenBlock(BlockingAfterFailure)
  /\ Return("false")
  /\ UNCHANGED <<members, unreset, inTxn, asked>>

\* Mutant of exec_refused: add_command keeps a command that was not sent.
exec_refused_kept ==
  /\ pc = "exec"
  /\ op \in {"command", "bxpop", "add_command", "add_commandv"}
  /\ transaction_cmds_' = IF op \in {"add_command", "add_commandv"}
                            THEN Append(transaction_cmds_, cmd)
                            ELSE transaction_cmds_
  /\ Return("false")
  /\ UNCHANGED <<proto, db_index_, db_index_select_failure_, server, ghosts>>

\* check_argc refuses the command.
exec_refused ==
  /\ pc = "exec"
  /\ op \in {"command", "bxpop", "add_command", "add_commandv"}
  /\ Return("false")
  /\ UNCHANGED <<proto, members, server, ghosts>>

\* An error reply.  One among the elements of EXEC's reply leaves the elements
\* after it unread.
exec_error ==
  /\ pc \in ExecSteps
  /\ peer
  /\ \E reply \in Replies(Sent) :
       /\ Serve(Sent, reply)
       /\ \E seen \in Seen(reply) \cap {"error", "child_error"} :
            owed' \in {owed, owed \/ (seen = "child_error" /\ Len(queue) > 1)}
  /\ Return("false")
  /\ UNCHANGED <<proto, members, unreset, inTxn, asked>>

\* exec_command returns true and the reply is seen.
ExecTrue(seen) ==
  /\ peer
  /\ \E reply \in Replies(Sent) : Serve(Sent, reply) /\ seen \in Seen(reply)
  /\ TypeMatches(Sent, seen)
  /\ transaction_mode_' = ModeAfter(Sent)
  /\ UNCHANGED <<fd_, blocking_mode_, owed, asked>>

ReturnIf(condition) == Return(IF condition THEN "true" ELSE "false")

select_done ==
  /\ pc \in {"reselect_exec", "select_exec"}
  /\ \E seen \in AllReplies :
       /\ ExecTrue(seen)
       /\ db_index_' = Sent.arg
       /\ db_index_select_failure_' = (seen # "ok")
       /\ unreset' = (unreset /\ seen # "ok")
       /\ IF pc = "reselect_exec" /\ seen = "ok" THEN Goto("exec")
                                                ELSE ReturnIf(seen = "ok")
  /\ UNCHANGED <<transaction_cmds_, inTxn>>

command_done ==
  /\ pc = "exec"
  /\ op \in {"command", "bxpop"}
  /\ \E seen \in AllReplies : ExecTrue(seen) /\ ReturnIf(seen = "ok")
  /\ UNCHANGED <<members, unreset, inTxn>>

multi_done ==
  /\ pc = "exec"
  /\ op = "multi"
  /\ \E seen \in AllReplies :
       /\ ExecTrue(seen)
       /\ ReturnIf(seen = "ok")
       /\ inTxn' = (inTxn \/ seen = "ok")
  /\ UNCHANGED <<members, unreset>>

\* Mutant of add_command_done: push_back of the command that swap() emptied.
add_command_empty ==
  /\ pc = "exec"
  /\ op \in {"add_command", "add_commandv"}
  /\ \E seen \in AllReplies : ExecTrue(seen)
  /\ transaction_cmds_' = Append(transaction_cmds_, Control("NOOP"))
  /\ ReturnIf(op = "add_commandv")
  /\ UNCHANGED <<db_index_, db_index_select_failure_, unreset, inTxn>>

\* The overload without a format returns false after a success, too.
add_command_done ==
  /\ pc = "exec"
  /\ op \in {"add_command", "add_commandv"}
  /\ \E seen \in AllReplies : ExecTrue(seen)
  /\ transaction_cmds_' = Append(transaction_cmds_, cmd)
  /\ ReturnIf(op = "add_commandv")
  /\ UNCHANGED <<db_index_, db_index_select_failure_, unreset, inTxn>>

\* Mutant of SizesMatch: no comparison of the sizes.
AnySizes == TRUE

\* One element per command in transaction_cmds_.
SizesMatch == owed \/ Len(queue) = Len(transaction_cmds_)

\* The elements are paired with the commands and those handed out ...
exec_done ==
  /\ pc = "exec"
  /\ op = "exec"
  /\ ExecTrue("array")
  /\ SizesMatch
  /\ transaction_cmds_' = << >>
  /\ Return("true")
  /\ UNCHANGED <<db_index_, db_index_select_failure_, unreset, inTxn>>

\* ... or nothing is: transaction_cmds_ stays.
exec_mismatch ==
  /\ pc = "exec"
  /\ op = "exec"
  /\ \/ ExecTrue("nil")
     \/ ExecTrue("array") /\ (owed \/ ~SizesMatch)
  /\ Return("false")
  /\ UNCHANGED <<members, unreset, inTxn>>

discard_done ==
  /\ pc = "exec"
  /\ op = "discard"
  /\ \E seen \in AllReplies :
       /\ ExecTrue(seen)
       /\ ReturnIf(seen = "ok")
       /\ transaction_cmds_' = IF seen = "ok" THEN << >> ELSE transaction_cmds_
  /\ UNCHANGED <<db_index_, db_index_select_failure_, unreset, inTxn>>

Next ==
  \/ command \/ bxpop \/ select \/ start_multi \/ add_command
  \/ start_exec \/ start_discard \/ connect \/ close \/ set_blocking_mode
  \/ assure_connect \/ select_connect \/ check_connect
  \/ exec_fails \/ exec_refused \/ exec_error
  \/ select_done \/ command_done \/ multi_done \/ add_command_done
  \/ exec_done \/ exec_mismatch \/ discard_done
  \/ server_closes

Spec == Init /\ [][Next]_vars

-----------------------------------------------------------------------------
(***************************************************************************)
(* Properties.                                                             *)
(***************************************************************************)

\* A command that comes through assure_connect runs in the database that the
\* object was told to use, across any number of reconnections, unless the
\* connection was replaced behind on_reset's back (by connect(), or inside
\* a select() that then failed), or replies were abandoned on it (the +OK that
\* select() reads is then another command's).
SelectedDb ==
  (/\ pc = "exec" /\ fd_ /\ peer
   /\ op \in {"command", "bxpop", "multi"}
   /\ ~owed /\ ~unreset)
    => db = db_index_

\* When exec() returns true, the commands it hands out are those that the
\* server has just run, in this order, so that each gets the reply to itself:
\* over connections lost inside a transaction, commands that were refused and
\* transactions that failed, on a connection without abandoned replies.
ExecPairs ==
  [][pc = "exec" /\ op = "exec" /\ ret' = "true" =>
       owed \/ queue = transaction_cmds_]_vars

\* The same on every connection, as redis_base.h promises ("true for success").
\* An element of EXEC's reply that is an error leaves those after it unread on
\* an open connection, and the next exec() takes one of them for its reply.
ExecReturnsItsOwn ==
  [][pc = "exec" /\ op = "exec" /\ ret' = "true" =>
       queue = transaction_cmds_]_vars

\* blpop and its kin never leave the blocking mode on: only the application
\* turns it on.
BlockingAsAsked == pc = "idle" /\ blocking_mode_ => asked

\* Why ExecPairs holds: the server's queue is always a suffix of
\* transaction_cmds_, and so equal to it when the lengths are. (With abandoned
\* replies on the connection add_command may store what was not queued.)
QueueIsSuffix ==
  ~owed =>
    /\ Len(queue) <= Len(transaction_cmds_)
    /\ \A i \in 1..Len(queue) :
         queue[i] = transaction_cmds_[Len(transaction_cmds_) - Len(queue) + i]

-----------------------------------------------------------------------------
(***************************************************************************)
(* The inductive invariant behind these properties.                        *)
(***************************************************************************)

\* The command is the method's own, and the method can be at this step.
MethodFits ==
  /\ pc = "idle" <=> op = "none"
  /\ op # "none" => ret = "none"
  /\ pc \in {"select", "select_exec"} <=> op = "select"
  /\ pc \in {"assure", "reselect", "reselect_exec"} =>
       op \in {"command", "bxpop", "multi"}
  /\ pc = "check" => op \in {"add_command", "add_commandv", "exec", "discard"}
  /\ op \in {"command", "bxpop", "add_command", "add_commandv"} =>
       cmd \in UserCommands
  /\ op = "select" => cmd \in SelectCommands
  /\ op = "multi" => cmd = Control("MULTI")
  /\ op = "exec" => cmd = Control("EXEC")
  /\ op = "discard" => cmd = Control("DISCARD")
  /\ op \in {"command", "bxpop", "select"} => ~inTxn

\* The server queues commands only while the application knows it, and what
\* it has queued is what transaction_cmds_ ends with.
TransactionKnown ==
  /\ peer => fd_
  /\ ~multi => queue = << >>
  /\ peer /\ ~owed /\ multi => inTxn \/ op \in {"exec", "discard"}
  /\ QueueIsSuffix

\* assure_connect is going to call select().
MustSelect == db_index_ # 0 /\ db_index_select_failure_

\* The server's database is db_index_ unless select() is going to be called,
\* which never happens inside a transaction.
DatabaseKnown ==
  /\ pc \in {"reselect", "reselect_exec"} => MustSelect
  /\ pc = "exec" /\ op \in {"command", "bxpop", "multi"} => ~MustSelect
  /\ peer /\ ~owed /\ multi => ~MustSelect
  /\ peer /\ ~owed /\ ~unreset => MustSelect \/ db = db_index_

Redis2Inv ==
  /\ TypeOK
  /\ MethodFits
  /\ TransactionKnown
  /\ DatabaseKnown
  /\ blocking_mode_ => asked
=============================================================================
