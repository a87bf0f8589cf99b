---------------------------- MODULE Redis2Proofs ----------------------------
(***************************************************************************)
(* For any databases, commands and length of transactions: Redis2          *)
(* (redis.cpp) sends commands to the database it was told to use, pairs    *)
(* the commands of a transaction with their own replies, and leaves the    *)
(* blocking mode as the application set it.                                *)
(***************************************************************************)
EXTENDS Redis2, SequenceTheorems, WellFoundedInduction, TLAPS

\* A set of positions in a queue has a last one.
LEMMA Greatest ==
  ASSUME NEW n \in Nat, NEW S, S \subseteq 1..n, S # {}
  PROVE  \E i \in S : \A j \in S : j <= i
<1> DEFINE T == {n - i : i \in S}
           R == {p \in Nat \X Nat : p[1] < p[2]}
<1>1. IsWellFoundedOn(R, Nat)
  BY NatLessThanWellFounded DEF OpToRel
<1>2. T \subseteq Nat
  OBVIOUS
<1>3. T # {}
  <2>1. PICK i : i \in S
    OBVIOUS
  <2>2. n - i \in T
    BY <2>1
  <2> QED BY <2>2
<1>4. PICK x \in T : \A y \in T : <<y, x>> \notin R
  <2> HIDE DEF T, R
  <2> QED BY <1>1, <1>2, <1>3, WFMin
<1>5. PICK i \in S : x = n - i
  BY <1>4
<1>6. ASSUME NEW j \in S PROVE j <= i
  <2>1. n - j \in T /\ n - j \in Nat /\ x \in Nat
    BY <1>2
  <2>2. ~(n - j < x)
    BY <2>1, <1>4
  <2> QED BY <1>5, <2>2
<1> QED BY <1>6

-----------------------------------------------------------------------------
(***************************************************************************)
(* Commands and the server.                                                *)
(***************************************************************************)

\* What the names of the commands say about them.
LEMMA CommandNames ==
  /\ \A c \in UserCommands : c.name \in {"SET", "GET"} /\ c \in AllCommands
  /\ \A c \in SelectCommands : c.name = "SELECT" /\ c.arg \in Databases
                               /\ c \in AllCommands
  /\ \A name \in TxnNames : Control(name).name = name
                            /\ Control(name) \in AllCommands
  /\ \A c \in AllCommands : c.name = "SELECT" => c \in SelectCommands
  /\ \A d \in Databases : [name |-> "SELECT", arg |-> d] \in SelectCommands
BY Redis2Assumption DEF AllCommands, SelectCommands, Control, TxnNames

\* The commands in the server's queue leave it in some database, and in the
\* one it was in when there is no SELECT among them.
LEMMA QueuedSelects ==
  ASSUME TypeOK
  PROVE  /\ DbAfterQueue \in Databases
         /\ (\A i \in 1..Len(queue) : queue[i] \in UserCommands) => DbAfterQueue = db
<1> DEFINE selects == {i \in 1..Len(queue) : queue[i].name = "SELECT"}
<1>t. queue \in Seq(AllCommands) /\ db \in Databases /\ Len(queue) \in Nat
  BY DEF TypeOK
<1>1. selects = {} => DbAfterQueue = db
  BY DEF DbAfterQueue
<1>2. selects # {} => DbAfterQueue \in Databases
  <2> SUFFICES ASSUME selects # {} PROVE DbAfterQueue \in Databases
    OBVIOUS
  <2> DEFINE i == CHOOSE i \in selects : \A j \in selects : j <= i
  <2>1. \E k \in selects : \A j \in selects : j <= k
    <3>1. selects \subseteq 1..Len(queue)
      OBVIOUS
    <3> HIDE DEF selects
    <3> QED BY <1>t, <3>1, Greatest
  <2>2. i \in selects
    BY <2>1
  <2>3. DbAfterQueue = queue[i].arg
    BY DEF DbAfterQueue
  <2>4. queue[i] \in AllCommands /\ queue[i].name = "SELECT"
    BY <1>t, <2>2
  <2> QED BY <2>3, <2>4, CommandNames
<1>3. (\A k \in 1..Len(queue) : queue[k] \in UserCommands) => selects = {}
  BY CommandNames
<1> QED BY <1>t, <1>1, <1>2, <1>3

\* Whatever the server answers: its state stays well typed, nothing is queued
\* outside a transaction, and EXEC and DISCARD end one.
LEMMA ServerAnswers ==
  ASSUME TypeOK, ~multi => queue = << >>,
         NEW c \in AllCommands, NEW reply \in Replies(c), Serve(c, reply)
  PROVE  /\ db' \in Databases /\ multi' \in BOOLEAN /\ queue' \in Seq(AllCommands)
         /\ peer' = peer
         /\ ~multi' => queue' = << >>
         /\ c.name \in {"DISCARD", "EXEC"} => ~multi' /\ queue' = << >>
         /\ c.name = "MULTI" => queue' = queue /\ (reply = "ok" <=> ~multi /\ multi')
                                /\ db' = db /\ (multi => multi')
         /\ c.name \notin TxnNames => multi' = multi
         /\ c.name \notin TxnNames /\ ~multi => queue' = queue /\ reply # "queued"
         /\ c.name \in {"SET", "GET"} => db' = db
         /\ c.name = "SELECT" /\ ~multi => db' = IF reply = "ok" THEN c.arg ELSE db
         /\ c.name \in {"SET", "GET"} /\ multi =>
              queue' = IF reply = "queued" THEN Append(queue, c) ELSE queue
         /\ reply = "error" /\ c.name \notin {"DISCARD", "EXEC"} =>
              queue' = queue /\ multi' = multi /\ db' = db
         /\ c.name \in {"DISCARD", "EXEC"} => db' \in {db, DbAfterQueue}
<1>t. queue \in Seq(AllCommands) /\ db \in Databases /\ multi \in BOOLEAN
  BY DEF TypeOK
<1>1. DbAfterQueue \in Databases
  BY QueuedSelects
<1>2. c.name \in TxnNames \cup {"SELECT", "SET", "GET"}
  BY CommandNames DEF AllCommands, SelectCommands
<1>3. c.name = "SELECT" => c.arg \in Databases
  BY CommandNames
<1>4. CASE c.name = "MULTI"
  <2>1. (multi => reply = "error") /\ (~multi => reply \in {"error", "ok"})
    BY <1>4 DEF Replies, TxnNames
  <2>2. queue' = queue /\ db' = db /\ peer' = peer /\ multi' = (multi \/ reply = "ok")
    BY <1>4, <2>1 DEF Serve
  <2>3. multi' \in BOOLEAN /\ (multi' <=> multi \/ reply = "ok")
    BY <1>t, <2>2
  <2> QED BY <1>t, <1>4, <2>1, <2>2, <2>3 DEF TxnNames
<1>5. CASE c.name = "DISCARD" \/ c.name = "EXEC"
  <2>1. reply \in {"error", "ok", "nil", "array", "child_error"}
    BY <1>5 DEF Replies, TxnNames
  <2>2. /\ multi' = FALSE /\ peer' = peer /\ queue' = << >>
        /\ db' = IF reply \in {"array", "child_error"} THEN DbAfterQueue ELSE db
    BY <1>5, <2>1 DEF Serve
  <2>3. ~multi' /\ multi' \in BOOLEAN
    BY <2>2
  <2>4. queue' \in Seq(AllCommands)
    BY <2>2
  <2>5. db' \in {db, DbAfterQueue}
    BY <2>2
  <2>6. c.name \in TxnNames /\ c.name \notin {"MULTI", "SET", "GET", "SELECT"}
    BY <1>5 DEF TxnNames
  <2> QED BY <1>t, <1>1, <1>5, <2>2, <2>3, <2>4, <2>5, <2>6
<1>6. CASE c.name = "SELECT"
  <2>1. reply \in {"error", "ok", "queued"} /\ (multi => reply # "ok")
        /\ (~multi => reply # "queued")
    BY <1>6 DEF Replies, TxnNames
  <2>2. /\ multi' = multi /\ peer' = peer
        /\ queue' = IF reply = "queued" THEN Append(queue, c) ELSE queue
        /\ db' = IF reply = "ok" THEN c.arg ELSE db
    BY <1>6, <2>1 DEF Serve
  <2> QED BY <1>t, <1>3, <1>6, <2>1, <2>2 DEF TxnNames
<1>7. CASE c.name \in {"SET", "GET"}
  <2>1. reply \in {"error", "ok", "queued"} /\ (~multi => reply # "queued")
    BY <1>7 DEF Replies, TxnNames
  <2>2. /\ multi' = multi /\ peer' = peer /\ db' = db
        /\ queue' = IF reply = "queued" THEN Append(queue, c) ELSE queue
    BY <1>7, <2>1 DEF Serve
  <2> QED BY <1>t, <1>7, <2>1, <2>2 DEF TxnNames
<1> QED BY <1>2, <1>4, <1>5, <1>6, <1>7 DEF TxnNames

-----------------------------------------------------------------------------
(***************************************************************************)
(* Steps that the methods have in common.                                  *)
(***************************************************************************)

\* A method that returns leaves no command behind.
LEMMA Returns ==
  ASSUME NEW v \in {"true", "false"}, Return(v)
  PROVE  /\ pc' = "idle" /\ op' = "none"
         /\ pc' \in Steps /\ op' \in Methods /\ cmd' \in AllCommands
         /\ ret' \in {"none", "true", "false"}
         /\ MethodFits'
<1>1. /\ pc' = "idle" /\ op' = "none" /\ cmd' = Control("EXEC") /\ ret' = v
  BY DEF Return
<1>2. pc' \in Steps /\ op' \in Methods /\ ret' \in {"none", "true", "false"}
  BY <1>1 DEF Steps, Methods
<1>3. cmd' \in AllCommands
  BY <1>1, CommandNames DEF TxnNames
<1>4. MethodFits'
  BY <1>1 DEF MethodFits
<1> QED BY <1>1, <1>2, <1>3, <1>4

\* On a new or closed connection nothing is queued.
LEMMA EmptyQueue ==
  ASSUME transaction_cmds_' \in Seq(UserCommands), queue' = << >>
  PROVE  QueueIsSuffix'
<1>1. Len(queue') = 0 /\ Len(transaction_cmds_') \in Nat
  OBVIOUS
<1> QED BY <1>1 DEF QueueIsSuffix

\* close() leaves nothing that the transaction or the database could be wrong
\* about.
LEMMA Closes ==
  ASSUME Redis2Inv, NEW b \in BOOLEAN, CloseThenBlock(b), b => asked',
         UNCHANGED <<members, unreset>>,
         pc' = "idle", op' = "none", cmd' \in AllCommands,
         ret' \in {"none", "true", "false"}, MethodFits',
         inTxn' \in BOOLEAN, asked' \in BOOLEAN
  PROVE  Redis2Inv'
<1>1. /\ fd_' = FALSE /\ blocking_mode_' = b /\ transaction_mode_' = FALSE
      /\ peer' = FALSE /\ db' = 0 /\ multi' = FALSE /\ queue' = << >>
      /\ owed' = FALSE
  BY DEF CloseThenBlock, FreshServer
<1>2. /\ db_index_' = db_index_ /\ transaction_cmds_' = transaction_cmds_
      /\ db_index_select_failure_' = db_index_select_failure_ /\ unreset' = unreset
  BY DEF members
<1>3. TypeOK'
  <2>1. queue' \in Seq(AllCommands) /\ db' \in Databases
    BY <1>1, Redis2Assumption
  <2>2. pc' \in Steps /\ op' \in Methods
    BY DEF Steps, Methods
  <2> QED BY <1>1, <1>2, <2>1, <2>2 DEF Redis2Inv, TypeOK
<1>4. TransactionKnown'
  BY <1>1, <1>3, EmptyQueue DEF TransactionKnown, TypeOK
<1>5. DatabaseKnown'
  BY <1>1 DEF DatabaseKnown
<1>6. blocking_mode_' => asked'
  BY <1>1
<1> QED BY <1>3, <1>4, <1>5, <1>6 DEF Redis2Inv

\* A step that touches neither the connection nor the members.
LEMMA ServerStays ==
  ASSUME Redis2Inv, UNCHANGED <<proto, members, server, owed, unreset, asked>>
  PROVE  /\ peer' => fd_'
         /\ ~multi' => queue' = << >>
         /\ QueueIsSuffix'
         /\ MustSelect' = MustSelect
         /\ peer' /\ ~owed' /\ multi' => ~MustSelect'
         /\ peer' /\ ~owed' /\ ~unreset' => MustSelect' \/ db' = db_index_'
         /\ blocking_mode_' => asked'
<1>1. /\ fd_' = fd_ /\ blocking_mode_' = blocking_mode_ /\ db_index_' = db_index_
      /\ db_index_select_failure_' = db_index_select_failure_
      /\ transaction_cmds_' = transaction_cmds_
      /\ peer' = peer /\ db' = db /\ multi' = multi /\ queue' = queue
      /\ owed' = owed /\ unreset' = unreset /\ asked' = asked
  BY DEF proto, members, server
<1>2. MustSelect' = MustSelect
  BY <1>1 DEF MustSelect
<1>3. QueueIsSuffix'
  BY <1>1 DEF Redis2Inv, TransactionKnown, QueueIsSuffix
<1>4. /\ peer' => fd_'
      /\ ~multi' => queue' = << >>
      /\ blocking_mode_' => asked'
  BY <1>1 DEF Redis2Inv, TransactionKnown
<1>5. /\ peer' /\ ~owed' /\ multi' => ~MustSelect'
      /\ peer' /\ ~owed' /\ ~unreset' => MustSelect' \/ db' = db_index_'
  BY <1>1, <1>2 DEF Redis2Inv, DatabaseKnown
<1> QED BY <1>2, <1>3, <1>4, <1>5

\* A method begins with a command of its own.
LEMMA Begins ==
  ASSUME Redis2Inv, NEW m, NEW step, NEW c, Begin(m, step, c),
         \/ /\ m \in {"command", "bxpop"} /\ step = "assure" /\ c \in UserCommands
            /\ ~inTxn /\ inTxn' = inTxn
         \/ /\ m = "select" /\ step = "select" /\ c \in SelectCommands
            /\ ~inTxn /\ inTxn' = inTxn
         \/ m = "multi" /\ step = "assure" /\ c = Control("MULTI") /\ inTxn' = inTxn
         \/ /\ m \in {"add_command", "add_commandv"} /\ step = "check"
            /\ c \in UserCommands /\ inTxn' = inTxn
         \/ m = "exec" /\ step = "check" /\ c = Control("EXEC") /\ inTxn' = FALSE
         \/ m = "discard" /\ step = "check" /\ c = Control("DISCARD") /\ inTxn' = FALSE
  PROVE  Redis2Inv'
<1>1. /\ pc = "idle" /\ pc' = step /\ op' = m /\ cmd' = c /\ ret' = "none"
      /\ UNCHANGED <<proto, members, server, owed, unreset, asked>>
  BY DEF Begin
<1>2. MethodFits'
  BY <1>1 DEF MethodFits
<1>3. step \in Steps /\ m \in Methods /\ c \in AllCommands /\ inTxn' \in BOOLEAN
  BY CommandNames DEF Steps, Methods, TxnNames, Redis2Inv, TypeOK
<1>4. TypeOK'
  BY <1>1, <1>3 DEF Redis2Inv, TypeOK, proto, members, server
<1>5. op = "none" /\ (inTxn => inTxn' \/ op' \in {"exec", "discard"})
  BY <1>1 DEF Redis2Inv, MethodFits
<1>6. TransactionKnown'
  <2>1. peer' /\ ~owed' /\ multi' => inTxn' \/ op' \in {"exec", "discard"}
    BY <1>1, <1>5 DEF Redis2Inv, TransactionKnown, server
  <2> QED BY <1>1, <2>1, ServerStays DEF TransactionKnown
<1>7. DatabaseKnown'
  <2>1. pc' \notin {"reselect", "reselect_exec", "exec"}
    BY <1>1
  <2> QED BY <1>1, <2>1, ServerStays DEF DatabaseKnown
<1>8. blocking_mode_' => asked'
  BY <1>1, ServerStays
<1> QED BY <1>2, <1>4, <1>6, <1>7, <1>8 DEF Redis2Inv

-----------------------------------------------------------------------------
(***************************************************************************)
(* The connection before a command.                                        *)
(***************************************************************************)

\* connect() or assure_connect() has a new connection: the server is in
\* database 0 and queues nothing.
LEMMA Reconnects ==
  ASSUME Redis2Inv, proto_connect,
         db_index_' \in Databases, db_index_select_failure_' \in BOOLEAN,
         transaction_cmds_' \in Seq(UserCommands), unreset' \in BOOLEAN,
         unreset' \/ MustSelect' \/ db_index_' = 0,
         pc' \in Steps, op' \in Methods, cmd' \in AllCommands,
         ret' \in {"none", "true", "false"}, inTxn' \in BOOLEAN,
         MethodFits',
         pc' \in {"reselect", "reselect_exec"} => MustSelect',
         pc' = "exec" /\ op' \in {"command", "bxpop", "multi"} => ~MustSelect',
         asked' = asked
  PROVE  Redis2Inv'
<1>1. /\ fd_' = TRUE /\ blocking_mode_' = blocking_mode_
      /\ transaction_mode_' = transaction_mode_
      /\ peer' = TRUE /\ db' = 0 /\ multi' = FALSE /\ queue' = << >>
      /\ owed' = FALSE
  BY DEF proto_connect, FreshServer
<1>2. TypeOK'
  <2>1. queue' \in Seq(AllCommands) /\ db' \in Databases
    BY <1>1, Redis2Assumption
  <2> QED BY <1>1, <2>1 DEF Redis2Inv, TypeOK
<1>3. TransactionKnown'
  BY <1>1, EmptyQueue DEF TransactionKnown
<1>4. DatabaseKnown'
  BY <1>1 DEF DatabaseKnown
<1>5. blocking_mode_' => asked'
  BY <1>1 DEF Redis2Inv
<1> QED BY <1>2, <1>3, <1>4, <1>5 DEF Redis2Inv

\* connect() and close() of the application.
LEMMA AppConnects == Redis2Inv /\ (connect \/ close) => Redis2Inv'
<1> SUFFICES ASSUME Redis2Inv, connect \/ close PROVE Redis2Inv'
  OBVIOUS
<1>1. /\ pc = "idle" /\ inTxn' = FALSE /\ UNCHANGED <<members, method, asked>>
  BY DEF connect, close
<1>2. /\ pc' = "idle" /\ op' = "none" /\ op = "none" /\ cmd' = cmd /\ ret' = ret
      /\ db_index_' = db_index_ /\ transaction_cmds_' = transaction_cmds_
      /\ db_index_select_failure_' = db_index_select_failure_
      /\ asked' = asked
  BY <1>1 DEF method, members, Redis2Inv, MethodFits
<1>3. /\ cmd' \in AllCommands /\ ret' \in {"none", "true", "false"}
      /\ inTxn' \in BOOLEAN /\ asked' \in BOOLEAN
      /\ db_index_' \in Databases /\ db_index_select_failure_' \in BOOLEAN
      /\ transaction_cmds_' \in Seq(UserCommands)
      /\ pc' \in Steps /\ op' \in Methods
  BY <1>1, <1>2 DEF Redis2Inv, TypeOK, Steps, Methods
<1>4. MethodFits'
  BY <1>2 DEF MethodFits
<1>5. CASE proto_close /\ UNCHANGED unreset
  <2>1. CloseThenBlock(FALSE) /\ UNCHANGED <<members, unreset>>
    BY <1>1, <1>5 DEF proto_close
  <2> QED BY <1>2, <1>3, <1>4, <2>1, Closes
<1>6. CASE proto_connect /\ unreset' = TRUE
  BY <1>1, <1>2, <1>3, <1>4, <1>6, Reconnects
<1> QED BY <1>5, <1>6 DEF connect, close

\* Redis2::assure_connect: a new connection is marked for select() unless the
\* database is the one it starts in.
LEMMA Assures == Redis2Inv /\ assure_connect => Redis2Inv'
<1> SUFFICES ASSUME Redis2Inv, assure_connect PROVE Redis2Inv'
  OBVIOUS
<1>t. TypeOK /\ MethodFits /\ TransactionKnown /\ DatabaseKnown
  BY DEF Redis2Inv
<1>1. /\ pc = "assure" /\ op \in {"command", "bxpop", "multi"}
      /\ inTxn' = inTxn /\ asked' = asked
      /\ inTxn \in BOOLEAN /\ asked \in BOOLEAN
  BY <1>t DEF assure_connect, MethodFits, TypeOK
<1>2. ASSUME NEW step \in {"reselect", "exec"}, Goto(step)
      PROVE  /\ pc' = step /\ op' = op /\ cmd' = cmd /\ MethodFits'
             /\ pc' \in Steps /\ op' \in Methods /\ cmd' \in AllCommands
             /\ ret' \in {"none", "true", "false"}
  <2>1. pc' = step /\ op' = op /\ cmd' = cmd /\ ret' = ret
    BY <1>2 DEF Goto
  <2>2. MethodFits'
    BY <1>t, <1>1, <2>1 DEF MethodFits
  <2> QED BY <1>t, <2>1, <2>2 DEF TypeOK, Steps
<1>3. CASE /\ fd_
           /\ Goto(AfterAssure(db_index_select_failure_))
           /\ UNCHANGED <<proto, members, server, owed, unreset>>
  <2> DEFINE step == AfterAssure(db_index_select_failure_)
  <2>1. /\ step \in {"reselect", "exec"} /\ (step = "reselect" <=> MustSelect)
    BY DEF AfterAssure, MustSelect
  <2> HIDE DEF step
  <2>2. /\ pc' = step /\ op' = op /\ cmd' = cmd /\ MethodFits'
        /\ pc' \in Steps /\ op' \in Methods /\ cmd' \in AllCommands
        /\ ret' \in {"none", "true", "false"}
    BY <1>2, <1>3, <2>1 DEF step
  <2>3. UNCHANGED <<proto, members, server, owed, unreset, asked>>
    BY <1>1, <1>3
  <2>4. TypeOK'
    BY <1>t, <1>1, <2>2, <2>3 DEF TypeOK, proto, members, server
  <2>5. TransactionKnown'
    <3>1. peer' /\ ~owed' /\ multi' => inTxn' \/ op' \in {"exec", "discard"}
      BY <1>t, <1>1, <2>2, <2>3 DEF TransactionKnown, server
    <3> QED BY <2>3, <3>1, ServerStays DEF TransactionKnown
  <2>6. DatabaseKnown'
    BY <2>1, <2>2, <2>3, ServerStays DEF DatabaseKnown
  <2>7. blocking_mode_' => asked'
    BY <1>1, <2>3, ServerStays DEF Redis2Inv
  <2> QED BY <2>2, <2>4, <2>5, <2>6, <2>7 DEF Redis2Inv
<1>4. CASE proto_connect /\ on_reset /\ Goto(AfterAssure(db_index_select_failure_'))
  <2> DEFINE step == AfterAssure(db_index_select_failure_')
  <2>1. /\ db_index_' = db_index_ /\ unreset' = FALSE /\ transaction_cmds_' = << >>
        /\ db_index_select_failure_' = (db_index_select_failure_ \/ db_index_ # 0)
    BY <1>4 DEF on_reset
  <2>2. /\ step \in {"reselect", "exec"} /\ (step = "reselect" <=> MustSelect')
    BY <2>1 DEF AfterAssure, MustSelect
  <2> HIDE DEF step
  <2>3. /\ pc' = step /\ op' = op /\ cmd' = cmd /\ MethodFits'
        /\ pc' \in Steps /\ op' \in Methods /\ cmd' \in AllCommands
        /\ ret' \in {"none", "true", "false"}
    BY <1>2, <1>4, <2>2 DEF step
  <2>4. transaction_cmds_' \in Seq(UserCommands)
    BY <2>1
  <2>5. db_index_select_failure_' \in BOOLEAN /\ db_index_' \in Databases
        /\ unreset' \in BOOLEAN
    BY <1>t, <2>1 DEF TypeOK
  <2>6. MustSelect' \/ db_index_' = 0
    BY <2>1 DEF MustSelect
  <2> QED BY <1>1, <1>4, <2>2, <2>3, <2>4, <2>5, <2>6, Reconnects
<1>5. CASE proto_close /\ Return("false") /\ UNCHANGED <<members, unreset>>
  BY <1>1, <1>5, Returns, Closes DEF proto_close
<1> QED BY <1>3, <1>4, <1>5 DEF assure_connect

\* The proto_->assure_connect(NULL) inside select(): the members stay.
LEMMA SelectConnects == Redis2Inv /\ select_connect => Redis2Inv'
<1> SUFFICES ASSUME Redis2Inv, select_connect PROVE Redis2Inv'
  OBVIOUS
<1>t. TypeOK /\ MethodFits /\ TransactionKnown /\ DatabaseKnown
  BY DEF Redis2Inv
<1> DEFINE step == IF pc = "select" THEN "select_exec" ELSE "reselect_exec"
<1>1. /\ pc \in {"reselect", "select"} /\ UNCHANGED members
      /\ inTxn' = inTxn /\ asked' = asked
      /\ inTxn \in BOOLEAN /\ asked \in BOOLEAN
  BY <1>t DEF select_connect, TypeOK
<1>m. /\ db_index_' = db_index_ /\ transaction_cmds_' = transaction_cmds_
      /\ db_index_select_failure_' = db_index_select_failure_
      /\ MustSelect' = MustSelect
      /\ db_index_' \in Databases /\ transaction_cmds_' \in Seq(UserCommands)
      /\ db_index_select_failure_' \in BOOLEAN
  BY <1>t, <1>1 DEF members, MustSelect, TypeOK
<1>2. ASSUME Goto(step)
      PROVE  /\ pc' \in {"reselect_exec", "select_exec"} /\ op' = op /\ MethodFits'
             /\ pc' = "reselect_exec" => MustSelect'
             /\ pc' \in Steps /\ op' \in Methods /\ cmd' \in AllCommands
             /\ ret' \in {"none", "true", "false"}
  <2>1. pc' = step /\ op' = op /\ cmd' = cmd /\ ret' = ret
    BY <1>2 DEF Goto
  <2>2. MethodFits'
    BY <1>t, <1>1, <2>1 DEF MethodFits
  <2>3. pc' = "reselect_exec" => MustSelect'
    BY <1>t, <1>1, <1>m, <2>1 DEF DatabaseKnown
  <2> QED BY <1>t, <2>1, <2>2, <2>3 DEF TypeOK, Steps
<1>3. CASE fd_ /\ Goto(step) /\ UNCHANGED <<proto, server, owed, unreset>>
  <2>1. UNCHANGED <<proto, members, server, owed, unreset, asked>>
    BY <1>1, <1>3
  <2>2. /\ pc' \in {"reselect_exec", "select_exec"} /\ op' = op /\ MethodFits'
        /\ pc' = "reselect_exec" => MustSelect'
        /\ pc' \in Steps /\ op' \in Methods /\ cmd' \in AllCommands
        /\ ret' \in {"none", "true", "false"}
    BY <1>2, <1>3
  <2>3. TypeOK'
    BY <1>t, <1>1, <2>1, <2>2 DEF TypeOK, proto, members, server
  <2>4. TransactionKnown'
    <3>1. peer' /\ ~owed' /\ multi' => inTxn' \/ op' \in {"exec", "discard"}
      BY <1>t, <1>1, <2>1, <2>2 DEF TransactionKnown, server
    <3> QED BY <2>1, <3>1, ServerStays DEF TransactionKnown
  <2>5. DatabaseKnown'
    BY <2>1, <2>2, ServerStays DEF DatabaseKnown
  <2>6. blocking_mode_' => asked'
    BY <1>1, <2>1, ServerStays DEF Redis2Inv
  <2> QED BY <2>2, <2>3, <2>4, <2>5, <2>6 DEF Redis2Inv
<1>4. CASE proto_connect /\ unreset' = TRUE /\ Goto(step)
  <2>1. /\ pc' \in {"reselect_exec", "select_exec"} /\ op' = op /\ MethodFits'
        /\ pc' = "reselect_exec" => MustSelect'
        /\ pc' \in Steps /\ op' \in Methods /\ cmd' \in AllCommands
        /\ ret' \in {"none", "true", "false"}
    BY <1>2, <1>4
  <2> QED BY <1>1, <1>m, <1>4, <2>1, Reconnects
<1>5. CASE proto_close /\ Return("false") /\ UNCHANGED unreset
  BY <1>1, <1>5, Returns, Closes DEF proto_close
<1> QED BY <1>3, <1>4, <1>5 DEF select_connect

\* check_connect: the transaction is given up only when the server is gone.
LEMMA Checks == Redis2Inv /\ check_connect => Redis2Inv'
<1> SUFFICES ASSUME Redis2Inv, check_connect PROVE Redis2Inv'
  OBVIOUS
<1>t. TypeOK /\ MethodFits /\ TransactionKnown /\ DatabaseKnown
  BY DEF Redis2Inv
<1>1. /\ pc = "check" /\ op \in {"add_command", "add_commandv", "exec", "discard"}
      /\ UNCHANGED <<proto, members, server, owed, unreset, asked>>
      /\ inTxn' = inTxn
  BY <1>t DEF check_connect, MethodFits, ghosts
<1>2. CASE fd_ /\ Goto("exec")
  <2>1. pc' = "exec" /\ op' = op /\ cmd' = cmd /\ ret' = ret
    BY <1>2 DEF Goto
  <2>2. MethodFits'
    BY <1>t, <1>1, <2>1 DEF MethodFits
  <2>3. TypeOK'
    BY <1>t, <1>1, <2>1 DEF TypeOK, proto, members, server, Steps
  <2>4. TransactionKnown'
    <3>1. peer' /\ ~owed' /\ multi' => inTxn' \/ op' \in {"exec", "discard"}
      BY <1>t, <1>1, <2>1 DEF TransactionKnown, server
    <3> QED BY <1>1, <3>1, ServerStays DEF TransactionKnown
  <2>5. DatabaseKnown'
    BY <1>1, <2>1, ServerStays DEF DatabaseKnown
  <2>6. blocking_mode_' => asked'
    BY <1>1, ServerStays DEF Redis2Inv
  <2> QED BY <2>2, <2>3, <2>4, <2>5, <2>6 DEF Redis2Inv
<1>3. CASE MayLookClosed /\ Return("false")
  <2>1. ~peer
    BY <1>t, <1>3 DEF MayLookClosed, TransactionKnown
  <2>2. /\ pc' = "idle" /\ op' = "none" /\ MethodFits'
        /\ pc' \in Steps /\ op' \in Methods /\ cmd' \in AllCommands
        /\ ret' \in {"none", "true", "false"}
    BY <1>3, Returns
  <2>3. TypeOK'
    BY <1>t, <1>1, <2>2 DEF TypeOK, proto, members, server
  <2>4. TransactionKnown'
    <3>1. ~peer'
      BY <1>1, <2>1 DEF server
    <3> QED BY <1>1, <3>1, ServerStays DEF TransactionKnown
  <2>5. DatabaseKnown'
    BY <1>1, <2>2, ServerStays DEF DatabaseKnown
  <2>6. blocking_mode_' => asked'
    BY <1>1, ServerStays DEF Redis2Inv
  <2> QED BY <2>2, <2>3, <2>4, <2>5, <2>6 DEF Redis2Inv
<1> QED BY <1>2, <1>3 DEF check_connect

\* set_blocking_mode and a server that goes away.
LEMMA Outside == Redis2Inv /\ (set_blocking_mode \/ server_closes) => Redis2Inv'
<1> SUFFICES ASSUME Redis2Inv, set_blocking_mode \/ server_closes PROVE Redis2Inv'
  OBVIOUS
<1>t. TypeOK /\ MethodFits /\ TransactionKnown /\ DatabaseKnown
  BY DEF Redis2Inv
<1>1. /\ fd_' = fd_ /\ transaction_mode_' = transaction_mode_
      /\ db_index_' = db_index_ /\ transaction_cmds_' = transaction_cmds_
      /\ db_index_select_failure_' = db_index_select_failure_
      /\ pc' = pc /\ op' = op /\ cmd' = cmd /\ ret' = ret
      /\ db' = db /\ multi' = multi /\ queue' = queue
      /\ owed' = owed /\ unreset' = unreset /\ inTxn' = inTxn
  BY DEF set_blocking_mode, server_closes, proto, members, method, server, ghosts
<1>2. /\ peer' \in BOOLEAN /\ (peer' => peer)
      /\ blocking_mode_' \in BOOLEAN /\ asked' \in BOOLEAN
      /\ blocking_mode_' => asked'
  <2>1. CASE set_blocking_mode
    <3>1. /\ peer' = peer /\ blocking_mode_' = ~blocking_mode_
          /\ asked' = ~blocking_mode_
      BY <2>1 DEF set_blocking_mode, server
    <3> QED BY <1>t, <3>1 DEF TypeOK
  <2>2. CASE server_closes
    <3>1. peer' = FALSE /\ blocking_mode_' = blocking_mode_ /\ asked' = asked
      BY <2>2 DEF server_closes, proto, ghosts
    <3> QED BY <1>t, <3>1 DEF TypeOK, Redis2Inv
  <2> QED BY <2>1, <2>2
<1>4. TypeOK'
  BY <1>t, <1>1, <1>2 DEF TypeOK
<1>5. MethodFits'
  BY <1>t, <1>1 DEF MethodFits
<1>6. TransactionKnown'
  <2>1. QueueIsSuffix'
    BY <1>t, <1>1 DEF TransactionKnown, QueueIsSuffix
  <2> QED BY <1>t, <1>1, <1>2, <2>1 DEF TransactionKnown
<1>7. MustSelect' = MustSelect
  BY <1>1 DEF MustSelect
<1>8. DatabaseKnown'
  BY <1>t, <1>1, <1>2, <1>7 DEF DatabaseKnown
<1> QED BY <1>1, <1>2, <1>4, <1>5, <1>6, <1>8 DEF Redis2Inv

-----------------------------------------------------------------------------
(***************************************************************************)
(* proto_->exec_command.                                                   *)
(***************************************************************************)

\* What each method sends.
LEMMA SentCommand ==
  ASSUME Redis2Inv, pc \in ExecSteps
  PROVE  /\ Sent \in AllCommands
         /\ pc = "exec" => Sent = cmd
         /\ pc \in {"reselect_exec", "select_exec"} =>
              Sent.name = "SELECT" /\ Sent.arg \in Databases
         /\ pc = "reselect_exec" => Sent.arg = db_index_ /\ MustSelect
         /\ pc = "exec" => op \in Methods \ {"none", "select"}
         /\ pc = "exec" /\ op \in {"command", "bxpop", "add_command", "add_commandv"} =>
              Sent \in UserCommands /\ Sent.name \in {"SET", "GET"}
         /\ pc = "exec" /\ op = "multi" => Sent.name = "MULTI"
         /\ pc = "exec" /\ op = "exec" => Sent.name = "EXEC"
         /\ pc = "exec" /\ op = "discard" => Sent.name = "DISCARD"
<1>t. TypeOK /\ MethodFits /\ DatabaseKnown
  BY DEF Redis2Inv
<1>1. CASE pc = "reselect_exec"
  <2>1. Sent = [name |-> "SELECT", arg |-> db_index_] /\ db_index_ \in Databases
    BY <1>t, <1>1 DEF Sent, TypeOK
  <2> QED BY <1>t, <1>1, <2>1, CommandNames DEF DatabaseKnown
<1>2. CASE pc = "select_exec"
  <2>1. Sent = cmd /\ cmd \in SelectCommands
    BY <1>t, <1>2 DEF Sent, MethodFits
  <2> QED BY <1>2, <2>1, CommandNames
<1>3. CASE pc = "exec"
  <2>1. Sent = cmd /\ cmd \in AllCommands /\ op \in Methods \ {"none", "select"}
    BY <1>t, <1>3 DEF Sent, MethodFits, TypeOK
  <2>2. op \in {"command", "bxpop", "add_command", "add_commandv"} =>
          Sent \in UserCommands /\ Sent.name \in {"SET", "GET"}
    BY <1>t, <2>1, CommandNames DEF MethodFits
  <2>3. /\ op = "multi" => Sent.name = "MULTI"
        /\ op = "exec" => Sent.name = "EXEC"
        /\ op = "discard" => Sent.name = "DISCARD"
    BY <1>t, <2>1, CommandNames DEF MethodFits, TxnNames
  <2> QED BY <1>3, <2>1, <2>2, <2>3
<1> QED BY <1>1, <1>2, <1>3 DEF ExecSteps

\* As long as no reply is owed, no SELECT is sent or queued inside a
\* transaction, and no command runs in one that the application does not know.
LEMMA CalmServer ==
  ASSUME Redis2Inv, pc \in ExecSteps, peer, ~owed
  PROVE  /\ Sent.name = "SELECT" => ~multi
         /\ pc = "exec" /\ op \in {"command", "bxpop"} => ~multi
         /\ DbAfterQueue = db
<1>t. TypeOK /\ MethodFits /\ TransactionKnown /\ DatabaseKnown
  BY DEF Redis2Inv
<1>1. Sent.name = "SELECT" => pc \in {"reselect_exec", "select_exec"}
  BY SentCommand DEF ExecSteps, Methods
<1>2. pc = "reselect_exec" => ~multi
  BY <1>t DEF DatabaseKnown
<1>3. op \in {"command", "bxpop", "select"} => ~multi
  BY <1>t DEF TransactionKnown, MethodFits
<1>4. pc = "select_exec" => ~multi
  BY <1>t, <1>3 DEF MethodFits
<1>5. \A i \in 1..Len(queue) : queue[i] \in UserCommands
  <2> TAKE i \in 1..Len(queue)
  <2>1. /\ Len(queue) <= Len(transaction_cmds_)
        /\ queue[i] = transaction_cmds_[Len(transaction_cmds_) - Len(queue) + i]
    BY <1>t DEF TransactionKnown, QueueIsSuffix
  <2>2. Len(transaction_cmds_) - Len(queue) + i \in 1..Len(transaction_cmds_)
    BY <1>t, <2>1 DEF TypeOK
  <2> QED BY <1>t, <2>1, <2>2 DEF TypeOK
<1>6. DbAfterQueue = db
  BY <1>t, <1>5, QueuedSelects
<1> QED BY <1>1, <1>2, <1>3, <1>4, <1>6

\* The server has answered what was sent.
LEMMA Answered ==
  ASSUME Redis2Inv, pc \in ExecSteps, peer, NEW reply \in Replies(Sent),
         Serve(Sent, reply)
  PROVE  /\ db' \in Databases /\ multi' \in BOOLEAN /\ queue' \in Seq(AllCommands)
         /\ peer' = peer
         /\ ~multi' => queue' = << >>
         /\ ~owed /\ multi' => inTxn \/ (op = "multi" /\ pc = "exec" /\ reply = "ok")
         /\ ~owed /\ multi' /\ ~multi => op = "multi" /\ pc = "exec"
         /\ ~owed /\ pc = "exec" => db' = db
         /\ ~owed /\ pc # "exec" =>
              /\ db' = (IF reply = "ok" THEN Sent.arg ELSE db)
              /\ reply # "queued" /\ ~multi'
         /\ pc = "exec" /\ op \in {"exec", "discard"} => ~multi' /\ queue' = << >>
         /\ ~owed /\ ~(pc = "exec" /\ op \in {"add_command", "add_commandv"}) =>
              queue' \in {queue, << >>}
         /\ ~owed /\ pc = "exec" /\ op \in {"add_command", "add_commandv"} =>
              \/ queue' = << >>
              \/ queue' = (IF reply = "queued" THEN Append(queue, Sent) ELSE queue)
         /\ ~owed /\ reply = "error" => queue' \in {queue, << >>}
<1>t. TypeOK /\ MethodFits /\ TransactionKnown /\ DatabaseKnown
  BY DEF Redis2Inv
<1> DEFINE c == Sent
<1>c. /\ c \in AllCommands /\ (pc \in {"reselect_exec", "select_exec"} => c.name = "SELECT")
      /\ pc = "exec" => op \in Methods \ {"none", "select"}
      /\ pc = "exec" /\ op \in {"command", "bxpop", "add_command", "add_commandv"} =>
           c.name \in {"SET", "GET"}
      /\ pc = "exec" /\ op = "multi" => c.name = "MULTI"
      /\ pc = "exec" /\ op = "exec" => c.name = "EXEC"
      /\ pc = "exec" /\ op = "discard" => c.name = "DISCARD"
  BY SentCommand
<1>k. ~owed => /\ c.name = "SELECT" => ~multi
               /\ pc = "exec" /\ op \in {"command", "bxpop"} => ~multi
               /\ DbAfterQueue = db
  BY CalmServer
<1> HIDE DEF c
<1>s. c = Sent
  BY DEF c
<1>1. /\ db' \in Databases /\ multi' \in BOOLEAN /\ queue' \in Seq(AllCommands)
      /\ peer' = peer
      /\ ~multi' => queue' = << >>
      /\ c.name \in {"DISCARD", "EXEC"} => ~multi' /\ queue' = << >>
      /\ c.name = "MULTI" => queue' = queue /\ (reply = "ok" <=> ~multi /\ multi')
                             /\ db' = db /\ (multi => multi')
      /\ c.name \notin TxnNames => multi' = multi
      /\ c.name \notin TxnNames /\ ~multi => queue' = queue /\ reply # "queued"
      /\ c.name \in {"SET", "GET"} => db' = db
      /\ c.name = "SELECT" /\ ~multi => db' = IF reply = "ok" THEN c.arg ELSE db
      /\ c.name \in {"SET", "GET"} /\ multi =>
           queue' = IF reply = "queued" THEN Append(queue, c) ELSE queue
      /\ reply = "error" /\ c.name \notin {"DISCARD", "EXEC"} =>
           queue' = queue /\ multi' = multi /\ db' = db
      /\ c.name \in {"DISCARD", "EXEC"} => db' \in {db, DbAfterQueue}
  BY <1>t, <1>c, <1>s, ServerAnswers DEF TransactionKnown
<1>2. multi /\ ~owed => inTxn \/ op \in {"exec", "discard"}
  BY <1>t DEF TransactionKnown
<1>3. CASE pc \in {"reselect_exec", "select_exec"}
  <2>1. c.name = "SELECT" /\ c.name \notin TxnNames /\ pc # "exec"
    BY <1>c, <1>3 DEF TxnNames
  <2> QED BY <1>k, <1>s, <1>1, <2>1
<1>4. CASE pc = "exec" /\ op \in {"command", "bxpop"}
  <2>1. c.name \in {"SET", "GET"} /\ c.name \notin TxnNames
    BY <1>c, <1>4 DEF TxnNames
  <2> QED BY <1>k, <1>1, <1>4, <2>1
<1>5. CASE pc = "exec" /\ op \in {"add_command", "add_commandv"}
  <2>1. c.name \in {"SET", "GET"} /\ c.name \notin TxnNames
    BY <1>c, <1>5 DEF TxnNames
  <2> QED BY <1>s, <1>1, <1>2, <1>5, <2>1
<1>6. CASE pc = "exec" /\ op = "multi"
  <2>1. c.name = "MULTI"
    BY <1>c, <1>6
  <2> QED BY <1>1, <1>2, <1>6, <2>1
<1>7. CASE pc = "exec" /\ op \in {"exec", "discard"}
  <2>1. c.name \in {"EXEC", "DISCARD"}
    BY <1>c, <1>7
  <2> QED BY <1>k, <1>1, <1>7, <2>1
<1> QED BY <1>c, <1>3, <1>4, <1>5, <1>6, <1>7 DEF ExecSteps, Methods

\* The server's queue was emptied or stayed, and transaction_cmds_ stayed.
LEMMA QueueStays ==
  ASSUME Redis2Inv, transaction_cmds_' = transaction_cmds_,
         ~owed' => ~owed /\ queue' \in {queue, << >>}
  PROVE  QueueIsSuffix'
<1>1. transaction_cmds_' \in Seq(UserCommands) /\ QueueIsSuffix
  BY DEF Redis2Inv, TypeOK, TransactionKnown
<1>2. CASE queue' = << >>
  BY <1>1, <1>2, EmptyQueue
<1>3. CASE queue' # << >>
  BY <1>1, <1>3 DEF QueueIsSuffix
<1> QED BY <1>2, <1>3

\* The server has queued the command that transaction_cmds_ gets.
LEMMA QueueGrows ==
  ASSUME TypeOK, QueueIsSuffix, ~owed, NEW c \in UserCommands,
         queue' = Append(queue, c), transaction_cmds_' = Append(transaction_cmds_, c)
  PROVE  QueueIsSuffix'
<1> DEFINE n == Len(queue)
           m == Len(transaction_cmds_)
<1>1. /\ queue \in Seq(AllCommands) /\ transaction_cmds_ \in Seq(UserCommands)
      /\ n \in Nat /\ m \in Nat /\ n <= m
      /\ \A i \in 1..n : queue[i] = transaction_cmds_[m - n + i]
  BY DEF TypeOK, QueueIsSuffix
<1>2. Len(queue') = n + 1 /\ Len(transaction_cmds_') = m + 1
  BY <1>1
<1>3. ASSUME NEW i \in 1..(n + 1)
      PROVE  queue'[i] = transaction_cmds_'[(m + 1) - (n + 1) + i]
  <2>1. CASE i = n + 1
    BY <1>1, <2>1
  <2>2. CASE i \in 1..n
    <3>1. queue'[i] = queue[i]
      BY <1>1, <2>2
    <3>2. m - n + i \in 1..m /\ (m + 1) - (n + 1) + i = m - n + i
      BY <1>1, <2>2
    <3>3. transaction_cmds_'[m - n + i] = transaction_cmds_[m - n + i]
      BY <1>1, <3>2
    <3> QED BY <1>1, <2>2, <3>1, <3>2, <3>3
  <2>3. i = n + 1 \/ i \in 1..n
    <3> HIDE DEF n
    <3> QED BY <1>1
  <2> QED BY <2>1, <2>2, <2>3
<1> HIDE DEF n, m
<1>4. Len(queue') <= Len(transaction_cmds_')
  BY <1>1, <1>2
<1>5. \A i \in 1..Len(queue') :
        queue'[i] = transaction_cmds_'[Len(transaction_cmds_') - Len(queue') + i]
  BY <1>2, <1>3
<1> QED BY <1>4, <1>5 DEF QueueIsSuffix

\* A suffix as long as the whole is the whole.
LEMMA SuffixIsAll ==
  ASSUME TypeOK, QueueIsSuffix, ~owed, Len(queue) = Len(transaction_cmds_)
  PROVE  queue = transaction_cmds_
<1>1. queue \in Seq(AllCommands) /\ transaction_cmds_ \in Seq(UserCommands)
      /\ Len(queue) \in Nat
  BY DEF TypeOK
<1>2. transaction_cmds_ \in Seq(AllCommands)
  BY <1>1, CommandNames
<1>3. \A i \in 1..Len(queue) : queue[i] = transaction_cmds_[i]
  BY <1>1 DEF QueueIsSuffix
<1> QED BY <1>1, <1>2, <1>3, SeqEqual

\* The members stay and the server did not change its database: still known.
LEMMA DatabaseStays ==
  ASSUME Redis2Inv, pc \in ExecSteps, peer, NEW reply \in Replies(Sent),
         Serve(Sent, reply), ~owed' => ~owed,
         UNCHANGED <<db_index_, db_index_select_failure_, unreset>>,
         pc' = "idle", ~owed => pc = "exec" \/ reply # "ok"
  PROVE  DatabaseKnown'
<1>1. MustSelect' = MustSelect
  BY DEF MustSelect
<1>2. ~owed => db' = db /\ (multi' /\ ~multi => op = "multi" /\ pc = "exec")
  BY Answered
<1>3. peer' /\ ~owed' /\ multi' => ~MustSelect'
  BY <1>1, <1>2 DEF Redis2Inv, DatabaseKnown
<1>4. peer' /\ ~owed' /\ ~unreset' => MustSelect' \/ db' = db_index_'
  BY <1>1, <1>2 DEF Redis2Inv, DatabaseKnown
<1> QED BY <1>3, <1>4 DEF DatabaseKnown

\* What is left to show of a step in which the server answered.
LEMMA Concludes ==
  ASSUME Redis2Inv, pc \in ExecSteps, peer, NEW reply \in Replies(Sent),
         Serve(Sent, reply),
         UNCHANGED <<fd_, blocking_mode_, asked>>, transaction_mode_' \in BOOLEAN,
         db_index_' \in Databases, db_index_select_failure_' \in BOOLEAN,
         transaction_cmds_' \in Seq(UserCommands), unreset' \in BOOLEAN,
         owed' \in BOOLEAN, inTxn' \in BOOLEAN,
         pc' \in Steps, op' \in Methods, cmd' \in AllCommands,
         ret' \in {"none", "true", "false"}, MethodFits',
         ~owed' /\ multi' => inTxn',
         QueueIsSuffix', DatabaseKnown'
  PROVE  Redis2Inv'
<1>1. /\ db' \in Databases /\ multi' \in BOOLEAN /\ queue' \in Seq(AllCommands)
      /\ peer' = peer
      /\ ~multi' => queue' = << >>
  BY Answered
<1>2. TypeOK'
  BY <1>1 DEF Redis2Inv, TypeOK
<1>3. TransactionKnown'
  BY <1>1 DEF Redis2Inv, TransactionKnown
<1>4. blocking_mode_' => asked'
  BY DEF Redis2Inv
<1> QED BY <1>2, <1>3, <1>4 DEF Redis2Inv

\* exec_command has closed the connection; bxpop's mode was the application's.
LEMMA Fails == Redis2Inv /\ exec_fails => Redis2Inv'
<1> SUFFICES ASSUME Redis2Inv, exec_fails PROVE Redis2Inv'
  OBVIOUS
<1>1. /\ CloseThenBlock(BlockingAfterFailure) /\ Return("false")
      /\ UNCHANGED <<members, unreset>> /\ inTxn' = inTxn /\ asked' = asked
  BY DEF exec_fails
<1>2. BlockingAfterFailure \in BOOLEAN /\ (BlockingAfterFailure => asked')
  BY <1>1 DEF BlockingAfterFailure, Redis2Inv
<1>3. inTxn' \in BOOLEAN /\ asked' \in BOOLEAN
  BY <1>1 DEF Redis2Inv, TypeOK
<1> QED BY <1>1, <1>2, <1>3, Returns, Closes

\* check_argc has refused the command: nothing was sent.
LEMMA Refuses == Redis2Inv /\ exec_refused => Redis2Inv'
<1> SUFFICES ASSUME Redis2Inv, exec_refused PROVE Redis2Inv'
  OBVIOUS
<1>1. /\ op \notin {"exec", "discard"} /\ Return("false")
      /\ UNCHANGED <<proto, members, server, owed, unreset, asked>>
      /\ inTxn' = inTxn
  BY DEF exec_refused, ghosts
<1>2. /\ pc' = "idle" /\ op' = "none" /\ MethodFits'
      /\ pc' \in Steps /\ op' \in Methods /\ cmd' \in AllCommands
      /\ ret' \in {"none", "true", "false"}
  BY <1>1, Returns
<1>3. TypeOK'
  BY <1>1, <1>2 DEF Redis2Inv, TypeOK, proto, members, server
<1>4. TransactionKnown'
  <2>1. peer' /\ ~owed' /\ multi' => inTxn'
    BY <1>1 DEF Redis2Inv, TransactionKnown, server
  <2> QED BY <1>1, <2>1, ServerStays DEF TransactionKnown
<1>5. DatabaseKnown'
  BY <1>1, <1>2, ServerStays DEF DatabaseKnown
<1>6. blocking_mode_' => asked'
  BY <1>1, ServerStays DEF Redis2Inv
<1> QED BY <1>2, <1>3, <1>4, <1>5, <1>6 DEF Redis2Inv

\* An error reply, to the command or to one in the transaction.
LEMMA Errs == Redis2Inv /\ exec_error => Redis2Inv'
<1> SUFFICES ASSUME Redis2Inv, exec_error PROVE Redis2Inv'
  OBVIOUS
<1>t. TypeOK
  BY DEF Redis2Inv
<1>1. /\ pc \in ExecSteps /\ peer /\ Return("false")
      /\ UNCHANGED <<proto, members, unreset, inTxn, asked>>
  BY DEF exec_error
<1>2. PICK reply \in Replies(Sent) :
        /\ Serve(Sent, reply)
        /\ \E seen \in Seen(reply) \cap {"error", "child_error"} :
             owed' \in {owed, owed \/ (seen = "child_error" /\ Len(queue) > 1)}
  BY DEF exec_error
<1>3. PICK seen \in Seen(reply) \cap {"error", "child_error"} :
        owed' \in {owed, owed \/ (seen = "child_error" /\ Len(queue) > 1)}
  BY <1>2
<1>4. owed' \in BOOLEAN /\ (owed => owed')
  BY <1>t, <1>3 DEF TypeOK
<1>5. ~owed => reply \in {"error", "child_error"}
  BY <1>3 DEF Seen
<1>6. /\ pc' = "idle" /\ op' = "none" /\ MethodFits'
      /\ pc' \in Steps /\ op' \in Methods /\ cmd' \in AllCommands
      /\ ret' \in {"none", "true", "false"}
  BY <1>1, Returns
<1>7. /\ UNCHANGED <<fd_, blocking_mode_, asked>> /\ transaction_mode_' \in BOOLEAN
      /\ db_index_' \in Databases /\ db_index_select_failure_' \in BOOLEAN
      /\ transaction_cmds_' \in Seq(UserCommands) /\ unreset' \in BOOLEAN
      /\ inTxn' \in BOOLEAN /\ inTxn' = inTxn
      /\ transaction_cmds_' = transaction_cmds_
      /\ UNCHANGED <<db_index_, db_index_select_failure_, unreset>>
  BY <1>t, <1>1 DEF TypeOK, proto, members
<1>8. ~owed /\ multi' => inTxn'
  <2>1. ~owed /\ multi' => inTxn \/ (op = "multi" /\ pc = "exec" /\ reply = "ok")
    BY <1>1, <1>2, Answered
  <2> QED BY <1>5, <1>7, <2>1
<1>9. QueueIsSuffix'
  <2>1. ~owed => queue' \in {queue, << >>}
    <3>1. CASE reply = "error"
      BY <1>1, <1>2, <3>1, Answered
    <3>2. CASE reply = "child_error"
      <4>1. ~(pc = "exec" /\ op \in {"add_command", "add_commandv"})
        <5> SUFFICES ASSUME Sent.name \in {"SET", "GET"} PROVE FALSE
          BY <1>1, SentCommand
        <5> QED BY <1>2, <3>2 DEF Replies, TxnNames
      <4> QED BY <1>1, <1>2, <4>1, Answered
    <3> QED BY <1>5, <3>1, <3>2
  <2> QED BY <1>4, <1>7, <2>1, QueueStays
<1>10. DatabaseKnown'
  BY <1>1, <1>2, <1>4, <1>5, <1>6, <1>7, DatabaseStays
<1> QED BY <1>1, <1>2, <1>4, <1>6, <1>7, <1>8, <1>9, <1>10, Concludes

\* exec_command has returned true: the reply is the server's own unless
\* replies were left unread.
LEMMA Accepts ==
  ASSUME Redis2Inv, pc \in ExecSteps, NEW seen, ExecTrue(seen)
  PROVE  /\ peer
         /\ \E reply \in Replies(Sent) : Serve(Sent, reply) /\ (~owed => reply = seen)
         /\ TypeMatches(Sent, seen)
         /\ UNCHANGED <<fd_, blocking_mode_, asked>>
         /\ owed' = owed /\ owed' \in BOOLEAN /\ transaction_mode_' \in BOOLEAN
<1>1. /\ peer /\ TypeMatches(Sent, seen)
      /\ UNCHANGED <<fd_, blocking_mode_, asked>> /\ owed' = owed
      /\ transaction_mode_' = ModeAfter(Sent)
  BY DEF ExecTrue
<1>2. \E reply \in Replies(Sent) : Serve(Sent, reply) /\ (~owed => reply = seen)
  BY DEF ExecTrue, Seen
<1>3. ModeAfter(Sent) \in BOOLEAN
  BY DEF ModeAfter, Redis2Inv, TypeOK
<1> QED BY <1>1, <1>2, <1>3 DEF Redis2Inv, TypeOK

\* select() stores the database that the server has switched to.
LEMMA Selects == Redis2Inv /\ select_done => Redis2Inv'
<1> SUFFICES ASSUME Redis2Inv, select_done PROVE Redis2Inv'
  OBVIOUS
<1>t. TypeOK /\ MethodFits
  BY DEF Redis2Inv
<1>1. /\ pc \in {"reselect_exec", "select_exec"} /\ pc \in ExecSteps
      /\ transaction_cmds_' = transaction_cmds_ /\ inTxn' = inTxn
  BY DEF select_done, ExecSteps
<1>2. PICK seen \in AllReplies :
        /\ ExecTrue(seen)
        /\ db_index_' = Sent.arg
        /\ db_index_select_failure_' = (seen # "ok")
        /\ unreset' = (unreset /\ seen # "ok")
        /\ IF pc = "reselect_exec" /\ seen = "ok" THEN Goto("exec")
                                                 ELSE ReturnIf(seen = "ok")
  BY DEF select_done
<1>3. /\ peer /\ TypeMatches(Sent, seen)
      /\ \E reply \in Replies(Sent) : Serve(Sent, reply) /\ (~owed => reply = seen)
      /\ UNCHANGED <<fd_, blocking_mode_, asked>>
      /\ owed' = owed /\ owed' \in BOOLEAN /\ transaction_mode_' \in BOOLEAN
  BY <1>1, <1>2, Accepts
<1>4. PICK reply \in Replies(Sent) : Serve(Sent, reply) /\ (~owed => reply = seen)
  BY <1>3
<1>5. Sent.name = "SELECT" /\ Sent.arg \in Databases
  BY <1>1, SentCommand
<1>6. seen \in {"ok", "queued"}
  BY <1>3, <1>5 DEF TypeMatches, IsStatusCommand
<1>7. ~owed => db' = Sent.arg /\ seen = "ok" /\ ~multi' /\ queue' \in {queue, << >>}
  <2>1. ~owed => /\ db' = (IF reply = "ok" THEN Sent.arg ELSE db)
                 /\ reply # "queued" /\ ~multi' /\ queue' \in {queue, << >>}
    BY <1>1, <1>3, <1>4, Answered
  <2> QED BY <1>4, <1>6, <2>1
<1>8. /\ db_index_' \in Databases /\ db_index_select_failure_' \in BOOLEAN
      /\ unreset' \in BOOLEAN /\ inTxn' \in BOOLEAN
      /\ transaction_cmds_' \in Seq(UserCommands)
      /\ MustSelect' => seen # "ok"
  BY <1>t, <1>1, <1>2, <1>5 DEF TypeOK, MustSelect
<1>9. /\ MethodFits'
      /\ pc' \in {"exec", "idle"} /\ (pc' = "exec" => seen = "ok")
      /\ pc' \in Steps /\ op' \in Methods /\ cmd' \in AllCommands
      /\ ret' \in {"none", "true", "false"}
  <2>1. CASE pc = "reselect_exec" /\ seen = "ok"
    <3>1. pc' = "exec" /\ op' = op /\ cmd' = cmd /\ ret' = ret
      BY <1>2, <2>1 DEF Goto
    <3>2. MethodFits'
      BY <1>t, <1>1, <2>1, <3>1 DEF MethodFits
    <3> QED BY <1>t, <2>1, <3>1, <3>2 DEF TypeOK, Steps
  <2>2. CASE ~(pc = "reselect_exec" /\ seen = "ok")
    <3>1. Return(IF seen = "ok" THEN "true" ELSE "false")
      BY <1>2, <2>2 DEF ReturnIf
    <3> QED BY <3>1, Returns
  <2> QED BY <2>1, <2>2
<1>10. DatabaseKnown'
  BY <1>2, <1>3, <1>7, <1>8, <1>9 DEF DatabaseKnown
<1>11. QueueIsSuffix'
  BY <1>1, <1>3, <1>7, QueueStays
<1> QED BY <1>1, <1>3, <1>4, <1>7, <1>8, <1>9, <1>10, <1>11, Concludes

\* A method that returns with the members as they were: a command, multi(), an
\* exec() without a result.
LEMMA MembersStay ==
  ASSUME Redis2Inv, pc = "exec", NEW seen, ExecTrue(seen),
         NEW v \in {"true", "false"}, Return(v),
         UNCHANGED <<members, unreset>>, inTxn' \in BOOLEAN,
         ~owed /\ inTxn => inTxn',
         ~owed /\ op = "multi" /\ seen = "ok" => inTxn',
         op \notin {"add_command", "add_commandv"}
  PROVE  Redis2Inv'
<1>t. TypeOK /\ MethodFits
  BY DEF Redis2Inv
<1>1. pc \in ExecSteps
  BY DEF ExecSteps
<1>2. /\ peer
      /\ \E reply \in Replies(Sent) : Serve(Sent, reply) /\ (~owed => reply = seen)
      /\ UNCHANGED <<fd_, blocking_mode_, asked>>
      /\ owed' = owed /\ owed' \in BOOLEAN /\ transaction_mode_' \in BOOLEAN
  BY <1>1, Accepts
<1>3. PICK reply \in Replies(Sent) : Serve(Sent, reply) /\ (~owed => reply = seen)
  BY <1>2
<1>4. ~owed => /\ queue' \in {queue, << >>}
               /\ multi' => inTxn \/ (op = "multi" /\ pc = "exec" /\ reply = "ok")
  BY <1>1, <1>2, <1>3, Answered
<1>5. ~owed' /\ multi' => inTxn'
  BY <1>2, <1>3, <1>4
<1>6. /\ pc' = "idle" /\ op' = "none" /\ MethodFits'
      /\ pc' \in Steps /\ op' \in Methods /\ cmd' \in AllCommands
      /\ ret' \in {"none", "true", "false"}
  BY Returns
<1>7. /\ db_index_' \in Databases /\ db_index_select_failure_' \in BOOLEAN
      /\ transaction_cmds_' \in Seq(UserCommands) /\ unreset' \in BOOLEAN
      /\ transaction_cmds_' = transaction_cmds_
      /\ UNCHANGED <<db_index_, db_index_select_failure_, unreset>>
  BY <1>t DEF TypeOK, members
<1>8. QueueIsSuffix'
  BY <1>2, <1>4, <1>7, QueueStays
<1>9. DatabaseKnown'
  BY <1>1, <1>2, <1>3, <1>6, <1>7, DatabaseStays
<1> QED BY <1>1, <1>2, <1>3, <1>5, <1>6, <1>7, <1>8, <1>9, Concludes

LEMMA Returning ==
  Redis2Inv /\ (command_done \/ multi_done \/ exec_mismatch) => Redis2Inv'
<1> SUFFICES ASSUME Redis2Inv, command_done \/ multi_done \/ exec_mismatch
             PROVE  Redis2Inv'
  OBVIOUS
<1>t. inTxn \in BOOLEAN
  BY DEF Redis2Inv, TypeOK
<1>1. CASE command_done
  <2>1. PICK seen \in AllReplies : ExecTrue(seen) /\ ReturnIf(seen = "ok")
    BY <1>1 DEF command_done
  <2>2. Return(IF seen = "ok" THEN "true" ELSE "false")
    BY <2>1 DEF ReturnIf
  <2>3. /\ pc = "exec" /\ op \in {"command", "bxpop"} /\ inTxn' = inTxn
        /\ UNCHANGED <<members, unreset>>
    BY <1>1 DEF command_done
  <2> QED BY <1>t, <2>1, <2>2, <2>3, MembersStay
<1>2. CASE multi_done
  <2>1. PICK seen \in AllReplies : /\ ExecTrue(seen)
                                   /\ ReturnIf(seen = "ok")
                                   /\ inTxn' = (inTxn \/ seen = "ok")
    BY <1>2 DEF multi_done
  <2>2. Return(IF seen = "ok" THEN "true" ELSE "false")
    BY <2>1 DEF ReturnIf
  <2>3. pc = "exec" /\ op = "multi" /\ UNCHANGED <<members, unreset>>
    BY <1>2 DEF multi_done
  <2>4. inTxn' \in BOOLEAN /\ (inTxn \/ seen = "ok" => inTxn')
    BY <1>t, <2>1
  <2> QED BY <2>1, <2>2, <2>3, <2>4, MembersStay
<1>3. CASE exec_mismatch
  <2>1. /\ pc = "exec" /\ op = "exec" /\ Return("false") /\ inTxn' = inTxn
        /\ UNCHANGED <<members, unreset>>
        /\ ExecTrue("nil") \/ ExecTrue("array")
    BY <1>3 DEF exec_mismatch
  <2> QED BY <1>t, <2>1, MembersStay
<1> QED BY <1>1, <1>2, <1>3

\* A method that returns with another transaction_cmds_, which the server's
\* queue still is a suffix of.
LEMMA CommandsChange ==
  ASSUME Redis2Inv, pc = "exec", op # "multi", NEW seen, ExecTrue(seen),
         NEW v \in {"true", "false"}, Return(v),
         UNCHANGED <<db_index_, db_index_select_failure_, unreset, inTxn>>,
         transaction_cmds_' \in Seq(UserCommands), QueueIsSuffix'
  PROVE  Redis2Inv'
<1>t. TypeOK
  BY DEF Redis2Inv
<1>1. pc \in ExecSteps
  BY DEF ExecSteps
<1>2. /\ peer
      /\ \E reply \in Replies(Sent) : Serve(Sent, reply) /\ (~owed => reply = seen)
      /\ UNCHANGED <<fd_, blocking_mode_, asked>>
      /\ owed' = owed /\ owed' \in BOOLEAN /\ transaction_mode_' \in BOOLEAN
  BY <1>1, Accepts
<1>3. PICK reply \in Replies(Sent) : Serve(Sent, reply)
  BY <1>2
<1>4. ~owed' /\ multi' => inTxn'
  BY <1>1, <1>2, <1>3, Answered
<1>5. /\ pc' = "idle" /\ MethodFits'
      /\ pc' \in Steps /\ op' \in Methods /\ cmd' \in AllCommands
      /\ ret' \in {"none", "true", "false"}
  BY Returns
<1>6. /\ db_index_' \in Databases /\ db_index_select_failure_' \in BOOLEAN
      /\ unreset' \in BOOLEAN /\ inTxn' \in BOOLEAN
  BY <1>t DEF TypeOK
<1>7. DatabaseKnown'
  BY <1>1, <1>2, <1>3, <1>5, DatabaseStays
<1> QED BY <1>1, <1>2, <1>3, <1>4, <1>5, <1>6, <1>7, Concludes

\* add_command: the server queues the command and transaction_cmds_ gets it, or
\* the server runs it at once and its queue is empty.
LEMMA Adds == Redis2Inv /\ add_command_done => Redis2Inv'
<1> SUFFICES ASSUME Redis2Inv, add_command_done PROVE Redis2Inv'
  OBVIOUS
<1>t. TypeOK /\ TransactionKnown
  BY DEF Redis2Inv
<1>1. /\ pc = "exec" /\ op \in {"add_command", "add_commandv"} /\ pc \in ExecSteps
      /\ transaction_cmds_' = Append(transaction_cmds_, cmd)
      /\ Return(IF op = "add_commandv" THEN "true" ELSE "false")
      /\ UNCHANGED <<db_index_, db_index_select_failure_, unreset, inTxn>>
     
  BY DEF add_command_done, ReturnIf, ExecSteps
<1>2. PICK seen \in AllReplies : ExecTrue(seen)
  BY DEF add_command_done
<1>3. /\ peer /\ TypeMatches(Sent, seen) /\ owed' = owed
      /\ \E reply \in Replies(Sent) : Serve(Sent, reply) /\ (~owed => reply = seen)
  BY <1>1, <1>2, Accepts
<1>4. PICK reply \in Replies(Sent) : Serve(Sent, reply) /\ (~owed => reply = seen)
  BY <1>3
<1>5. Sent = cmd /\ cmd \in UserCommands /\ cmd.name \in {"SET", "GET"}
  BY <1>1, SentCommand
<1>6. transaction_cmds_' \in Seq(UserCommands)
  BY <1>t, <1>1, <1>5 DEF TypeOK
<1>7. QueueIsSuffix'
  <2>1. CASE owed
    BY <1>3, <2>1 DEF QueueIsSuffix
  <2>2. CASE queue' = << >>
    BY <1>6, <2>2, EmptyQueue
  <2>3. CASE ~owed /\ queue' # << >>
    <3>1. queue' = IF reply = "queued" THEN Append(queue, cmd) ELSE queue
      BY <1>1, <1>3, <1>4, <1>5, <2>3, Answered
    <3>2. reply \in {"ok", "queued"}
      BY <1>3, <1>4, <1>5, <2>3 DEF TypeMatches, IsStatusCommand
    <3>3. reply = "ok" => ~multi
      BY <1>4, <1>5 DEF Replies, TxnNames
    <3>4. reply = "queued"
      BY <1>t, <2>3, <3>1, <3>2, <3>3 DEF TransactionKnown
    <3> QED BY <1>t, <1>1, <1>5, <2>3, <3>1, <3>4, QueueGrows DEF TransactionKnown
  <2> QED BY <2>1, <2>2, <2>3
<1> QED BY <1>1, <1>2, <1>6, <1>7, CommandsChange

\* exec() hands out the replies, discard() drops the commands: both empty
\* transaction_cmds_ and the server's queue.
LEMMA EndsTransaction == Redis2Inv /\ (exec_done \/ discard_done) => Redis2Inv'
<1> SUFFICES ASSUME Redis2Inv, exec_done \/ discard_done PROVE Redis2Inv'
  OBVIOUS
<1>t. TypeOK /\ TransactionKnown
  BY DEF Redis2Inv
<1>1. ASSUME NEW seen, ExecTrue(seen), pc = "exec", op \in {"exec", "discard"},
             transaction_cmds_' \in Seq(UserCommands)
      PROVE  QueueIsSuffix'
  <2>1. pc \in ExecSteps
    BY <1>1 DEF ExecSteps
  <2>2. peer /\ \E reply \in Replies(Sent) : Serve(Sent, reply)
    BY <1>1, <2>1, Accepts
  <2>3. queue' = << >>
    BY <1>1, <2>1, <2>2, Answered
  <2> QED BY <1>1, <2>3, EmptyQueue
<1>2. CASE exec_done
  <2>1. /\ pc = "exec" /\ op = "exec" /\ ExecTrue("array") /\ SizesMatch
        /\ transaction_cmds_' = << >> /\ Return("true")
        /\ UNCHANGED <<db_index_, db_index_select_failure_, unreset, inTxn>>
    BY <1>2 DEF exec_done
  <2>2. transaction_cmds_' \in Seq(UserCommands)
    BY <2>1
  <2> QED BY <1>1, <2>1, <2>2, CommandsChange
<1>3. CASE discard_done
  <2>1. PICK seen \in AllReplies :
          /\ ExecTrue(seen)
          /\ ReturnIf(seen = "ok")
          /\ transaction_cmds_' = IF seen = "ok" THEN << >> ELSE transaction_cmds_
    BY <1>3 DEF discard_done
  <2>2. /\ pc = "exec" /\ op = "discard"
        /\ UNCHANGED <<db_index_, db_index_select_failure_, unreset, inTxn>>
        /\ Return(IF seen = "ok" THEN "true" ELSE "false")
    BY <1>3, <2>1 DEF discard_done, ReturnIf
  <2>3. transaction_cmds_' \in Seq(UserCommands)
    BY <1>t, <2>1, <2>2 DEF TypeOK
  <2> QED BY <1>1, <2>1, <2>2, <2>3, CommandsChange
<1> QED BY <1>2, <1>3

-----------------------------------------------------------------------------
(***************************************************************************)
(* The theorems.                                                           *)
(***************************************************************************)

\* A new Redis2 has no connection.
LEMMA Redis2Init == Init => Redis2Inv
<1> SUFFICES ASSUME Init PROVE Redis2Inv
  OBVIOUS
<1>1. /\ transaction_cmds_ \in Seq(UserCommands) /\ queue \in Seq(AllCommands)
      /\ Len(queue) = 0 /\ Len(transaction_cmds_) = 0
  BY DEF Init
<1>2. cmd \in AllCommands /\ pc \in Steps /\ op \in Methods /\ db \in Databases
  BY CommandNames, Redis2Assumption DEF Init, TxnNames, Steps, Methods
<1>3. TypeOK
  BY <1>1, <1>2 DEF Init, TypeOK
<1>4. MethodFits
  BY DEF Init, MethodFits
<1>5. TransactionKnown
  BY <1>1 DEF Init, TransactionKnown, QueueIsSuffix
<1>6. DatabaseKnown
  BY DEF Init, DatabaseKnown
<1> QED BY <1>3, <1>4, <1>5, <1>6 DEF Redis2Inv, Init

\* Every step of every method keeps the invariant.
LEMMA Redis2Next == Redis2Inv /\ [Next]_vars => Redis2Inv'
<1> SUFFICES ASSUME Redis2Inv, [Next]_vars PROVE Redis2Inv'
  OBVIOUS
<1>1. CASE UNCHANGED vars
  <2>1. TypeOK' /\ MethodFits' /\ (blocking_mode_' => asked')
    BY <1>1 DEF vars, Redis2Inv, TypeOK, MethodFits
  <2>2. TransactionKnown'
    BY <1>1 DEF vars, Redis2Inv, TransactionKnown, QueueIsSuffix
  <2>3. DatabaseKnown'
    BY <1>1 DEF vars, Redis2Inv, DatabaseKnown, MustSelect
  <2> QED BY <2>1, <2>2, <2>3 DEF Redis2Inv
<1>2. CASE command
  BY <1>2, Begins DEF command
<1>3. CASE bxpop
  BY <1>3, Begins DEF bxpop
<1>4. CASE select
  BY <1>4, Begins DEF select
<1>5. CASE start_multi
  BY <1>5, Begins DEF start_multi
<1>6. CASE add_command
  BY <1>6, Begins DEF add_command
<1>7. CASE start_exec
  BY <1>7, Begins DEF start_exec
<1>8. CASE start_discard
  BY <1>8, Begins DEF start_discard
<1>9. CASE connect \/ close \/ assure_connect \/ select_connect \/ check_connect
  BY <1>9, AppConnects, Assures, SelectConnects, Checks
<1>10. CASE set_blocking_mode \/ server_closes
  BY <1>10, Outside
<1>11. CASE exec_fails \/ exec_refused \/ exec_error
  BY <1>11, Fails, Refuses, Errs
<1>12. CASE select_done \/ command_done \/ multi_done \/ exec_mismatch
  BY <1>12, Selects, Returning
<1>13. CASE add_command_done \/ exec_done \/ discard_done
  BY <1>13, Adds, EndsTransaction
<1> QED BY <1>1, <1>2, <1>3, <1>4, <1>5, <1>6, <1>7, <1>8, <1>9, <1>10, <1>11,
           <1>12, <1>13 DEF Next

LEMMA Redis2Always == Spec => []Redis2Inv
BY Redis2Init, Redis2Next, PTL DEF Spec

\* The members of a Redis2 and what the server keeps for it stay well typed;
\* transaction_cmds_ holds the application's own commands only.
THEOREM Redis2TypeCorrect == Spec => []TypeOK
<1>1. Redis2Inv => TypeOK
  BY DEF Redis2Inv
<1> QED BY <1>1, Redis2Always, PTL

\* Over any number of lost connections and failed calls, a command that comes
\* through assure_connect runs in the database that select() was given.
THEOREM AlwaysSelectedDb == Spec => []SelectedDb
<1>1. Redis2Inv => SelectedDb
  BY DEF Redis2Inv, DatabaseKnown, SelectedDb
<1> QED BY <1>1, Redis2Always, PTL

\* Only exec_done returns true from exec(), and then the server's queue is a
\* suffix of transaction_cmds_ that is as long as it.
LEMMA ExecStep ==
  ASSUME Redis2Inv, Next, pc = "exec", op = "exec", ret' = "true"
  PROVE  owed \/ queue = transaction_cmds_
<1>1. cmd = Control("EXEC")
  BY DEF Redis2Inv, MethodFits
<1>2. ~(command \/ bxpop \/ select \/ start_multi \/ add_command \/ start_exec
        \/ start_discard \/ connect \/ close \/ set_blocking_mode)
  BY DEF command, bxpop, select, start_multi, add_command, start_exec,
         start_discard, Begin, connect, close, set_blocking_mode
<1>3. ~(assure_connect \/ select_connect \/ check_connect)
  BY DEF assure_connect, select_connect, check_connect
<1>4. ~(exec_fails \/ exec_refused \/ exec_error \/ exec_mismatch)
  BY DEF exec_fails, exec_refused, exec_error, exec_mismatch, Return
<1>5. ~(select_done \/ command_done \/ multi_done \/ add_command_done \/ discard_done)
  BY DEF select_done, command_done, multi_done, add_command_done, discard_done
<1>6. server_closes => ret' = ret
  BY DEF server_closes, method
<1>7. ret # "true"
  BY DEF Redis2Inv, MethodFits
<1>8. exec_done
  BY <1>2, <1>3, <1>4, <1>5, <1>6, <1>7 DEF Next
<1>9. SizesMatch
  BY <1>8 DEF exec_done
<1> QED BY <1>9, SuffixIsAll DEF SizesMatch, Redis2Inv, TransactionKnown

\* On a connection without abandoned replies exec() never hands the reply of
\* one command to another: when it returns true, the server has just run
\* transaction_cmds_, whatever became of the transactions before.
THEOREM AlwaysPaired == Spec => ExecPairs
<1>1. Redis2Inv /\ [Next]_vars =>
        [pc = "exec" /\ op = "exec" /\ ret' = "true" =>
           owed \/ queue = transaction_cmds_]_vars
  BY ExecStep
<1> QED BY <1>1, Redis2Always, PTL DEF Spec, ExecPairs

\* What the server has queued is what transaction_cmds_ ends with.
THEOREM AlwaysSuffix == Spec => []QueueIsSuffix
<1>1. Redis2Inv => QueueIsSuffix
  BY DEF Redis2Inv, TransactionKnown
<1> QED BY <1>1, Redis2Always, PTL

\* blpop, brpop and brpoplpush leave the blocking mode as the application asked.
THEOREM AlwaysAsAsked == Spec => []BlockingAsAsked
<1>1. Redis2Inv => BlockingAsAsked
  BY DEF Redis2Inv, BlockingAsAsked
<1> QED BY <1>1, Redis2Always, PTL
=============================================================================
