----------------------------- MODULE KeydServer -----------------------------
(***************************************************************************)
(* keyd's poll loop (keydb/keyd.c) and the programs connected to it        *)
(* (keydb/keydb_keyd.c, keydb/keydctl.c).                                  *)
(*                                                                         *)
(* The daemon is one thread: it polls its listening socket and its         *)
(* connections, serves one command of each connection that is readable,    *)
(* accepts at most one new connection and starts over.  While it serves a  *)
(* command it waits in read for that client's arguments.  Sockets are      *)
(* queues of messages; when an end closes, the other end reads what is     *)
(* queued and then end of file.                                            *)
(*                                                                         *)
(* The lookups GET, GET_ID, GET_FP, GET_TEXT and GET_SKSHASH are one       *)
(* command "get", STORE and UPDATE are "store", VERSION and STATS are      *)
(* "info".  The database is the set of keys present.                       *)
(***************************************************************************)
EXTENDS Naturals, Sequences, FiniteSets

CONSTANTS
    Client, Key,
    NoOne,          \* a free entry of clients[]
    Listener,       \* the listening socket
    MaxClients,     \* MAX_CLIENTS, the size of clients[] and of rfds[]
    Backlog,        \* connections that may wait to be accepted
    MaxCommands,    \* bound: commands of all clients, their first and last
                    \* (VERSION and CLOSE) not counted
    MaxStops        \* bound: signals and crashes of the daemon

ASSUME SizesAssumption == MaxClients \in Nat \ {0} /\ Backlog \in Nat \ {0}
ASSUME NamesAssumption == Listener \notin Client /\ NoOne \notin Client \cup {Listener}

VARIABLES
    clients,    \* clients[]: per entry a connection or NoOne
    rfds,       \* the sockets polled, in the order of rfds[]
    revents,    \* the positions in rfds that poll found readable
    srv,        \* the daemon: where it is, entry i, position curfd, command
    quitting,   \* the cleanup flag
    backlog,    \* connections not accepted yet
    conn,       \* per client: "none", "queued", "open" or "shut" by the daemon
    up, down,   \* per client: messages to the daemon and back
    prog,       \* per client: its program
    db,         \* keys in the database
    expect,     \* history, per client and key: whether a lookup must find it
    issued,     \* commands so far
    stops       \* signals and crashes so far

vars == <<clients, rfds, revents, srv, quitting, backlog, conn, up, down, prog,
          db, expect, issued, stops>>
counts == <<issued, stops>>
sockets == <<backlog, conn, up, down>>
loop == <<clients, rfds, revents, srv, quitting>>

Cmds == {"info", "get", "store", "delete", "iter", "close", "quit", "unknown"}

Msg(cmd, k, part) == [cmd |-> cmd, key |-> k, part |-> part]

\* The entries of clients[] from i to j that are in use.
Taken(cs, i, j) == {e \in i..j : cs[e] # NoOne}

\* The connections in clients[], in its order: the n-th is in the entry up to
\* which n are in use.
Connections(cs) ==
    [n \in 1..Cardinality(Taken(cs, 1, MaxClients)) |->
        cs[CHOOSE i \in Taken(cs, 1, MaxClients) : Cardinality(Taken(cs, 1, i)) = n]]

\* Mutant of PollList: the connections are listed twice.
PollListTwice(cs) == <<Listener>> \o Connections(cs) \o Connections(cs)

\* The sockets main polls: the listening one, then the connections.
PollList(cs) == <<Listener>> \o Connections(cs)

Server(at) == [at |-> at, i |-> 1, curfd |-> 1, cmd |-> "info"]

NoClients == [i \in 1..MaxClients |-> NoOne]

Init == /\ clients = NoClients
        /\ rfds = <<Listener>>
        /\ revents = {}
        /\ srv = Server("poll")
        /\ quitting = FALSE
        /\ backlog = <<>>
        /\ conn = [c \in Client |-> "none"]
        /\ up = [c \in Client |-> <<>>]
        /\ down = [c \in Client |-> <<>>]
        /\ prog = [c \in Client |-> [pc |-> "new", cmd |-> "info"]]
        /\ db = {}
        /\ expect = [c \in Client |-> [k \in Key |-> "any"]]
        /\ issued = 0
        /\ stops = 0

Gone(c) == prog[c].pc = "done"

-----------------------------------------------------------------------------
(* The daemon *)

Readable(fd) ==
    IF fd = Listener THEN backlog # <<>> ELSE up[fd] # <<>> \/ Gone(fd)

Poll == /\ srv.at = "poll"
        /\ ~quitting
        /\ \E j \in DOMAIN rfds : Readable(rfds[j])
        /\ revents' = {j \in DOMAIN rfds : Readable(rfds[j])}
        /\ srv' = Server("scan")
        /\ UNCHANGED <<clients, rfds, quitting, sockets, prog, db, expect, counts>>

Serving == clients[srv.i]
NextEntry == [srv EXCEPT !.at = "scan", !.i = @ + 1]

\* Mutant of ScanSkips: curfd only counts the connections that are readable.
ScanSkipsUncounted ==
    /\ srv.at = "scan"
    /\ srv.i <= MaxClients
    /\ Serving = NoOne \/ srv.curfd + 1 \notin revents
    /\ srv' = [srv EXCEPT !.i = @ + 1]
    /\ UNCHANGED <<clients, rfds, revents, quitting, sockets, prog, db, expect, counts>>

\* An entry that is free, or whose connection has nothing to read.
ScanSkips ==
    /\ srv.at = "scan"
    /\ srv.i <= MaxClients
    /\ Serving = NoOne \/ srv.curfd + 1 \notin revents
    /\ srv' = [srv EXCEPT !.i = @ + 1,
                          !.curfd = IF Serving = NoOne THEN @ ELSE @ + 1]
    /\ UNCHANGED <<clients, rfds, revents, quitting, sockets, prog, db, expect, counts>>

\* Mutant of Closed: the entry is not freed.
ClosedStaysListed(c) == /\ conn' = [conn EXCEPT ![c] = "shut"]
                        /\ UNCHANGED clients

\* sock_close
Closed(c) == /\ clients' = [clients EXCEPT ![srv.i] = NoOne]
             /\ conn' = [conn EXCEPT ![c] = "shut"]

\* Mutant of Answer: a delete is acknowledged.
AnswerToDelete(cmd) ==
    CASE cmd = "info" -> <<"data">>
      [] cmd = "iter" -> [j \in 1..Cardinality(db) |-> "found"] \o <<"none">>
      [] cmd = "delete" -> <<"none">>
      [] OTHER -> <<>>

\* What a command without arguments is answered after KEYD_REPLY_OK; an
\* iteration sends each key and then a size of 0.
Answer(cmd) == CASE cmd = "info" -> <<"data">>
                 [] cmd = "iter" -> [j \in 1..Cardinality(db) |-> "found"] \o <<"none">>
                 [] OTHER -> <<>>

\* Mutant of Reply: an unknown command is ignored.
ReplyIfKnown(cmd) == IF cmd = "unknown" THEN <<>> ELSE <<"ok">> \o Answer(cmd)

\* All that is written before the arguments are read.
Reply(cmd) == IF cmd = "unknown" THEN <<"unknown">> ELSE <<"ok">> \o Answer(cmd)

Tagged(cmd, ms) == [j \in DOMAIN ms |-> [cmd |-> cmd, what |-> ms[j]]]

\* sock_do up to the end of a command without arguments, or to the first read
\* of the arguments.  At end of file, and when the reply cannot be written,
\* the connection is closed.
ScanServes ==
    LET c == Serving
        here == [srv EXCEPT !.curfd = @ + 1]
        next == [here EXCEPT !.at = "scan", !.i = @ + 1]
        cmd == Head(up[c]).cmd
    IN
    /\ srv.at = "scan"
    /\ srv.i <= MaxClients
    /\ c # NoOne
    /\ srv.curfd + 1 \in revents
    /\ up' = IF up[c] = <<>> THEN up ELSE [up EXCEPT ![c] = Tail(@)]
    /\ IF up[c] = <<>>
       THEN Closed(c) /\ srv' = next /\ UNCHANGED <<quitting, down>>
       ELSE /\ quitting' = (quitting \/ cmd = "quit")
            /\ IF Gone(c)
               THEN Closed(c) /\ srv' = next /\ UNCHANGED down
               ELSE /\ down' = [down EXCEPT ![c] = @ \o Tagged(cmd, Reply(cmd))]
                    /\ IF cmd \in {"close", "quit"} THEN Closed(c)
                       ELSE UNCHANGED <<clients, conn>>
                    /\ srv' = IF cmd \in {"get", "store", "delete"}
                              THEN [here EXCEPT !.at = "args", !.cmd = cmd]
                              ELSE next
    /\ UNCHANGED <<rfds, revents, backlog, prog, db, expect, counts>>

\* What other clients may rely on once key k has been stored or deleted.
Disturbed(c, k) == [d \in Client |->
    IF d = c THEN expect[d] ELSE [expect[d] EXCEPT ![k] = "any"]]

\* sock_do, GET and its siblings: fetch and answer.  Writing to a client that
\* is gone fails, which is noticed for a size of 0 only.
AnswersGet ==
    LET c == Serving
        k == Head(up[c]).key
    IN
    /\ srv.at = "args"
    /\ srv.cmd = "get"
    /\ up[c] # <<>>
    /\ up' = [up EXCEPT ![c] = Tail(@)]
    /\ down' = IF Gone(c) THEN down ELSE
                 [down EXCEPT ![c] = @ \o Tagged("get",
                     IF k \in db THEN <<"found">> ELSE <<"none">>)]
    /\ IF Gone(c) /\ k \notin db THEN Closed(c) ELSE UNCHANGED <<clients, conn>>
    /\ srv' = NextEntry
    /\ UNCHANGED <<rfds, revents, quitting, backlog, prog, db, expect, counts>>

Deletes ==
    LET c == Serving
        k == Head(up[c]).key
    IN
    /\ srv.at = "args"
    /\ srv.cmd = "delete"
    /\ up[c] # <<>>
    /\ up' = [up EXCEPT ![c] = Tail(@)]
    /\ db' = db \ {k}
    /\ expect' = Disturbed(c, k)
    /\ srv' = NextEntry
    /\ UNCHANGED <<clients, rfds, revents, quitting, backlog, conn, down, prog, counts>>

\* The size of a key to store; the loop that reads the key follows.
ReadsSize ==
    /\ srv.at = "args"
    /\ srv.cmd = "store"
    /\ up[Serving] # <<>>
    /\ up' = [up EXCEPT ![Serving] = Tail(@)]
    /\ srv' = [srv EXCEPT !.at = "data"]
    /\ UNCHANGED <<clients, rfds, revents, quitting, backlog, conn, down, prog,
                   db, expect, counts>>

\* Mutant of Stores: the key is read, but not stored.
StoreForgotten ==
    /\ srv.at = "data"
    /\ up[Serving] # <<>>
    /\ up' = [up EXCEPT ![Serving] = Tail(@)]
    /\ srv' = NextEntry
    /\ UNCHANGED <<clients, rfds, revents, quitting, backlog, conn, down, prog,
                   db, expect, counts>>

Stores ==
    LET c == Serving
        k == Head(up[c]).key
    IN
    /\ srv.at = "data"
    /\ up[c] # <<>>
    /\ up' = [up EXCEPT ![c] = Tail(@)]
    /\ db' = db \cup {k}
    /\ expect' = Disturbed(c, k)
    /\ srv' = NextEntry
    /\ UNCHANGED <<clients, rfds, revents, quitting, backlog, conn, down, prog, counts>>

\* End of file where arguments are due closes the connection.
ArgsMissing ==
    LET c == Serving IN
    /\ srv.at = "args"
    /\ up[c] = <<>>
    /\ Gone(c)
    /\ Closed(c)
    /\ srv' = NextEntry
    /\ UNCHANGED <<rfds, revents, quitting, backlog, up, down, prog, db, expect, counts>>

\* End of file inside a key does not: read returns 0, "bytes >= 0" holds and
\* the loop never ends.
DataMissing ==
    /\ srv.at = "data"
    /\ up[Serving] = <<>>
    /\ Gone(Serving)
    /\ srv' = [srv EXCEPT !.at = "spin"]
    /\ UNCHANGED <<clients, rfds, revents, quitting, sockets, prog, db, expect, counts>>

FreeEntry == CHOOSE i \in 1..MaxClients :
                 clients[i] = NoOne /\ \A j \in 1..(i - 1) : clients[j] # NoOne

\* sock_accept, for the entry found free.
SockAccept(i) == /\ clients' = [clients EXCEPT ![i] = Head(backlog)]
                 /\ conn' = [conn EXCEPT ![Head(backlog)] = "open"]
                 /\ backlog' = Tail(backlog)

\* After the scan: accept a connection if there is one and a free entry, and
\* list the sockets to poll next.  rfds[] has MaxClients entries; when the
\* list is longer the daemon runs on or what happens is undefined.
Accepts ==
    /\ srv.at = "scan"
    /\ srv.i > MaxClients
    /\ IF 1 \in revents /\ \E i \in 1..MaxClients : clients[i] = NoOne
       THEN SockAccept(FreeEntry)
       ELSE UNCHANGED <<clients, conn, backlog>>
    /\ rfds' = PollList(clients')
    /\ revents' = {}
    /\ \/ srv' = Server("poll")
       \/ Len(rfds') > MaxClients /\ srv' = Server("undefined")
    /\ UNCHANGED <<quitting, up, down, prog, db, expect, counts>>

\* The daemon is no more: its sockets are closed, what it has not read is lost.
Ended == /\ srv' = Server("down")
         /\ clients' = NoClients
         /\ rfds' = <<Listener>>
         /\ revents' = {}
         /\ quitting' = FALSE
         /\ backlog' = <<>>
         /\ conn' = [c \in Client |-> IF conn[c] = "none" THEN "none" ELSE "shut"]
         /\ up' = [c \in Client |-> <<>>]
         /\ expect' = [c \in Client |-> [k \in Key |-> "any"]]
         /\ UNCHANGED <<down, prog, db>>

\* The loop ends at its head once the cleanup flag is set.
Quits == srv.at = "poll" /\ quitting /\ Ended /\ UNCHANGED counts

\* SIGTERM and the like: sets the flag; a poll that waits is interrupted.
Signal == /\ stops < MaxStops
          /\ srv.at \notin {"down", "undefined"}
          /\ ~quitting
          /\ quitting' = TRUE
          /\ stops' = stops + 1
          /\ UNCHANGED <<clients, rfds, revents, srv, sockets, prog, db, expect, issued>>

Crashes == /\ stops < MaxStops
           /\ srv.at \notin {"down", "undefined"}
           /\ Ended
           /\ stops' = stops + 1
           /\ UNCHANGED issued

\* sock_init: the old socket is removed, a new one bound.
Starts == /\ srv.at = "down"
          /\ srv' = Server("poll")
          /\ UNCHANGED <<clients, rfds, revents, quitting, sockets, prog, db,
                         expect, counts>>

DaemonStep == \/ Poll \/ ScanSkips \/ ScanServes \/ AnswersGet \/ Deletes
              \/ ReadsSize \/ Stores \/ ArgsMissing \/ DataMissing \/ Accepts
              \/ Quits

-----------------------------------------------------------------------------
(* The clients *)

Goes(c, pc) == prog' = [prog EXCEPT
    ![c] = [pc |-> pc, cmd |-> IF pc \in {"done", "ready"} THEN "info" ELSE @.cmd]]

Sends(c, m) == up' = [up EXCEPT ![c] = Append(@, m)]

\* connect succeeds once the connection is queued; the protocol version is
\* asked for at once.
Connects(c) ==
    /\ prog[c].pc = "new"
    /\ \E k \in Key :
         /\ srv.at # "down"
         /\ Len(backlog) < Backlog
         /\ backlog' = Append(backlog, c)
         /\ conn' = [conn EXCEPT ![c] = "queued"]
         /\ Sends(c, Msg("info", k, "cmd"))
         /\ Goes(c, "reply")
    /\ UNCHANGED <<loop, down, db, expect, counts>>

\* Without a daemon connect fails and the program ends.
Refused(c) == /\ prog[c].pc = "new"
              /\ srv.at = "down"
              /\ Goes(c, "done")
              /\ UNCHANGED <<loop, sockets, db, expect, counts>>

\* keyd_send_cmd writes the command.  Writing to a closed socket raises
\* SIGPIPE, which clients of keyd do not catch.
Commands(c, cmd, k) ==
    /\ prog[c].pc = "ready"
    /\ issued < MaxCommands \/ cmd = "close"
    /\ IF conn[c] = "shut"
       THEN Goes(c, "done") /\ UNCHANGED <<up, issued>>
       ELSE /\ Sends(c, Msg(cmd, k, "cmd"))
            /\ prog' = [prog EXCEPT ![c] = [pc |-> "reply", cmd |-> cmd]]
            /\ issued' = IF cmd = "close" THEN issued ELSE issued + 1
    /\ UNCHANGED <<loop, backlog, conn, down, db, expect, stops>>

\* Where a command goes on after its reply.
After(cmd) == CASE cmd \in {"info", "iter"} -> "answer"
                [] cmd \in {"get", "store", "delete"} -> "args"
                [] OTHER -> "done"

\* keyd_send_cmd reads the reply; at end of file, or if the command is not
\* known, the operation gives up and returns nothing.
ReadsReply(c) ==
    /\ prog[c].pc = "reply"
    /\ \/ /\ down[c] # <<>>
          /\ Goes(c, IF Head(down[c]).what = "ok" THEN After(prog[c].cmd) ELSE "ready")
          /\ down' = [down EXCEPT ![c] = Tail(@)]
       \/ /\ down[c] = <<>> /\ conn[c] = "shut"
          /\ Goes(c, IF prog[c].cmd \in {"close", "quit"} THEN "done" ELSE "ready")
          /\ UNCHANGED down
    /\ UNCHANGED <<loop, backlog, conn, up, db, expect, counts>>

\* The arguments: all there is to a lookup or a delete, the size of a key.
SendsArgs(c, k) ==
    LET cmd == prog[c].cmd IN
    /\ prog[c].pc = "args"
    /\ IF conn[c] = "shut"
       THEN Goes(c, "done") /\ UNCHANGED <<up, expect>>
       ELSE /\ Sends(c, Msg(cmd, k, "args"))
            /\ Goes(c, CASE cmd = "get" -> "answer"
                         [] cmd = "delete" -> "ready"
                         [] cmd = "store" -> "data")
            /\ expect' = IF cmd = "delete" THEN [expect EXCEPT ![c][k] = "no"]
                         ELSE expect
    /\ UNCHANGED <<loop, backlog, conn, down, db, counts>>

\* keyd_store_key writes the key and does not wait for an answer.
SendsData(c, k) ==
    /\ prog[c].pc = "data"
    /\ IF conn[c] = "shut"
       THEN Goes(c, "done") /\ UNCHANGED <<up, expect>>
       ELSE /\ Sends(c, Msg("store", k, "data"))
            /\ Goes(c, "ready")
            /\ expect' = [expect EXCEPT ![c][k] = "yes"]
    /\ UNCHANGED <<loop, backlog, conn, down, db, counts>>

\* The answer's size and contents.  Nobody checks that the size was read: at
\* end of file it is whatever was on the stack, so that the client takes it
\* for no key, fails, or reads for ever.
ReadsAnswer(c) ==
    /\ prog[c].pc = "answer"
    /\ \/ /\ down[c] # <<>>
          /\ Goes(c, IF prog[c].cmd = "iter" /\ Head(down[c]).what = "found"
                     THEN "answer" ELSE "ready")
          /\ down' = [down EXCEPT ![c] = Tail(@)]
       \/ /\ down[c] = <<>> /\ conn[c] = "shut"
          /\ \E pc \in {"ready", "done", "spin"} : Goes(c, pc)
          /\ UNCHANGED down
    /\ UNCHANGED <<loop, backlog, conn, up, db, expect, counts>>

\* The program is killed or its host goes down; the kernel closes its socket.
Dies(c) == /\ prog[c].pc \notin {"new", "done"}
           /\ Goes(c, "done")
           /\ down' = [down EXCEPT ![c] = <<>>]
           /\ UNCHANGED <<loop, backlog, conn, up, db, expect, counts>>

ClientStep(c) == \/ ReadsReply(c) \/ ReadsAnswer(c)
                 \/ \E k \in Key : SendsArgs(c, k) \/ SendsData(c, k)

Next == \/ DaemonStep \/ Signal \/ Crashes \/ Starts
        \/ \E c \in Client : \/ Connects(c) \/ Refused(c) \/ ClientStep(c) \/ Dies(c)
                             \/ \E cmd \in Cmds, k \in Key : Commands(c, cmd, k)

\* The daemon and a program in the middle of an operation run on; nothing
\* makes a program start an operation, or a daemon start again.
Spec == /\ Init /\ [][Next]_vars
        /\ WF_vars(DaemonStep)
        /\ \A c \in Client : WF_vars(ClientStep(c))

-----------------------------------------------------------------------------
(* Properties *)

\* clients[], rfds[] and the open connections agree.  While main scans the
\* connections, the entry of rfds[] it looks at is that of the connection it
\* serves, although connections close during the scan; a connection is in
\* clients[] exactly while it is open, and once only, so that no client is
\* served twice and no entry of the table leaks.
TablesAligned ==
    /\ srv.at = "scan" /\ srv.i <= MaxClients /\ Serving # NoOne =>
          /\ srv.curfd + 1 \in DOMAIN rfds
          /\ rfds[srv.curfd + 1] = Serving
    /\ \A c \in Client : Cardinality({i \in 1..MaxClients : clients[i] = c}) =
                             (IF conn[c] = "open" THEN 1 ELSE 0)

\* A client in the middle of a command never reads the answer to another one.
AnswersMatch == \A c \in Client : \A j \in DOMAIN down[c] :
    prog[c].pc \in {"reply", "answer"} => down[c][j].cmd = prog[c].cmd

\* Stores and deletes are not acknowledged, but a client's own later lookup
\* sees them, unless another client or a restart came in between.
ReadsOwnWrites ==
    srv.at = "args" /\ srv.cmd = "get" /\ up[Serving] # <<>> =>
        LET k == Head(up[Serving]).key IN
        /\ expect[Serving][k] = "yes" => k \in db
        /\ expect[Serving][k] = "no" => k \notin db

Waiting(c) == prog[c].pc \in {"reply", "answer"}

\* rfds[] has no room for the listening socket beside "Maximum number of clients
\* we're prepared to accept at once" connections; main writes past its end then.
Overrun == srv.at = "undefined" /\ \A i \in 1..MaxClients : clients[i] # NoOne

\* A client that waits for a reply or an answer gets on, whatever the other
\* clients do, crash or leave unsaid, and however connections came and closed
\* before, unless the daemon is caught in the loop that reads a key of a client
\* that is gone, or has written past rfds[] with every entry of clients[] taken.
ServedUnlessCaught ==
    \A c \in Client : Waiting(c) ~> ~Waiting(c) \/ srv.at = "spin" \/ Overrun
=============================================================================
