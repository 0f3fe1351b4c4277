------------------------- MODULE KeydProtocolProofs -------------------------
(***************************************************************************)
(* Proofs about KeydServer, for any number of clients and keys and for any *)
(* sizes of clients[] and of the backlog.                                  *)
(*                                                                         *)
(* The inductive invariant has three layers.  Tables relates clients[],    *)
(* rfds[], the backlog and the state of each connection.  Protocol says,   *)
(* for each client, what may be on its way in either direction, given      *)
(* where the client and the daemon are in a command.  Writes relates what  *)
(* a client relies on to the database and to the writes still under way.   *)
(*                                                                         *)
(* This module proves the steps of the second and the third layer, given   *)
(* the layers below them before and after the step.  The first layer and   *)
(* the theorems are in KeydServerProofs.                                   *)
(***************************************************************************)
EXTENDS KeydServer, TLAPS

Parts == {"cmd", "args", "data"}
Whats == {"ok", "unknown", "data", "found", "none"}
Pcs == {"new", "ready", "reply", "args", "data", "answer", "spin", "done"}

Places == {"poll", "scan", "args", "data", "spin", "undefined", "down"}
Srv == [at : Places, i : Nat \ {0}, curfd : Nat \ {0}, cmd : Cmds]
Message == [cmd : Cmds, key : Key, part : Parts]
Told == [cmd : Cmds, what : Whats]
Progs == [pc : Pcs, cmd : Cmds]

Types ==
    /\ clients \in [1..MaxClients -> Client \cup {NoOne}]
    /\ rfds \in Seq(Client \cup {Listener})
    /\ srv \in Srv
    /\ backlog \in Seq(Client)
    /\ conn \in [Client -> {"none", "queued", "open", "shut"}]
    /\ up \in [Client -> Seq(Message)]
    /\ down \in [Client -> Seq(Told)]
    /\ prog \in [Client -> Progs]
    /\ db \in SUBSET Key
    /\ IsFiniteSet(db) /\ Cardinality(db) \in Nat
    /\ expect \in [Client -> [Key -> {"any", "yes", "no"}]]

\* The daemon is inside a command of the client in entry srv.i.
Inside == srv.at \in {"args", "data", "spin"}

\* The first entry the scan has not looked at.
Ahead == IF Inside THEN srv.i + 1 ELSE srv.i

\* The connections from entry a on are in fds from position n + 1 on.
From(cs, fds, a, n) ==
    \A j \in a..MaxClients : cs[j] # NoOne =>
        LET m == n + Cardinality(Taken(cs, a, j)) IN
        m \in 1..Len(fds) /\ fds[m] = cs[j]

\* The connections the scan has not come to are in rfds[] from curfd + 1 on.
\* While there is no scan, the whole of clients[] is ahead.
Aligned ==
    /\ Inside => srv.i \in 1..MaxClients /\ clients[srv.i] # NoOne
    /\ ~Inside /\ srv.at # "scan" => srv.i = 1 /\ srv.curfd = 1
    /\ From(clients, rfds, Ahead, srv.curfd)

\* A connection is open while it has an entry of clients[], and has one only.
Listed ==
    /\ \A i, j \in 1..MaxClients : clients[i] = clients[j] /\ clients[i] # NoOne => i = j
    /\ \A c \in Client : conn[c] = "open" <=> \E i \in 1..MaxClients : clients[i] = c

\* Only connections not accepted yet are in the backlog, once each, and there
\* is one when poll found the listening socket, which is rfds[0], readable.
Queued ==
    /\ Len(rfds) >= 1 /\ rfds[1] = Listener
    /\ 1 \in revents => backlog # <<>>
    /\ \A j \in 1..Len(backlog) : conn[backlog[j]] = "queued"
    /\ \A j, k \in 1..Len(backlog) : backlog[j] = backlog[k] => j = k

HasArgs(cmd) == cmd \in {"get", "store", "delete"}

\* A client is connected from its first command on, and sends arguments for
\* the commands that have some.
Connected ==
    \A c \in Client : /\ prog[c].pc = "new" =>
                            conn[c] = "none" /\ up[c] = <<>> /\ prog[c].cmd = "info"
                      /\ conn[c] = "none" => prog[c].pc \in {"new", "done"}
                      /\ prog[c].pc = "args" => HasArgs(prog[c].cmd)

Tables == /\ Types
          /\ Aligned
          /\ Listed
          /\ Queued
          /\ Connected

-----------------------------------------------------------------------------
\* The part of a command that the daemon reads next from c.
Awaits(c) == IF srv.at \in {"args", "data"} /\ clients[srv.i] = c THEN srv.at ELSE "cmd"

\* What the daemon reads from a client next: from the given part on, the rest of
\* the command and, where the client does not wait for an answer, the next one.
Due(part, cmd) == IF part = "cmd" THEN <<"cmd">>
                  ELSE IF part = "data" THEN <<"data", "cmd">>
                  ELSE IF cmd = "get" THEN <<"args">>
                  ELSE IF cmd = "delete" THEN <<"args", "cmd">>
                  ELSE <<"args", "data", "cmd">>

\* What a client has sent is the beginning of what is due.
Shape(u, due) == Len(u) <= Len(due) /\ \A j \in 1..Len(u) : u[j].part = due[j]

\* The part a client sends where it is.
Sending(pc) == IF pc = "ready" THEN "cmd" ELSE pc

\* A client is about to send the part that is due next, or waits: its command
\* has not been read, or has been answered and the daemon is where the client
\* expects it.
Talks(u, dn, p, part, cmd) ==
    LET due == Due(part, cmd) IN
    /\ p.pc # "spin"
    /\ p.pc \in {"ready", "args", "data"} =>
          Len(u) < Len(due) /\ due[Len(u) + 1] = Sending(p.pc)
    /\ p.pc = "args" => p.cmd = cmd
    /\ p.pc \in {"reply", "answer"} /\ dn = <<>> =>
          /\ Len(u) = Len(due)
          /\ u[Len(u)].cmd = p.cmd
          /\ due[Len(u)] = IF p.pc = "reply" THEN "cmd" ELSE "args"
          /\ p.pc = "answer" => p.cmd = "get"
    /\ p.pc \in {"reply", "answer"} /\ dn # <<>> =>
          /\ Len(u) = 0
          /\ IF p.pc = "reply" /\ HasArgs(p.cmd) THEN part = "args" /\ cmd = p.cmd
             ELSE part = "cmd"

\* What a client has yet to read is the rest of the answer to its command.
Replies(dn, p) ==
    LET l == Len(dn)
        m == IF p.pc = "reply" THEN 1 ELSE 0
    IN
    /\ p.pc \in {"reply", "answer"}
    /\ \A j \in 1..l : dn[j].cmd = p.cmd
    /\ p.pc = "reply" => (dn[1].what = "ok" <=> p.cmd # "unknown")
    /\ p.pc = "answer" => p.cmd \in {"info", "iter", "get"}
    /\ p.cmd = "iter" => l > m /\ \A j \in (m + 1)..l : dn[j].what = "found" <=> j # l
    /\ p.cmd # "iter" => l = m + (IF p.cmd = "info" \/ p.pc = "answer" THEN 1 ELSE 0)

\* The protocol as a client sees it, and as it is for each client.
Agrees(cn, u, dn, p, part, cmd) ==
    /\ Shape(u, Due(part, cmd))
    /\ cn \in {"queued", "open"} /\ p.pc \notin {"new", "done"} => Talks(u, dn, p, part, cmd)
    /\ p.pc # "done" /\ dn # <<>> => Replies(dn, p)

Protocol == \A c \in Client :
    Agrees(conn[c], up[c], down[c], prog[c], Awaits(c), srv.cmd)

-----------------------------------------------------------------------------
\* The daemon is about to delete k for c.
Deleting(c, k) == /\ Awaits(c) = "args"
                  /\ srv.cmd = "delete"
                  /\ up[c] # <<>>
                  /\ up[c][1].key = k

\* A key to be stored is among the messages u.
Carries(u, k) == \E j \in 1..Len(u) : u[j].part = "data" /\ u[j].key = k

\* What c relies on is in the database or on its way there, and nothing that is
\* on its way contradicts it.
Writes == \A c \in Client, k \in Key :
    /\ expect[c][k] = "yes" => (k \in db \/ Carries(up[c], k)) /\ ~Deleting(c, k)
    /\ expect[c][k] = "no" => (k \notin db \/ Deleting(c, k)) /\ ~Carries(up[c], k)

KeydInv == Tables /\ Protocol /\ Writes

-----------------------------------------------------------------------------
(* Sequences, answers and the moves of the daemon *)

\* The empty sequence is the one without elements.
LEMMA EmptySeq ==
    ASSUME NEW S, NEW q \in Seq(S)
    PROVE  q = <<>> <=> Len(q) = 0
OBVIOUS

\* The only element of a sequence that was empty.
LEMMA AppendEmpty ==
    ASSUME NEW m
    PROVE  Append(<<>>, m) # <<>> /\ Append(<<>>, m)[1] = m
OBVIOUS

LEMMA ConcatEmptySeq ==
    ASSUME NEW S, NEW q \in Seq(S)
    PROVE  <<>> \o q = q
OBVIOUS

\* What sock_do writes for a command before it reads arguments: the reply, and
\* after it the answer, which for an iteration ends with its only size of 0.
LEMMA ReplyForm ==
    ASSUME Cardinality(db) \in Nat, NEW cmd \in Cmds
    PROVE  LET r == Tagged(cmd, Reply(cmd)) IN
           /\ r \in Seq(Told)
           /\ Len(r) >= 1
           /\ \A j \in 1..Len(r) : r[j].cmd = cmd
           /\ r[1].what = "ok" <=> cmd # "unknown"
           /\ cmd = "iter" =>
                 Len(r) > 1 /\ \A j \in 2..Len(r) : r[j].what = "found" <=> j # Len(r)
           /\ cmd # "iter" => Len(r) = 1 + (IF cmd = "info" THEN 1 ELSE 0)
<1> DEFINE q == Reply(cmd)
           n == Cardinality(db)
<1>1. n \in Nat
  OBVIOUS
<1>2. /\ q \in Seq(Whats)
      /\ Len(q) >= 1
      /\ q[1] = "ok" <=> cmd # "unknown"
      /\ cmd = "iter" => Len(q) > 1 /\ \A j \in 2..Len(q) : q[j] = "found" <=> j # Len(q)
      /\ cmd # "iter" => Len(q) = 1 + (IF cmd = "info" THEN 1 ELSE 0)
  <2>1. CASE cmd = "iter"
    <3> DEFINE w == [j \in 1..n |-> "found"]
    <3>1. q = <<"ok">> \o (w \o <<"none">>)
      BY <2>1 DEF Reply, Answer
    <3>2. w \in Seq(Whats) /\ Len(w) = n /\ \A j \in 1..n : w[j] = "found"
      BY <1>1 DEF Whats
    <3> HIDE DEF w, n, q
    <3>3. /\ w \o <<"none">> \in Seq(Whats)
          /\ Len(w \o <<"none">>) = n + 1
          /\ \A j \in 1..n : (w \o <<"none">>)[j] = "found"
          /\ (w \o <<"none">>)[n + 1] = "none"
      BY <1>1, <3>2 DEF Whats
    <3> DEFINE v == w \o <<"none">>
    <3> HIDE DEF v
    <3>4. v \in Seq(Whats) /\ Len(v) = n + 1 /\ v[n + 1] = "none"
          /\ \A j \in 1..n : v[j] = "found"
      BY ZenonT(20), <3>3 DEF v
    <3>5. /\ q \in Seq(Whats)
          /\ Len(q) = n + 2
          /\ q[1] = "ok"
          /\ \A j \in 2..(n + 2) : q[j] = v[j - 1]
      <4>1. q = <<"ok">> \o v
        BY <3>1 DEF v
      <4> QED BY <1>1, <3>4, <4>1 DEF Whats
    <3>6. ASSUME NEW j \in 2..(n + 2)
          PROVE  q[j] = "found" <=> j # n + 2
      <4>1. CASE j = n + 2
        BY <1>1, <3>4, <3>5, <4>1
      <4>2. CASE j # n + 2
        <5>1. j - 1 \in 1..n
          BY <1>1, <4>2
        <5> QED BY <3>4, <3>5, <4>2, <5>1
      <4> QED BY <4>1, <4>2
    <3> QED BY <1>1, <2>1, <3>5, <3>6
  <2>2. CASE cmd = "unknown"
    BY <2>2 DEF Reply, Whats
  <2>3. CASE cmd = "info"
    <3>1. q = <<"ok">> \o <<"data">>
      BY <2>3 DEF Reply, Answer
    <3> HIDE DEF q
    <3>2. q \in Seq(Whats) /\ Len(q) = 2 /\ q[1] = "ok"
      BY <3>1 DEF Whats
    <3> QED BY <2>3, <3>2
  <2>4. CASE cmd \notin {"iter", "unknown", "info"}
    <3>1. q = <<"ok">> \o <<>>
      BY ZenonT(20), <2>4 DEF Reply, Answer
    <3> HIDE DEF q
    <3>2. q \in Seq(Whats) /\ Len(q) = 1 /\ q[1] = "ok"
      BY <3>1 DEF Whats
    <3> QED BY <2>4, <3>2
  <2> QED BY <2>1, <2>2, <2>3, <2>4
<1> HIDE DEF q
<1> DEFINE r == Tagged(cmd, q)
<1>3. /\ r \in Seq(Told)
      /\ Len(r) = Len(q)
      /\ \A j \in 1..Len(q) : r[j] = [cmd |-> cmd, what |-> q[j]]
  <2>1. DOMAIN q = 1..Len(q) /\ Len(q) \in Nat /\ \A j \in 1..Len(q) : q[j] \in Whats
    BY <1>2
  <2>2. r = [j \in 1..Len(q) |-> [cmd |-> cmd, what |-> q[j]]]
    BY <2>1 DEF Tagged
  <2> QED BY <2>1, <2>2 DEF Told
<1> HIDE DEF r
<1>4. ASSUME NEW j \in 1..Len(q)
      PROVE  r[j].cmd = cmd /\ r[j].what = q[j]
  <2>1. r[j] = [cmd |-> cmd, what |-> q[j]]
    BY <1>3
  <2> QED BY <2>1
<1>5. Len(q) \in Nat /\ 1 \in 1..Len(q)
  BY <1>2
<1>6. /\ Len(r) >= 1
      /\ \A j \in 1..Len(r) : r[j].cmd = cmd
      /\ r[1].what = "ok" <=> cmd # "unknown"
      /\ cmd = "iter" =>
            Len(r) > 1 /\ \A j \in 2..Len(r) : r[j].what = "found" <=> j # Len(r)
      /\ cmd # "iter" => Len(r) = 1 + (IF cmd = "info" THEN 1 ELSE 0)
  <2>1. Len(r) >= 1 /\ \A j \in 1..Len(r) : r[j].cmd = cmd
    BY <1>2, <1>3, <1>4
  <2>2. r[1].what = "ok" <=> cmd # "unknown"
    BY <1>2, <1>4, <1>5
  <2>3. ASSUME cmd = "iter", NEW j \in 2..Len(r)
        PROVE  r[j].what = "found" <=> j # Len(r)
    <3>1. j \in 1..Len(q) /\ j \in 2..Len(q)
      BY <1>3, <1>5
    <3> QED BY <1>2, <1>3, <1>4, <2>3, <3>1
  <2>4. /\ cmd = "iter" => Len(r) > 1
        /\ cmd # "iter" => Len(r) = 1 + (IF cmd = "info" THEN 1 ELSE 0)
    BY <1>2, <1>3
  <2> QED BY <2>1, <2>2, <2>3, <2>4
<1> QED BY <1>3, <1>6 DEF r, q

\* Inside a command, and where the scan serves an entry, there is a client.
LEMMA ServingClient ==
    ASSUME Tables, Inside \/ (srv.i <= MaxClients /\ Serving # NoOne)
    PROVE  srv.i \in 1..MaxClients /\ Serving \in Client
<1>1. srv.i \in 1..MaxClients
  BY SizesAssumption DEF Tables, Aligned, Types, Srv
<1>2. Serving # NoOne
  BY DEF Tables, Aligned, Serving
<1> QED BY <1>1, <1>2 DEF Tables, Types, Serving

\* The first message of a client.
LEMMA FirstMessage ==
    ASSUME Types, NEW c \in Client, up[c] # <<>>
    PROVE  /\ Head(up[c]) = up[c][1]
           /\ Head(up[c]).cmd \in Cmds
           /\ Head(up[c]).key \in Key
           /\ Head(up[c]).part \in Parts
<1>1. up[c] \in Seq(Message)
  BY DEF Types
<1>2. Head(up[c]) \in Message /\ Head(up[c]) = up[c][1]
  BY <1>1
<1> QED BY <1>2 DEF Message

\* The daemon goes to a place, an entry, a position and a command.
Moved(at, i, n, cmd) ==
    srv' \in Srv /\ srv'.at = at /\ srv'.i = i /\ srv'.curfd = n /\ srv'.cmd = cmd

\* Where the assignments of the loop and of sock_do take the daemon.
LEMMA MovesStart ==
    ASSUME NEW at \in Places, srv' = Server(at)
    PROVE  Moved(at, 1, 1, "info")
BY DEF Moved, Server, Srv, Cmds

LEMMA MovesAt ==
    ASSUME NEW at \in Places, srv \in Srv, srv' = [srv EXCEPT !.at = at]
    PROVE  Moved(at, srv.i, srv.curfd, srv.cmd)
BY DEF Moved, Srv

LEMMA MovesNext ==
    ASSUME srv \in Srv, srv' = NextEntry
    PROVE  Moved("scan", srv.i + 1, srv.curfd, srv.cmd)
<1> DEFINE n == srv.i + 1
<1>1. n \in Nat \ {0}
  BY DEF Srv
<1>2. srv' = [srv EXCEPT !.at = "scan", !.i = n]
  BY DEF NextEntry
<1> HIDE DEF n
<1>3. Moved("scan", n, srv.curfd, srv.cmd)
  BY ZenonT(20), <1>1, <1>2 DEF Moved, Srv, Places
<1> QED BY <1>3 DEF n

LEMMA MovesSkip ==
    ASSUME srv \in Srv, ScanSkips
    PROVE  Moved("scan", srv.i + 1,
                 IF Serving = NoOne THEN srv.curfd ELSE srv.curfd + 1, srv.cmd)
<1> DEFINE n == srv.i + 1
           m == IF Serving = NoOne THEN srv.curfd ELSE srv.curfd + 1
<1>1. n \in Nat \ {0} /\ m \in Nat \ {0}
  BY DEF Srv
<1>2. srv' = [srv EXCEPT !.i = n, !.curfd = m] /\ srv.at = "scan"
  BY DEF ScanSkips
<1> HIDE DEF n, m
<1>3. Moved("scan", n, m, srv.cmd)
  BY ZenonT(20), <1>1, <1>2 DEF Moved, Srv
<1> QED BY <1>3 DEF n, m

LEMMA MovesServe ==
    ASSUME srv \in Srv, ScanServes
    PROVE  LET cmd == Head(up[Serving]).cmd IN
           IF up[Serving] # <<>> /\ ~Gone(Serving) /\ HasArgs(cmd)
           THEN cmd \in Cmds => Moved("args", srv.i, srv.curfd + 1, cmd)
           ELSE Moved("scan", srv.i + 1, srv.curfd + 1, srv.cmd)
<1> DEFINE n == srv.i + 1
           m == srv.curfd + 1
           cmd == Head(up[Serving]).cmd
<1>1. n \in Nat \ {0} /\ m \in Nat \ {0}
  BY DEF Srv
<1>2. srv' = IF up[Serving] # <<>> /\ ~Gone(Serving) /\ HasArgs(cmd)
             THEN [[srv EXCEPT !.curfd = m] EXCEPT !.at = "args", !.cmd = cmd]
             ELSE [[srv EXCEPT !.curfd = m] EXCEPT !.at = "scan", !.i = n]
  BY ZenonT(20) DEF ScanServes, HasArgs
<1> HIDE DEF n, m, cmd
<1>3. [[srv EXCEPT !.curfd = m] EXCEPT !.at = "scan", !.i = n] \in Srv
  BY ZenonT(20), <1>1 DEF Srv, Places
<1>4. CASE up[Serving] # <<>> /\ ~Gone(Serving) /\ HasArgs(cmd)
  <2>1. cmd \in Cmds => Moved("args", srv.i, m, cmd)
    BY ZenonT(20), <1>1, <1>2, <1>4 DEF Moved, Srv, Places
  <2> QED BY <1>4, <2>1 DEF m, cmd
<1>5. CASE ~(up[Serving] # <<>> /\ ~Gone(Serving) /\ HasArgs(cmd))
  <2>1. Moved("scan", n, m, srv.cmd)
    BY ZenonT(20), <1>1, <1>2, <1>5 DEF Moved, Srv, Places
  <2> QED BY <1>5, <2>1 DEF m, n, cmd
<1> QED BY <1>4, <1>5

-----------------------------------------------------------------------------
(* The second layer: the protocol *)

LEMMA DueForm ==
    ASSUME NEW part \in Parts, NEW cmd
    PROVE  /\ part = "cmd" => Len(Due(part, cmd)) = 1 /\ Due(part, cmd)[1] = "cmd"
           /\ part = "data" => /\ Len(Due(part, cmd)) = 2
                               /\ Due(part, cmd)[1] = "data" /\ Due(part, cmd)[2] = "cmd"
           /\ part = "args" /\ cmd = "get" =>
                 Len(Due(part, cmd)) = 1 /\ Due(part, cmd)[1] = "args"
           /\ part = "args" /\ cmd = "delete" =>
                 /\ Len(Due(part, cmd)) = 2
                 /\ Due(part, cmd)[1] = "args" /\ Due(part, cmd)[2] = "cmd"
           /\ part = "args" /\ cmd \notin {"get", "delete"} =>
                 /\ Len(Due(part, cmd)) = 3
                 /\ Due(part, cmd)[1] = "args" /\ Due(part, cmd)[2] = "data"
                 /\ Due(part, cmd)[3] = "cmd"
BY DEF Due, Parts

\* A new command is the last that is due.
LEMMA DueLast ==
    ASSUME NEW part \in Parts, NEW cmd
    PROVE  /\ Len(Due(part, cmd)) \in 1..3
           /\ \A j \in 1..(Len(Due(part, cmd)) - 1) : Due(part, cmd)[j] # "cmd"
<1> DEFINE due == Due(part, cmd)
<1>1. \/ Len(due) = 1
      \/ Len(due) = 2 /\ due[1] # "cmd"
      \/ Len(due) = 3 /\ due[1] # "cmd" /\ due[2] # "cmd"
  <2> HIDE DEF due
  <2>1. CASE part = "cmd"
    BY <2>1, DueForm DEF due
  <2>2. CASE part = "data"
    BY <2>2, DueForm DEF due
  <2>3. CASE part = "args"
    <3>1. CASE cmd = "get"
      BY <2>3, <3>1, DueForm DEF due
    <3>2. CASE cmd = "delete"
      BY <2>3, <3>2, DueForm DEF due
    <3>3. CASE cmd \notin {"get", "delete"}
      BY <2>3, <3>3, DueForm DEF due
    <3> QED BY <3>1, <3>2, <3>3
  <2> QED BY <2>1, <2>2, <2>3 DEF Parts
<1> HIDE DEF due
<1>2. /\ Len(due) \in 1..3
      /\ \A j \in 1..(Len(due) - 1) : due[j] # "cmd"
  <2>1. CASE Len(due) = 1
    BY <2>1
  <2>2. CASE Len(due) = 2 /\ due[1] # "cmd"
    BY <2>2
  <2>3. CASE Len(due) = 3 /\ due[1] # "cmd" /\ due[2] # "cmd"
    <3>1. \A j \in 1..2 : j = 1 \/ j = 2
      OBVIOUS
    <3> QED BY <2>3, <3>1
  <2> QED BY <1>1, <2>1, <2>2, <2>3
<1> QED BY <1>2 DEF due

\* What is due stays due while nobody acts; a connection that is accepted or
\* closed changes nothing for what is on its way.
LEMMA AgreesStill ==
    ASSUME NEW cn, NEW cn2, NEW u, NEW dn, NEW p, NEW part, NEW cmd,
           Agrees(cn, u, dn, p, part, cmd),
           cn2 \in {"queued", "open"} => cn \in {"queued", "open"}
    PROVE  Agrees(cn2, u, dn, p, part, cmd)
BY DEF Agrees

\* To a client the daemon is not serving, its command does not matter.
LEMMA AgreesElsewhere ==
    ASSUME NEW cn, NEW u \in Seq(Message), NEW dn, NEW p, NEW cmd, NEW cmd2,
           Agrees(cn, u, dn, p, "cmd", cmd)
    PROVE  Agrees(cn, u, dn, p, "cmd", cmd2)
<1>1. Due("cmd", cmd) = Due("cmd", cmd2)
  BY DEF Due
<1>2. /\ Len(Due("cmd", cmd)) = 1 /\ Due("cmd", cmd)[1] = "cmd"
  BY DueForm DEF Parts
<1>3. Len(u) \in Nat
  OBVIOUS
<1> QED BY <1>1, <1>2, <1>3 DEF Agrees, Talks, Sending

\* A client that has sent nothing more and is gone, or finds its connection
\* closed, agrees with any daemon.
LEMMA AgreesSilent ==
    ASSUME NEW cn, NEW dn, NEW p, NEW part \in Parts, NEW cmd,
           p.pc = "done" \/ cn \notin {"queued", "open"},
           p.pc # "done" /\ dn # <<>> => Replies(dn, p)
    PROVE  Agrees(cn, <<>>, dn, p, part, cmd)
<1>1. Len(Due(part, cmd)) \in Nat
  BY DueForm DEF Parts
<1> QED BY <1>1 DEF Agrees, Shape

\* A client that is gone leaves what it has sent.
LEMMA AgreesGone ==
    ASSUME NEW cn, NEW cn2, NEW u, NEW dn, NEW dn2, NEW p, NEW p2, NEW part, NEW cmd,
           Agrees(cn, u, dn, p, part, cmd), p2.pc = "done"
    PROVE  Agrees(cn2, u, dn2, p2, part, cmd)
BY DEF Agrees

\* A queue of one message at most.
LEMMA OnlyOne ==
    ASSUME NEW u \in Seq(Message), u # <<>>, Len(u) <= 1
    PROVE  Len(u) = 1 /\ Tail(u) = <<>>
<1>0. Len(u) \in Nat \ {0}
  BY EmptySeq
<1>1. Len(u) = 1
  <2>1. \A n \in Nat \ {0} : n <= 1 => n = 1
    OBVIOUS
  <2> QED BY ZenonT(20), <1>0, <2>1
<1>2. Tail(u) \in Seq(Message) /\ Len(Tail(u)) = 0
  BY <1>1
<1> QED BY ZenonT(20), <1>1, <1>2, EmptySeq

\* sock_do reads a command: the client has sent nothing more, and waits for the
\* reply to it.
LEMMA CommandOnly ==
    ASSUME NEW cn, NEW u \in Seq(Message), NEW dn, NEW p, NEW cmd,
           Agrees(cn, u, dn, p, "cmd", cmd), u # <<>>
    PROVE  Len(u) = 1 /\ Tail(u) = <<>>
<1>1. Len(Due("cmd", cmd)) = 1
  BY DueForm DEF Parts
<1>2. Len(u) <= 1
  BY <1>1 DEF Agrees, Shape
<1> QED BY <1>2, OnlyOne

LEMMA CommandRead ==
    ASSUME NEW cn, NEW u \in Seq(Message), NEW dn, NEW p \in Progs, NEW cmd,
           Agrees(cn, u, dn, p, "cmd", cmd), u # <<>>,
           cn \in {"queued", "open"}, p.pc \notin {"new", "done"}
    PROVE  dn = <<>> /\ p.pc = "reply" /\ u[1].cmd = p.cmd
<1>1. Len(Due("cmd", cmd)) = 1 /\ Due("cmd", cmd)[1] = "cmd"
  BY DueForm DEF Parts
<1>2. Len(u) = 1
  BY ZenonT(20), CommandOnly
<1>3. Talks(u, dn, p, "cmd", cmd)
  BY DEF Agrees
<1>4. p.pc \in {"reply", "answer"}
  BY <1>1, <1>2, <1>3 DEF Talks, Progs, Pcs
<1>5. dn = <<>>
  BY <1>2, <1>3, <1>4 DEF Talks
<1> QED BY <1>1, <1>2, <1>3, <1>4, <1>5 DEF Talks

\* The reply to a command agrees with the client that waits for it.
LEMMA AgreesReplied ==
    ASSUME NEW cn, NEW p \in Progs, NEW part \in Parts, NEW cmd, Cardinality(db) \in Nat,
           p.pc = "reply",
           cn \in {"queued", "open"} =>
              IF HasArgs(p.cmd) THEN part = "args" /\ cmd = p.cmd ELSE part = "cmd"
    PROVE  Agrees(cn, <<>>, Tagged(p.cmd, Reply(p.cmd)), p, part, cmd)
<1> DEFINE r == Tagged(p.cmd, Reply(p.cmd))
<1>0. p.cmd \in Cmds
  BY DEF Progs
<1>1. /\ r \in Seq(Told) /\ Len(r) >= 1
      /\ \A j \in 1..Len(r) : r[j].cmd = p.cmd
      /\ r[1].what = "ok" <=> p.cmd # "unknown"
      /\ p.cmd = "iter" =>
            Len(r) > 1 /\ \A j \in 2..Len(r) : r[j].what = "found" <=> j # Len(r)
      /\ p.cmd # "iter" => Len(r) = 1 + (IF p.cmd = "info" THEN 1 ELSE 0)
  BY ZenonT(20), <1>0, ReplyForm
<1> HIDE DEF r
<1>2. Replies(r, p)
  BY <1>1 DEF Replies
<1>3. r # <<>>
  BY <1>1
<1>4. Len(Due(part, cmd)) \in Nat
  BY DueForm DEF Parts
<1>5. Shape(<<>>, Due(part, cmd))
  BY <1>4 DEF Shape
<1>6. cn \in {"queued", "open"} => Talks(<<>>, r, p, part, cmd)
  BY <1>3 DEF Talks
<1>7. Agrees(cn, <<>>, r, p, part, cmd)
  BY <1>2, <1>5, <1>6 DEF Agrees
<1> QED BY <1>7 DEF r

\* The arguments of a lookup are read and answered.
LEMMA AgreesFetched ==
    ASSUME NEW cn, NEW cn2, NEW u \in Seq(Message), NEW dn \in Seq(Told), NEW p \in Progs,
           NEW w \in Whats, NEW cmd,
           Agrees(cn, u, dn, p, "args", "get"), u # <<>>,
           cn \in {"queued", "open"}, p.pc # "new"
    PROVE  IF p.pc = "done" THEN Agrees(cn2, Tail(u), dn, p, "cmd", cmd)
           ELSE Agrees(cn2, Tail(u), dn \o <<[cmd |-> "get", what |-> w]>>, p, "cmd", cmd)
<1>1. Len(Due("args", "get")) = 1 /\ Due("args", "get")[1] = "args"
  BY DueForm DEF Parts
<1>s. Len(u) <= 1
  BY <1>1 DEF Agrees, Shape
<1>2. Len(u) = 1
  BY <1>s, OnlyOne
<1>3. Tail(u) = <<>>
  BY <1>s, OnlyOne
<1>4. CASE p.pc = "done"
  BY ZenonT(20), <1>3, <1>4, AgreesSilent DEF Parts
<1>5. CASE p.pc # "done"
  <2> DEFINE r == dn \o <<[cmd |-> "get", what |-> w]>>
  <2>1. Talks(u, dn, p, "args", "get")
    BY <1>5 DEF Agrees
  <2>2. p.pc \in {"reply", "answer"}
    BY <1>1, <1>2, <1>5, <2>1 DEF Talks, Progs, Pcs
  <2>3. dn = <<>>
    BY <1>2, <2>1, <2>2 DEF Talks
  <2>4. p.pc = "answer" /\ p.cmd = "get"
    BY <1>1, <1>2, <2>1, <2>2, <2>3 DEF Talks
  <2>5. Len(r) = 1 /\ r[1].cmd = "get" /\ r # <<>>
    BY <2>3
  <2> HIDE DEF r
  <2>6. Replies(r, p)
    BY <2>4, <2>5 DEF Replies
  <2>7. Len(Due("cmd", cmd)) = 1
    BY DueForm DEF Parts
  <2>8. Shape(<<>>, Due("cmd", cmd))
    BY <2>7 DEF Shape
  <2>9. Talks(<<>>, r, p, "cmd", cmd)
    BY <2>4, <2>5 DEF Talks
  <2>10. Agrees(cn2, <<>>, r, p, "cmd", cmd)
    BY <2>6, <2>8, <2>9 DEF Agrees
  <2> QED BY ZenonT(20), <1>3, <1>5, <2>10 DEF r
<1> QED BY <1>4, <1>5

\* The first of several parts is read.
LEMMA AgreesShifted ==
    ASSUME NEW cn, NEW u \in Seq(Message), NEW dn, NEW p \in Progs,
           NEW part \in Parts, NEW cmd \in Cmds, NEW part2 \in Parts, NEW cmd2 \in Cmds,
           Agrees(cn, u, dn, p, part, cmd), u # <<>>,
           \/ part = "args" /\ cmd = "delete" /\ part2 = "cmd"
           \/ part = "args" /\ cmd = "store" /\ part2 = "data"
           \/ part = "data" /\ part2 = "cmd"
    PROVE  Agrees(cn, Tail(u), dn, p, part2, cmd2)
<1> DEFINE due == Due(part, cmd)
           due2 == Due(part2, cmd2)
           v == Tail(u)
<1>1. /\ Len(due) = Len(due2) + 1 /\ Len(due2) \in 1..2
      /\ due[1] \in {"args", "data"}
      /\ \A j \in 1..Len(due2) : due2[j] = due[j + 1] /\ due2[j] # "args"
      /\ \A j \in 1..(Len(due2) - 1) : due2[j] # "cmd"
      /\ due2[Len(due2)] = "cmd"
  <2> HIDE DEF due, due2
  <2>1. CASE part2 = "cmd"
    <3>1. Len(due2) = 1 /\ due2[1] = "cmd"
      BY <2>1, DueForm DEF due2
    <3>2. Len(due) = 2 /\ due[1] \in {"args", "data"} /\ due[2] = "cmd"
      BY <2>1, DueForm DEF due
    <3> QED BY <3>1, <3>2
  <2>2. CASE part2 = "data"
    <3>1. Len(due2) = 2 /\ due2[1] = "data" /\ due2[2] = "cmd"
      BY <2>2, DueForm DEF due2
    <3>2. Len(due) = 3 /\ due[1] = "args" /\ due[2] = "data" /\ due[3] = "cmd"
      BY <2>2, DueForm DEF due
    <3> QED BY <3>1, <3>2
  <2> QED BY <2>1, <2>2
<1>2. /\ Len(u) \in Nat \ {0} /\ Len(v) = Len(u) - 1
      /\ \A j \in 1..Len(v) : v[j] = u[j + 1] /\ j + 1 \in 1..Len(u)
  <2>1. Len(u) \in Nat \ {0}
    BY EmptySeq
  <2> QED BY <2>1
<1> HIDE DEF due, due2, v
<1>3. Shape(u, due) /\ Len(u) <= Len(due)
  BY DEF Agrees, Shape, due
<1>4. Shape(v, due2)
  BY <1>1, <1>2, <1>3 DEF Shape
<1>5. ASSUME cn \in {"queued", "open"}, p.pc \notin {"new", "done"}
      PROVE  Talks(v, dn, p, part2, cmd2)
  <2>1. Talks(u, dn, p, part, cmd)
    BY ZenonT(20), <1>5 DEF Agrees
  <2>2. CASE p.pc \in {"ready", "args", "data"}
    <3>1. Len(u) < Len(due) /\ due[Len(u) + 1] = Sending(p.pc)
      BY <2>1, <2>2 DEF Talks, due
    <3>2. Len(v) < Len(due2) /\ due2[Len(v) + 1] = Sending(p.pc) /\ Sending(p.pc) # "args"
      BY <1>1, <1>2, <3>1
    <3> QED BY <2>1, <2>2, <3>2 DEF Talks, due2, Sending
  <2>3. CASE p.pc \in {"reply", "answer"}
    <3>1. dn = <<>>
      BY <1>2, <2>1, <2>3 DEF Talks
    <3>2. /\ Len(u) = Len(due) /\ u[Len(u)].cmd = p.cmd
          /\ due[Len(u)] = IF p.pc = "reply" THEN "cmd" ELSE "args"
          /\ p.pc = "answer" => p.cmd = "get"
      BY <2>1, <2>3, <3>1 DEF Talks, due
    <3>3. /\ Len(v) = Len(due2) /\ Len(v) \in 1..Len(v)
          /\ u[Len(u)] = v[Len(v)]
          /\ due[Len(u)] = due2[Len(v)]
      BY <1>1, <1>2, <3>2
    <3> QED BY <2>3, <3>1, <3>2, <3>3 DEF Talks, due2
  <2> QED BY <1>5, <2>1, <2>2, <2>3 DEF Talks, Progs, Pcs
<1> QED BY <1>4, <1>5 DEF Agrees, v, due2

\* keyd_send_cmd writes a command.
LEMMA AgreesCommand ==
    ASSUME NEW cn, NEW u \in Seq(Message), NEW dn, NEW p \in Progs, NEW m \in Message,
           NEW q \in Progs, NEW part \in Parts, NEW cmd \in Cmds,
           Agrees(cn, u, dn, p, part, cmd), cn \in {"queued", "open"}, p.pc = "ready",
           m.part = "cmd", q.pc = "reply", q.cmd = m.cmd
    PROVE  Agrees(cn, Append(u, m), dn, q, part, cmd)
<1> DEFINE due == Due(part, cmd)
           v == Append(u, m)
<1>1. Len(due) \in 1..3 /\ \A j \in 1..(Len(due) - 1) : due[j] # "cmd"
  BY DueLast
<1>2. /\ Len(u) \in Nat /\ Len(v) = Len(u) + 1
      /\ \A j \in 1..Len(u) : v[j] = u[j]
      /\ v[Len(v)] = m
  OBVIOUS
<1> HIDE DEF due, v
<1>3. Talks(u, dn, p, part, cmd) /\ Shape(u, due)
  BY ZenonT(20) DEF Agrees, due
<1>4. Len(u) < Len(due) /\ due[Len(u) + 1] = "cmd"
  BY <1>3 DEF Talks, Sending, due
<1>5. Len(v) = Len(due) /\ due[Len(v)] = "cmd"
  BY <1>1, <1>2, <1>4
<1>6. Shape(v, due)
  BY <1>2, <1>3, <1>5 DEF Shape
<1>7. dn = <<>>
  BY DEF Agrees, Replies
<1>8. Talks(v, dn, q, part, cmd)
  BY <1>2, <1>5, <1>7 DEF Talks, due
<1> QED BY ZenonT(20), <1>6, <1>7, <1>8 DEF Agrees, v, due

\* When a client writes arguments, the daemon has read all it wrote before.
LEMMA ArgsAwaited ==
    ASSUME NEW cn, NEW u \in Seq(Message), NEW dn, NEW p \in Progs, NEW part \in Parts,
           NEW cmd \in Cmds, Agrees(cn, u, dn, p, part, cmd), cn \in {"queued", "open"},
           p.pc = "args", HasArgs(p.cmd)
    PROVE  /\ u = <<>> /\ part = "args" /\ cmd = p.cmd
           /\ dn = <<>> /\ Len(Due(part, cmd)) \in Nat \ {0} /\ Due(part, cmd)[1] = "args"
<1> DEFINE due == Due(part, cmd)
<1>0. Talks(u, dn, p, part, cmd)
  BY ZenonT(20) DEF Agrees
<1>1. cmd = p.cmd /\ dn = <<>>
  BY ZenonT(20), <1>0 DEF Talks, Agrees, Replies
<1>2. Len(u) \in Nat /\ Len(u) < Len(due) /\ due[Len(u) + 1] = "args"
  BY <1>0 DEF Talks, Sending
<1>3. Len(u) = 0 /\ part = "args" /\ due[1] = "args"
  <2> HIDE DEF due
  <2>1. CASE part = "cmd"
    <3>1. Len(due) = 1 /\ due[1] = "cmd"
      BY <2>1, DueForm DEF due
    <3> QED BY <1>2, <3>1
  <2>2. CASE part = "data"
    <3>1. Len(due) = 2 /\ due[1] = "data" /\ due[2] = "cmd"
      BY <2>2, DueForm DEF due
    <3> QED BY <1>2, <3>1
  <2>3. CASE part = "args"
    <3>1. \/ Len(due) = 1 /\ due[1] = "args"
          \/ Len(due) = 2 /\ due[1] = "args" /\ due[2] = "cmd"
          \/ Len(due) = 3 /\ due[1] = "args" /\ due[2] = "data" /\ due[3] = "cmd"
      BY <1>1, <2>3, DueForm DEF due, HasArgs
    <3> QED BY <1>2, <2>3, <3>1
  <2> QED BY <2>1, <2>2, <2>3 DEF Parts
<1>4. u = <<>>
  BY <1>3, EmptySeq
<1>5. Len(due) \in Nat \ {0}
  <2>1. Len(due) \in 1..3
    BY DueLast
  <2>2. \A n \in 1..3 : n \in Nat \ {0}
    OBVIOUS
  <2> QED BY ZenonT(20), <2>1, <2>2
<1> QED BY <1>1, <1>3, <1>4, <1>5

\* A client writes the arguments of its command.
LEMMA AgreesArgs ==
    ASSUME NEW cn, NEW u \in Seq(Message), NEW dn, NEW p \in Progs, NEW m \in Message,
           NEW q \in Progs, NEW part \in Parts, NEW cmd \in Cmds,
           Agrees(cn, u, dn, p, part, cmd), cn \in {"queued", "open"}, p.pc = "args",
           m.part = "args", m.cmd = p.cmd,
           \/ p.cmd = "get" /\ q.pc = "answer" /\ q.cmd = p.cmd
           \/ p.cmd = "delete" /\ q.pc = "ready"
           \/ p.cmd = "store" /\ q.pc = "data"
    PROVE  Agrees(cn, Append(u, m), dn, q, part, cmd)
<1> DEFINE due == Due(part, cmd)
           v == Append(u, m)
<1>0. HasArgs(p.cmd)
  BY DEF HasArgs
<1>1. u = <<>> /\ cmd = p.cmd
  BY <1>0, ArgsAwaited
<1>2. part = "args" /\ dn = <<>>
  BY <1>0, ArgsAwaited
<1>3. Len(due) \in Nat \ {0} /\ due[1] = "args"
  BY <1>0, ArgsAwaited
<1>5. Len(v) = 1 /\ v[1] = m
  BY <1>1
<1> HIDE DEF v
<1>6. Shape(v, due)
  <2> HIDE DEF due
  <2> QED BY <1>3, <1>5 DEF Shape
<1>7. Talks(v, dn, q, part, cmd)
  <2>1. CASE p.cmd = "get"
    <3>1. Len(due) = 1 /\ due[1] = "args"
      BY ZenonT(20), <1>1, <1>2, <2>1, DueForm
    <3> QED BY ZenonT(20), <1>1, <1>2, <1>5, <2>1, <3>1 DEF Talks
  <2>2. CASE p.cmd = "delete"
    <3>1. Len(due) = 2 /\ due[2] = "cmd"
      BY <1>1, <1>2, <2>2, DueForm
    <3> QED BY <1>5, <2>2, <3>1 DEF Talks, Sending
  <2>3. CASE p.cmd = "store"
    <3>1. Len(due) = 3 /\ due[2] = "data"
      BY ZenonT(20), <1>1, <1>2, <2>3, DueForm
    <3> QED BY <1>5, <2>3, <3>1 DEF Talks, Sending
  <2> QED BY ZenonT(20), <2>1, <2>2, <2>3
<1> QED BY <1>2, <1>6, <1>7 DEF Agrees, v

\* A client writes a key to store.
LEMMA AgreesData ==
    ASSUME NEW cn, NEW u \in Seq(Message), NEW dn, NEW p \in Progs, NEW m \in Message,
           NEW q \in Progs, NEW part \in Parts, NEW cmd \in Cmds,
           Agrees(cn, u, dn, p, part, cmd), cn \in {"queued", "open"}, p.pc = "data",
           m.part = "data", q.pc = "ready"
    PROVE  /\ Agrees(cn, Append(u, m), dn, q, part, cmd)
           /\ part = "data" \/ (part = "args" /\ cmd \notin {"get", "delete"})
<1> DEFINE due == Due(part, cmd)
           v == Append(u, m)
<1>0. Talks(u, dn, p, part, cmd) /\ Shape(u, due)
  BY ZenonT(20) DEF Agrees
<1>1. dn = <<>>
  BY ZenonT(20) DEF Agrees, Replies
<1>2. Len(u) \in Nat /\ Len(u) < Len(due) /\ due[Len(u) + 1] = "data"
  BY <1>0 DEF Talks, Sending
<1>3. /\ Len(u) + 2 = Len(due) /\ due[Len(u) + 2] = "cmd"
      /\ part = "data" \/ (part = "args" /\ cmd \notin {"get", "delete"})
  <2> HIDE DEF due
  <2>1. CASE part = "cmd"
    <3>1. Len(due) = 1 /\ due[1] = "cmd"
      BY <2>1, DueForm DEF due
    <3> QED BY <1>2, <3>1
  <2>2. CASE part = "data"
    <3>1. Len(due) = 2 /\ due[1] = "data" /\ due[2] = "cmd"
      BY <2>2, DueForm DEF due
    <3> QED BY <1>2, <2>2, <3>1
  <2>3. CASE part = "args" /\ cmd \in {"get", "delete"}
    <3>1. \/ Len(due) = 1 /\ due[1] = "args"
          \/ Len(due) = 2 /\ due[1] = "args" /\ due[2] = "cmd"
      BY <2>3, DueForm DEF due
    <3> QED BY <1>2, <3>1
  <2>4. CASE part = "args" /\ cmd \notin {"get", "delete"}
    <3>1. Len(due) = 3 /\ due[1] = "args" /\ due[2] = "data" /\ due[3] = "cmd"
      BY ZenonT(20), <2>4, DueForm DEF due
    <3> QED BY <1>2, <2>4, <3>1
  <2> QED BY <2>1, <2>2, <2>3, <2>4 DEF Parts
<1>4. /\ Len(v) = Len(u) + 1
      /\ \A j \in 1..Len(u) : v[j] = u[j]
      /\ v[Len(v)] = m
  OBVIOUS
<1> HIDE DEF v, due
<1>5. Shape(v, due)
  BY <1>0, <1>2, <1>3, <1>4 DEF Shape
<1>6. Talks(v, dn, q, part, cmd)
  BY <1>2, <1>3, <1>4 DEF Talks, Sending, due
<1> QED BY <1>1, <1>3, <1>5, <1>6 DEF Agrees, v, due

\* What is left after the first of several answers.
LEMMA ToldTail ==
    ASSUME NEW dn \in Seq(Told), dn # <<>>
    PROVE  /\ Len(dn) \in Nat \ {0} /\ Head(dn) = dn[1]
           /\ Tail(dn) \in Seq(Told) /\ Len(Tail(dn)) = Len(dn) - 1
           /\ \A j \in 1..Len(Tail(dn)) :
                 Tail(dn)[j] = dn[j + 1] /\ j + 1 \in 1..Len(dn) /\ j + 1 \in 2..Len(dn)
           /\ Tail(dn) = <<>> <=> Len(dn) = 1
<1> DEFINE e == Tail(dn)
<1>1. Len(dn) \in Nat \ {0}
  BY EmptySeq
<1>2. /\ Head(dn) = dn[1]
      /\ e \in Seq(Told) /\ Len(e) = Len(dn) - 1
      /\ \A j \in 1..Len(e) : e[j] = dn[j + 1] /\ j + 1 \in 1..Len(dn) /\ j + 1 \in 2..Len(dn)
  BY <1>1
<1> HIDE DEF e
<1>3. e # <<>> => Len(e) \in Nat \ {0}
  BY <1>2, EmptySeq
<1>4. e = <<>> => Len(e) = 0
  OBVIOUS
<1>5. Len(e) = 0 <=> Len(dn) = 1
  BY <1>1, <1>2
<1>6. e = <<>> <=> Len(dn) = 1
  BY ZenonT(20), <1>3, <1>4, <1>5
<1> QED BY <1>1, <1>2, <1>6 DEF e

\* keyd_send_cmd reads the reply.
LEMMA AgreesReply ==
    ASSUME NEW cn, NEW u \in Seq(Message), NEW dn \in Seq(Told), NEW p \in Progs,
           NEW q \in Progs, NEW part \in Parts, NEW cmd \in Cmds,
           Agrees(cn, u, dn, p, part, cmd), p.pc = "reply", dn # <<>>,
           q.pc = (IF Head(dn).what = "ok" THEN After(p.cmd) ELSE "ready"),
           q.pc \in {"answer", "args"} => q.cmd = p.cmd
    PROVE  Agrees(cn, u, Tail(dn), q, part, cmd)
<1> DEFINE e == Tail(dn)
<1>0. Shape(u, Due(part, cmd)) /\ Replies(dn, p)
  BY DEF Agrees
<1>1. Len(dn) \in Nat \ {0} /\ Head(dn) = dn[1]
  BY ToldTail
<1>2. /\ e \in Seq(Told) /\ Len(e) = Len(dn) - 1
      /\ \A j \in 1..Len(e) : e[j] = dn[j + 1] /\ j + 1 \in 1..Len(dn) /\ j + 1 \in 2..Len(dn)
  BY ToldTail
<1>3. e = <<>> <=> Len(dn) = 1
  BY ToldTail
<1> HIDE DEF e
<1>4. /\ \A j \in 1..Len(dn) : dn[j].cmd = p.cmd
      /\ dn[1].what = "ok" <=> p.cmd # "unknown"
      /\ p.cmd = "iter" =>
            Len(dn) > 1 /\ \A j \in 2..Len(dn) : dn[j].what = "found" <=> j # Len(dn)
      /\ p.cmd = "info" => Len(dn) = 2
      /\ p.cmd \notin {"info", "iter"} => Len(dn) = 1
  BY <1>0 DEF Replies
<1>5. q.pc = IF p.cmd = "unknown" THEN "ready" ELSE After(p.cmd)
  BY ZenonT(20), <1>1, <1>4
<1>6. cn \in {"queued", "open"} =>
          /\ Len(u) = 0
          /\ IF HasArgs(p.cmd) THEN part = "args" /\ cmd = p.cmd ELSE part = "cmd"
  BY DEF Agrees, Talks
<1>7. CASE p.cmd \in {"info", "iter"}
  <2>1. q.pc = "answer" /\ q.cmd = p.cmd
    BY <1>5, <1>7 DEF After
  <2>2. e # <<>>
    <3>1. CASE p.cmd = "info"
      <4>1. Len(dn) = 2
        BY <1>4, <3>1
      <4> QED BY <1>3, <4>1
    <3>2. CASE p.cmd = "iter"
      <4>1. Len(dn) > 1
        BY <1>4, <3>2
      <4>2. \A n \in Nat \ {0} : n > 1 => n # 1
        OBVIOUS
      <4>3. Len(dn) # 1
        BY ZenonT(20), <1>1, <4>1, <4>2
      <4> QED BY <1>3, <4>3
    <3> QED BY <1>7, <3>1, <3>2
  <2>3. ASSUME NEW j \in 1..Len(e)
        PROVE  e[j].cmd = q.cmd
    BY ZenonT(20), <1>2, <1>4, <2>1
  <2>4. CASE p.cmd = "info"
    <3>0. Len(dn) = 2
      BY <1>4, <2>4
    <3>1. Len(e) = 1
      BY <1>2, <3>0
    <3>2. Replies(e, q)
      BY <2>1, <2>3, <2>4, <3>1 DEF Replies
    <3>3. cn \in {"queued", "open"} => Talks(u, e, q, part, cmd)
      BY ZenonT(20), <1>6, <2>1, <2>2, <2>4 DEF Talks, HasArgs
    <3> QED BY <1>0, <2>1, <3>2, <3>3 DEF Agrees, e
  <2>5. CASE p.cmd = "iter"
    <3>1. \A j \in 1..Len(e) : e[j].what = "found" <=> j # Len(e)
      <4> SUFFICES ASSUME NEW j \in 1..Len(e)
                   PROVE  e[j].what = "found" <=> j # Len(e)
        OBVIOUS
      <4>1. e[j] = dn[j + 1] /\ j + 1 \in 2..Len(dn)
        BY <1>2
      <4>2. j + 1 # Len(dn) <=> j # Len(e)
        BY <1>1, <1>2
      <4> QED BY ZenonT(20), <1>4, <2>5, <4>1, <4>2
    <3>2. Len(e) > 0
      BY <1>1, <1>2, <1>4, <2>5
    <3>3. Replies(e, q)
      BY <2>1, <2>3, <2>5, <3>1, <3>2 DEF Replies
    <3>4. cn \in {"queued", "open"} => Talks(u, e, q, part, cmd)
      BY ZenonT(20), <1>6, <2>1, <2>2, <2>5 DEF Talks, HasArgs
    <3> QED BY <1>0, <2>1, <3>3, <3>4 DEF Agrees, e
  <2> QED BY <1>7, <2>4, <2>5
<1>8. CASE p.cmd \notin {"info", "iter"}
  <2>1. e = <<>>
    BY ZenonT(20), <1>3, <1>4, <1>8
  <2>2. CASE HasArgs(p.cmd)
    <3>1. q.pc = "args" /\ q.cmd = p.cmd
      BY ZenonT(20), <1>5, <1>8, <2>2 DEF After, HasArgs
    <3>2. ASSUME cn \in {"queued", "open"}
          PROVE  Talks(u, e, q, part, cmd)
      <4>1. Len(Due(part, cmd)) \in 1..3
        BY DueLast
      <4>2. Due(part, cmd)[1] = "args"
        BY <1>6, <2>2, <3>2, DueForm
      <4>3. cmd = q.cmd /\ Len(u) = 0
        BY <1>6, <2>2, <3>1, <3>2
      <4>4. Len(u) + 1 = 1 /\ Len(u) < Len(Due(part, cmd))
        <5>1. 0 + 1 = 1 /\ \A n \in 1..3 : 0 < n
          OBVIOUS
        <5>2. 0 < Len(Due(part, cmd))
          BY <4>1, <5>1, Zenon
        <5> QED BY <4>3, <5>1, <5>2, Zenon
      <4> QED BY <3>1, <4>2, <4>3, <4>4 DEF Talks, Sending
    <3> QED BY <1>0, <2>1, <3>2 DEF Agrees, e
  <2>3. CASE p.cmd = "unknown"
    <3>1. q.pc = "ready"
      BY ZenonT(20), <1>5, <2>3
    <3>2. ASSUME cn \in {"queued", "open"}
          PROVE  Talks(u, e, q, part, cmd)
      <4>1. part = "cmd" /\ Len(u) = 0
        BY ZenonT(20), <1>6, <2>3, <3>2 DEF HasArgs
      <4>2. Len(Due(part, cmd)) = 1 /\ Due(part, cmd)[1] = "cmd"
        BY <4>1, DueForm
      <4> QED BY <3>1, <4>1, <4>2 DEF Talks, Sending
    <3> QED BY <1>0, <2>1, <3>2 DEF Agrees, e
  <2>4. CASE p.cmd \in {"close", "quit"}
    <3>1. q.pc = "done"
      BY ZenonT(20), <1>5, <2>4 DEF After
    <3> QED BY <1>0, <3>1 DEF Agrees, e
  <2> QED BY ZenonT(20), <1>8, <2>2, <2>3, <2>4 DEF HasArgs, Progs, Cmds
<1> QED BY ZenonT(20), <1>7, <1>8

\* A client reads an answer, of an iteration one key of it.
LEMMA AgreesAnswer ==
    ASSUME NEW cn, NEW u \in Seq(Message), NEW dn \in Seq(Told), NEW p \in Progs,
           NEW q \in Progs, NEW part \in Parts, NEW cmd \in Cmds,
           Agrees(cn, u, dn, p, part, cmd), p.pc = "answer", dn # <<>>,
           q.pc = (IF p.cmd = "iter" /\ Head(dn).what = "found" THEN "answer" ELSE "ready"),
           q.pc = "answer" => q.cmd = p.cmd
    PROVE  Agrees(cn, u, Tail(dn), q, part, cmd)
<1> DEFINE e == Tail(dn)
<1>0. Shape(u, Due(part, cmd)) /\ Replies(dn, p)
  BY DEF Agrees
<1>1. Len(dn) \in Nat \ {0} /\ Head(dn) = dn[1]
  BY ToldTail
<1>2. /\ e \in Seq(Told) /\ Len(e) = Len(dn) - 1
      /\ \A j \in 1..Len(e) : e[j] = dn[j + 1] /\ j + 1 \in 1..Len(dn) /\ j + 1 \in 2..Len(dn)
  BY ZenonT(20), ToldTail
<1>3. e = <<>> <=> Len(dn) = 1
  BY ZenonT(20), ToldTail
<1> HIDE DEF e
<1>4. /\ \A j \in 1..Len(dn) : dn[j].cmd = p.cmd
      /\ p.cmd = "iter" => \A j \in 1..Len(dn) : dn[j].what = "found" <=> j # Len(dn)
      /\ p.cmd # "iter" => Len(dn) = 1
  BY <1>0 DEF Replies
<1>5. cn \in {"queued", "open"} => Len(u) = 0 /\ part = "cmd"
  BY ZenonT(20) DEF Agrees, Talks
<1>6. CASE p.cmd = "iter" /\ Len(dn) # 1
  <2>1. q.pc = "answer" /\ q.cmd = p.cmd /\ e # <<>>
    <3>1. 1 \in 1..Len(dn) /\ 1 # Len(dn)
      BY <1>1, <1>6
    <3> QED BY ZenonT(20), <1>1, <1>3, <1>4, <1>6, <3>1
  <2>2. \A j \in 1..Len(e) : e[j].cmd = q.cmd
    BY ZenonT(20), <1>2, <1>4, <2>1
  <2>3. \A j \in 1..Len(e) : e[j].what = "found" <=> j # Len(e)
    <3> SUFFICES ASSUME NEW j \in 1..Len(e)
                 PROVE  e[j].what = "found" <=> j # Len(e)
      OBVIOUS
    <3>1. e[j] = dn[j + 1] /\ j + 1 \in 1..Len(dn)
      BY <1>2
    <3>2. j + 1 # Len(dn) <=> j # Len(e)
      BY <1>1, <1>2
    <3> QED BY <1>4, <1>6, <3>1, <3>2
  <2>4. Len(e) > 0
    BY <1>1, <1>2, <1>6
  <2>5. Replies(e, q)
    BY <1>6, <2>1, <2>2, <2>3, <2>4 DEF Replies
  <2>6. cn \in {"queued", "open"} => Talks(u, e, q, part, cmd)
    BY ZenonT(20), <1>5, <2>1 DEF Talks
  <2> QED BY <1>0, <2>1, <2>5, <2>6 DEF Agrees, e
<1>7. CASE Len(dn) = 1
  <2>1. q.pc = "ready" /\ e = <<>>
    BY <1>1, <1>3, <1>4, <1>7
  <2>2. ASSUME cn \in {"queued", "open"}
        PROVE  Talks(u, e, q, part, cmd)
    <3>1. Len(Due(part, cmd)) = 1 /\ Due(part, cmd)[1] = "cmd"
      BY <1>5, <2>2, DueForm
    <3> QED BY <1>5, <2>1, <2>2, <3>1 DEF Talks, Sending
  <2> QED BY <1>0, <2>1, <2>2 DEF Agrees, e
<1> QED BY <1>4, <1>6, <1>7

\* No step of the daemon or of a client leaves the protocol.
LEMMA ProtocolStep == Tables /\ Types' /\ Protocol /\ [Next]_vars => Protocol'
<1> SUFFICES ASSUME Tables, Types', Protocol, [Next]_vars, NEW d \in Client
             PROVE  Agrees(conn'[d], up'[d], down'[d], prog'[d], Awaits(d)', srv'.cmd)
  BY DEF Protocol
<1>t. Types /\ Types'
  BY ZenonT(20) DEF Tables
<1>f. /\ up[d] \in Seq(Message) /\ down[d] \in Seq(Told) /\ prog[d] \in Progs
      /\ srv \in Srv /\ srv.cmd \in Cmds /\ Awaits(d) \in Parts
  BY ZenonT(20), <1>t DEF Types, Srv, Awaits, Parts
<1>g. prog'[d] \in Progs /\ srv'.cmd \in Cmds /\ Awaits(d)' \in Parts
  BY ZenonT(20), <1>t DEF Types, Srv, Awaits, Parts
<1>v. /\ up \in [Client -> Seq(Message)] /\ down \in [Client -> Seq(Told)]
      /\ conn \in [Client -> {"none", "queued", "open", "shut"}]
      /\ prog \in [Client -> Progs]
  BY ZenonT(20), <1>t DEF Types
<1>a. Agrees(conn[d], up[d], down[d], prog[d], Awaits(d), srv.cmd)
  BY ZenonT(20) DEF Protocol
<1> DEFINE Kept == /\ up'[d] = up[d] /\ down'[d] = down[d] /\ prog'[d] = prog[d]
                   /\ conn'[d] \in {"queued", "open"} => conn[d] \in {"queued", "open"}
           Goal == Agrees(conn'[d], up'[d], down'[d], prog'[d], Awaits(d)', srv'.cmd)
<1> SUFFICES Goal
  BY ZenonT(20)
<1>u. Kept /\ UNCHANGED <<srv, clients>> => Goal
  <2> SUFFICES ASSUME Kept, UNCHANGED <<srv, clients>> PROVE Goal
    BY ZenonT(20)
  <2>1. Awaits(d)' = Awaits(d) /\ srv'.cmd = srv.cmd
    BY ZenonT(20) DEF Awaits
  <2>2. Agrees(conn'[d], up[d], down[d], prog[d], Awaits(d), srv.cmd)
    BY ZenonT(20), <1>a, AgreesStill
  <2> QED BY ZenonT(20), <2>1, <2>2
<1>e. Kept /\ Awaits(d) = "cmd" /\ Awaits(d)' = "cmd" => Goal
  <2> SUFFICES ASSUME Kept, Awaits(d) = "cmd", Awaits(d)' = "cmd" PROVE Goal
    BY ZenonT(20)
  <2>1. Agrees(conn[d], up[d], down[d], prog[d], "cmd", srv'.cmd)
    BY ZenonT(20), <1>a, <1>f, AgreesElsewhere
  <2>2. Agrees(conn'[d], up[d], down[d], prog[d], "cmd", srv'.cmd)
    BY ZenonT(20), <2>1, AgreesStill
  <2> QED BY ZenonT(20), <2>2
<1>w. /\ srv.at \notin {"args", "data"} => Awaits(d) = "cmd"
      /\ srv'.at \notin {"args", "data"} => Awaits(d)' = "cmd"
      /\ clients[srv.i] # d => Awaits(d) = "cmd"
      /\ clients'[srv'.i] # d => Awaits(d)' = "cmd"
  BY ZenonT(20) DEF Awaits
<1>1. CASE Poll \/ ScanSkips \/ Starts
  <2>1. Kept
    BY <1>1 DEF Poll, ScanSkips, Starts, sockets
  <2>2. srv.at \notin {"args", "data"}
    BY ZenonT(20), <1>1 DEF Poll, ScanSkips, Starts
  <2>3. srv'.at \notin {"args", "data"}
    BY ZenonT(20), <1>1, <1>f, MovesStart, MovesSkip DEF Poll, Starts, Moved, Places
  <2> QED BY ZenonT(20), <1>e, <1>w, <2>1, <2>2, <2>3
<1>2. CASE Accepts
  <2>1. srv.at \notin {"args", "data"}
    BY ZenonT(20), <1>2 DEF Accepts
  <2>2. srv'.at \notin {"args", "data"}
    BY ZenonT(20), <1>2, MovesStart DEF Accepts, Moved, Places
  <2>3. UNCHANGED <<up, down, prog>>
    BY ZenonT(20), <1>2 DEF Accepts
  <2>4. conn' = conn \/ (backlog # <<>> /\ conn' = [conn EXCEPT ![backlog[1]] = "open"])
    BY <1>2 DEF Accepts, SockAccept, Tables, Queued
  <2>5. backlog # <<>> => conn[backlog[1]] = "queued"
    BY <1>t DEF Tables, Queued, Types
  <2>6. Kept
    BY ZenonT(20), <1>v, <2>3, <2>4, <2>5
  <2> QED BY ZenonT(20), <1>e, <1>w, <2>1, <2>2, <2>6
<1>3. CASE Signal \/ UNCHANGED vars
  BY ZenonT(20), <1>3, <1>u DEF Signal, vars, sockets
<1>4. CASE Ended
  <2>1. up'[d] = <<>> /\ conn'[d] \notin {"queued", "open"} /\ UNCHANGED <<down, prog>>
    BY <1>4, <1>v DEF Ended
  <2>2. prog[d].pc # "done" /\ down[d] # <<>> => Replies(down[d], prog[d])
    BY ZenonT(20), <1>a DEF Agrees
  <2>3. Agrees(conn'[d], <<>>, down[d], prog[d], Awaits(d)', srv'.cmd)
    BY ZenonT(20), <1>g, <2>1, <2>2, AgreesSilent
  <2> QED BY ZenonT(20), <2>1, <2>3
<1>5. CASE ScanServes
  <2>0. srv.i \in 1..MaxClients /\ Serving \in Client
    BY ZenonT(20), <1>5, ServingClient DEF ScanServes
  <2>1. srv.at = "scan" /\ Awaits(d) = "cmd"
    BY ZenonT(20), <1>5 DEF ScanServes, Awaits
  <2>a. Agrees(conn[d], up[d], down[d], prog[d], "cmd", srv.cmd)
    BY <1>a, <2>1
  <2>2. up[Serving] # <<>> => Head(up[Serving]).cmd \in Cmds /\ Head(up[Serving]) = up[Serving][1]
    BY ZenonT(20), <1>t, <2>0, FirstMessage
  <2>3. UNCHANGED prog
    BY ZenonT(20), <1>5 DEF ScanServes
  <2>4. CASE up[Serving] # <<>> /\ ~Gone(Serving) /\ HasArgs(Head(up[Serving]).cmd)
    <3> DEFINE cmd == Head(up[Serving]).cmd
    <3>1. Moved("args", srv.i, srv.curfd + 1, cmd)
      BY <1>5, <1>f, <2>2, <2>4, MovesServe
    <3>2. /\ UNCHANGED <<clients, conn>>
          /\ up' = [up EXCEPT ![Serving] = Tail(up[Serving])]
          /\ down' = [down EXCEPT ![Serving] = down[Serving] \o Tagged(cmd, Reply(cmd))]
      BY ZenonT(20), <1>5, <2>4 DEF ScanServes, HasArgs
    <3>3. Awaits(d)' = (IF d = Serving THEN "args" ELSE "cmd") /\ srv'.cmd = cmd
      BY ZenonT(20), <3>1, <3>2 DEF Moved, Awaits, Serving
    <3>4. CASE d # Serving
      BY ZenonT(20), <1>e, <1>v, <2>0, <2>1, <2>3, <3>2, <3>3, <3>4
    <3>5. CASE d = Serving
      <4>1. conn[d] = "open" /\ prog[d].pc \notin {"new", "done"}
        BY <2>0, <2>4, <3>5 DEF Tables, Listed, Connected, Gone, Serving
      <4>2. /\ Tail(up[d]) = <<>> /\ down[d] = <<>> /\ prog[d].pc = "reply"
            /\ up[d][1].cmd = prog[d].cmd
        <5>1. up[d] # <<>> /\ conn[d] \in {"queued", "open"} /\ prog[d].pc \notin {"new", "done"}
          BY ZenonT(20), <2>4, <3>5, <4>1
        <5>2. down[d] = <<>>
          BY ZenonT(20), <1>f, <2>a, <5>1, CommandRead
        <5>3. prog[d].pc = "reply"
          BY <1>f, <2>a, <5>1, CommandRead
        <5>4. up[d][1].cmd = prog[d].cmd
          BY <1>f, <2>a, <5>1, CommandRead
        <5> QED BY ZenonT(20), <1>f, <2>a, <5>1, <5>2, <5>3, <5>4, CommandOnly
      <4>3. cmd = prog[d].cmd
        BY <2>2, <2>4, <3>5, <4>2
      <4> DEFINE q == Tagged(prog[d].cmd, Reply(prog[d].cmd))
      <4>4. Agrees(conn[d], <<>>, q, prog[d], "args", cmd)
        BY ZenonT(20), <1>f, <1>t, <2>4, <4>2, <4>3, AgreesReplied DEF Types, Parts
      <4>5. q \in Seq(Told)
        BY ZenonT(20), <1>f, <1>t, ReplyForm DEF Types, Progs
      <4> HIDE DEF q
      <4>6. up'[d] = <<>> /\ down'[d] = q
        <5>1. down'[d] = <<>> \o q /\ up'[d] = <<>>
          BY ZenonT(20), <1>v, <3>2, <3>5, <4>2, <4>3 DEF q
        <5> QED BY ZenonT(20), <4>5, <5>1, ConcatEmptySeq
      <4> QED BY ZenonT(20), <2>3, <3>2, <3>3, <3>5, <4>4, <4>6
    <3> QED BY ZenonT(20), <3>4, <3>5
  <2>5. CASE ~(up[Serving] # <<>> /\ ~Gone(Serving) /\ HasArgs(Head(up[Serving]).cmd))
    <3>1. Moved("scan", srv.i + 1, srv.curfd + 1, srv.cmd)
      BY ZenonT(20), <1>5, <1>f, <2>2, <2>5, MovesServe
    <3>2. Awaits(d)' = "cmd"
      BY ZenonT(20), <1>w, <3>1 DEF Moved
    <3>3. CASE d # Serving
      <4>1. /\ up' = up \/ up' = [up EXCEPT ![Serving] = Tail(up[Serving])]
            /\ conn' = conn \/ conn' = [conn EXCEPT ![Serving] = "shut"]
        BY ZenonT(20), <1>5 DEF ScanServes, Closed
      <4>2. down' = down \/ \E r : down' = [down EXCEPT ![Serving] = down[Serving] \o r]
        BY ZenonT(20), <1>5 DEF ScanServes
      <4>3. Kept
        BY ZenonT(20), <1>v, <2>0, <2>3, <3>3, <4>1, <4>2
      <4> QED BY <1>e, <2>1, <3>2, <4>3
    <3>4. CASE d = Serving /\ up[d] = <<>>
      <4>1. conn'[d] = "shut" /\ up'[d] = <<>> /\ down'[d] = down[d]
        BY ZenonT(20), <1>5, <1>v, <3>4 DEF ScanServes, Closed
      <4>2. prog[d].pc # "done" /\ down[d] # <<>> => Replies(down[d], prog[d])
        BY <1>a DEF Agrees
      <4>3. Agrees("shut", <<>>, down[d], prog[d], "cmd", srv'.cmd)
        BY ZenonT(20), <4>2, AgreesSilent DEF Parts
      <4> QED BY <2>3, <3>2, <4>1, <4>3
    <3>5. CASE d = Serving /\ up[d] # <<>> /\ prog[d].pc = "done"
      <4>1. Tail(up[d]) = <<>>
        BY ZenonT(20), <1>f, <2>a, <3>5, CommandOnly
      <4>2. up'[d] = <<>>
        BY <1>5, <1>v, <3>5, <4>1 DEF ScanServes
      <4>3. Agrees(conn'[d], <<>>, down'[d], prog[d], "cmd", srv'.cmd)
        BY ZenonT(20), <3>5, AgreesSilent DEF Parts
      <4> QED BY ZenonT(20), <2>3, <3>2, <4>2, <4>3
    <3>6. CASE d = Serving /\ up[d] # <<>> /\ prog[d].pc # "done"
      <4> DEFINE cmd == Head(up[d]).cmd
      <4>1. conn[d] = "open" /\ prog[d].pc \notin {"new", "done"}
        BY ZenonT(20), <2>0, <3>6 DEF Tables, Listed, Connected, Serving
      <4>2. /\ Tail(up[d]) = <<>> /\ down[d] = <<>> /\ prog[d].pc = "reply"
            /\ up[d][1].cmd = prog[d].cmd
        <5>1. up[d] # <<>> /\ conn[d] \in {"queued", "open"} /\ prog[d].pc \notin {"new", "done"}
          BY ZenonT(20), <3>6, <4>1
        <5>2. down[d] = <<>>
          BY <1>f, <2>a, <5>1, CommandRead
        <5>3. prog[d].pc = "reply"
          BY <1>f, <2>a, <5>1, CommandRead
        <5>4. up[d][1].cmd = prog[d].cmd
          BY <1>f, <2>a, <5>1, CommandRead
        <5> QED BY ZenonT(20), <1>f, <2>a, <5>1, <5>2, <5>3, <5>4, CommandOnly
      <4>3. cmd = prog[d].cmd /\ ~HasArgs(prog[d].cmd)
        BY <2>2, <2>5, <3>6, <4>2 DEF Gone
      <4> DEFINE q == Tagged(prog[d].cmd, Reply(prog[d].cmd))
      <4>4. Agrees(conn'[d], <<>>, q, prog[d], "cmd", srv'.cmd)
        BY ZenonT(20), <1>f, <1>t, <4>2, <4>3, AgreesReplied DEF Types, Parts
      <4>5. q \in Seq(Told)
        BY ZenonT(20), <1>f, <1>t, ReplyForm DEF Types, Progs
      <4>6. /\ up' = [up EXCEPT ![d] = Tail(up[d])]
            /\ down' = [down EXCEPT ![d] = down[d] \o q]
        BY ZenonT(20), <1>5, <3>6, <4>3 DEF ScanServes, Gone
      <4> HIDE DEF q
      <4>7. up'[d] = <<>> /\ down'[d] = q
        <5>1. down'[d] = <<>> \o q /\ up'[d] = <<>>
          BY ZenonT(20), <1>v, <4>2, <4>6
        <5> QED BY <4>5, <5>1, ConcatEmptySeq
      <4> QED BY ZenonT(20), <2>3, <3>2, <4>4, <4>7
    <3> QED BY ZenonT(20), <3>3, <3>4, <3>5, <3>6
  <2> QED BY ZenonT(20), <2>4, <2>5
<1>i. ASSUME Inside
      PROVE  /\ srv.i \in 1..MaxClients /\ Serving \in Client
             /\ d # Serving => Awaits(d) = "cmd"
             /\ d = Serving /\ srv.at \in {"args", "data"} => Awaits(d) = srv.at
             /\ d = Serving => conn[d] = "open" /\ prog[d].pc # "new"
  <2>1. srv.i \in 1..MaxClients /\ Serving \in Client
    BY ZenonT(20), <1>i, ServingClient
  <2>2. d = Serving => conn[d] = "open"
    BY ZenonT(20), <2>1 DEF Tables, Listed, Serving
  <2>3. d = Serving => prog[d].pc # "new"
    BY ZenonT(20), <2>2 DEF Tables, Connected
  <2> QED BY <2>1, <2>2, <2>3 DEF Awaits, Serving
<1>n. srv' = NextEntry => Awaits(d)' = "cmd"
  BY ZenonT(20), <1>f, <1>w, MovesNext DEF Moved
<1>6. CASE AnswersGet
  <2>0. Inside /\ srv.at = "args" /\ srv.cmd = "get" /\ up[Serving] # <<>> /\ UNCHANGED prog
    BY ZenonT(20), <1>6 DEF AnswersGet, Inside
  <2>1. Awaits(d)' = "cmd"
    BY ZenonT(20), <1>6, <1>n DEF AnswersGet
  <2> DEFINE w == IF Head(up[Serving]).key \in db THEN "found" ELSE "none"
  <2>2. /\ up' = [up EXCEPT ![Serving] = Tail(up[Serving])]
        /\ conn' = conn \/ conn' = [conn EXCEPT ![Serving] = "shut"]
        /\ down' = IF Gone(Serving) THEN down
                   ELSE [down EXCEPT ![Serving] = down[Serving] \o <<[cmd |-> "get", what |-> w]>>]
    <3>1. \A x : Tagged("get", <<x>>) = <<[cmd |-> "get", what |-> x]>>
      BY DEF Tagged
    <3> DEFINE b == Head(up[Serving]).key \in db
               tg == Tagged("get", IF b THEN <<"found">> ELSE <<"none">>)
    <3>2. tg = <<[cmd |-> "get", what |-> w]>>
      <4>1. CASE b
        BY ZenonT(20), <3>1, <4>1
      <4>2. CASE ~b
        BY ZenonT(20), <3>1, <4>2
      <4> QED BY ZenonT(20), <4>1, <4>2
    <3>3. down' = IF Gone(Serving) THEN down
                  ELSE [down EXCEPT ![Serving] = down[Serving] \o tg]
      BY ZenonT(20), <1>6 DEF AnswersGet
    <3> HIDE DEF tg, w
    <3>4. /\ up' = [up EXCEPT ![Serving] = Tail(up[Serving])]
          /\ conn' = conn \/ conn' = [conn EXCEPT ![Serving] = "shut"]
      BY ZenonT(20), <1>6 DEF AnswersGet, Closed
    <3> QED BY ZenonT(20), <3>2, <3>3, <3>4
  <2>3. CASE d # Serving
    BY ZenonT(20), <1>e, <1>i, <1>v, <2>0, <2>1, <2>2, <2>3
  <2>4. CASE d = Serving
    <3>1. Agrees(conn[d], up[d], down[d], prog[d], "args", "get")
      BY <1>a, <1>i, <2>0, <2>4
    <3>2. w \in Whats
      BY ZenonT(20) DEF Whats
    <3> HIDE DEF w
    <3>3. conn[d] \in {"queued", "open"} /\ prog[d].pc # "new" /\ up[d] # <<>>
      BY <1>i, <2>0, <2>4
    <3>4. IF prog[d].pc = "done"
          THEN Agrees(conn'[d], Tail(up[d]), down[d], prog[d], "cmd", srv'.cmd)
          ELSE Agrees(conn'[d], Tail(up[d]), down[d] \o <<[cmd |-> "get", what |-> w]>>,
                      prog[d], "cmd", srv'.cmd)
      BY ZenonT(20), <1>f, <3>1, <3>2, <3>3, AgreesFetched
    <3>5. up'[d] = Tail(up[d])
      BY ZenonT(20), <1>v, <2>2, <2>4
    <3>6. down'[d] = IF prog[d].pc = "done" THEN down[d]
                     ELSE down[d] \o <<[cmd |-> "get", what |-> w]>>
      BY ZenonT(20), <1>v, <2>2, <2>4 DEF Gone
    <3> QED BY ZenonT(20), <2>0, <2>1, <3>4, <3>5, <3>6
  <2> QED BY <2>3, <2>4
<1>7. CASE Deletes \/ Stores
  <2>0. /\ Inside /\ up[Serving] # <<>> /\ UNCHANGED <<conn, down, prog>>
        /\ (srv.at = "args" /\ srv.cmd = "delete") \/ srv.at = "data"
        /\ up' = [up EXCEPT ![Serving] = Tail(up[Serving])]
    BY ZenonT(20), <1>7 DEF Deletes, Stores, Inside
  <2>1. Awaits(d)' = "cmd"
    BY ZenonT(20), <1>7, <1>n DEF Deletes, Stores
  <2>2. CASE d # Serving
    BY ZenonT(20), <1>e, <1>i, <1>v, <2>0, <2>1, <2>2
  <2>3. CASE d = Serving
    <3>1. Awaits(d) = srv.at /\ up[d] # <<>> /\ up'[d] = Tail(up[d])
      BY <1>i, <1>v, <2>0, <2>3
    <3>2. Agrees(conn[d], Tail(up[d]), down[d], prog[d], "cmd", srv'.cmd)
      BY ZenonT(20), <1>a, <1>f, <1>g, <2>0, <3>1, AgreesShifted DEF Parts
    <3> QED BY ZenonT(20), <2>0, <2>1, <3>1, <3>2
  <2> QED BY <2>2, <2>3
<1>8. CASE ReadsSize
  <2>0. /\ Inside /\ up[Serving] # <<>> /\ UNCHANGED <<conn, down, prog, clients>>
        /\ srv.at = "args" /\ srv.cmd = "store"
        /\ up' = [up EXCEPT ![Serving] = Tail(up[Serving])]
    BY <1>8 DEF ReadsSize, Inside
  <2>1. Moved("data", srv.i, srv.curfd, srv.cmd)
    BY <1>8, <1>f, MovesAt DEF ReadsSize, Places
  <2>2. Awaits(d)' = IF d = Serving THEN "data" ELSE "cmd"
    BY ZenonT(20), <2>0, <2>1 DEF Moved, Awaits, Serving
  <2>3. CASE d # Serving
    BY ZenonT(20), <1>e, <1>i, <1>v, <2>0, <2>2, <2>3
  <2>4. CASE d = Serving
    <3>1. Awaits(d) = "args" /\ up[d] # <<>> /\ up'[d] = Tail(up[d])
      BY <1>i, <1>v, <2>0, <2>4
    <3>2. Agrees(conn[d], Tail(up[d]), down[d], prog[d], "data", srv'.cmd)
      BY ZenonT(20), <1>a, <1>f, <1>g, <2>0, <3>1, AgreesShifted DEF Parts
    <3> QED BY ZenonT(20), <2>0, <2>2, <2>4, <3>1, <3>2
  <2> QED BY <2>3, <2>4
<1>9. CASE ArgsMissing \/ DataMissing
  <2>0. /\ Inside /\ up[Serving] = <<>> /\ Gone(Serving) /\ UNCHANGED <<up, down, prog>>
        /\ conn' = conn \/ conn' = [conn EXCEPT ![Serving] = "shut"]
    BY <1>9 DEF ArgsMissing, DataMissing, Inside, Closed, sockets
  <2>1. Awaits(d)' = "cmd"
    <3>1. srv' = NextEntry \/ srv' = [srv EXCEPT !.at = "spin"]
      BY <1>9 DEF ArgsMissing, DataMissing
    <3>2. srv' = [srv EXCEPT !.at = "spin"] => srv'.at = "spin"
      BY ZenonT(20), <1>f, MovesAt DEF Moved, Places
    <3> QED BY <1>n, <1>w, <3>1, <3>2
  <2>2. CASE d # Serving
    BY ZenonT(20), <1>e, <1>i, <1>v, <2>0, <2>1, <2>2
  <2>3. CASE d = Serving
    <3>1. Agrees(conn'[d], <<>>, down[d], prog[d], "cmd", srv'.cmd)
      BY ZenonT(20), <2>0, <2>3, AgreesSilent DEF Gone, Parts
    <3> QED BY <2>0, <2>1, <2>3, <3>1
  <2> QED BY <2>2, <2>3
<1>l. UNCHANGED loop => Awaits(d)' = Awaits(d) /\ srv' = srv /\ clients' = clients
  BY ZenonT(20) DEF Awaits, loop
<1>10. ASSUME NEW c \in Client, c # d,
              Connects(c) \/ Refused(c) \/ ClientStep(c) \/ Dies(c)
              \/ \E cmd \in Cmds, k \in Key : Commands(c, cmd, k)
       PROVE  Goal
  <2>1. UNCHANGED loop
    BY ZenonT(20), <1>10 DEF Connects, Refused, ClientStep, ReadsReply, ReadsAnswer, SendsArgs,
                 SendsData, Dies, Commands
  <2>2. Kept
    BY <1>10, <1>v DEF Connects, Refused, ClientStep, ReadsReply, ReadsAnswer, SendsArgs,
                 SendsData, Dies, Commands, Goes, Sends, sockets
  <2> QED BY ZenonT(20), <1>l, <1>u, <2>1, <2>2
<1>p. ASSUME NEW pc, Goes(d, pc)
      PROVE  /\ prog'[d].pc = pc
             /\ pc \notin {"done", "ready"} => prog'[d].cmd = prog[d].cmd
  BY ZenonT(20), <1>p, <1>v DEF Goes
<1>11. ASSUME Goes(d, "done"), UNCHANGED loop, UNCHANGED up
       PROVE  Goal
  <2>1. Agrees(conn'[d], up[d], down'[d], prog'[d], Awaits(d), srv.cmd)
    BY ZenonT(20), <1>11, <1>a, <1>p, AgreesGone
  <2> QED BY ZenonT(20), <1>11, <1>l, <2>1
<1>12. ASSUME Connects(d)
       PROVE  Goal
  <2>1. PICK k \in Key : Sends(d, Msg("info", k, "cmd"))
    BY ZenonT(20), <1>12 DEF Connects
  <2>2. conn[d] = "none" /\ up[d] = <<>> /\ prog[d].cmd = "info" /\ prog[d].pc = "new"
    BY ZenonT(20), <1>12 DEF Connects, Tables, Connected
  <2>3. Awaits(d) = "cmd"
    <3>1. ~Inside \/ clients[srv.i] # d
      BY ZenonT(20), <2>2 DEF Tables, Aligned, Listed
    <3> QED BY ZenonT(20), <3>1 DEF Awaits, Inside
  <2>4. Len(up'[d]) = 1 /\ up'[d][1].cmd = "info" /\ up'[d][1].part = "cmd"
    <3>1. up'[d] = Append(<<>>, Msg("info", k, "cmd"))
      BY ZenonT(20), <1>v, <2>1, <2>2 DEF Sends
    <3> QED BY <3>1 DEF Msg
  <2>5. prog'[d].pc = "reply" /\ prog'[d].cmd = "info" /\ UNCHANGED <<loop, down>>
    BY <1>12, <1>p, <2>2 DEF Connects
  <2>6. down[d] = <<>>
    BY ZenonT(20), <1>a, <2>2 DEF Agrees, Replies
  <2>7. Len(Due("cmd", srv.cmd)) = 1 /\ Due("cmd", srv.cmd)[1] = "cmd"
    BY DueForm DEF Parts
  <2>8. Shape(up'[d], Due("cmd", srv.cmd))
    BY <2>4, <2>7 DEF Shape
  <2>9. Talks(up'[d], down[d], prog'[d], "cmd", srv.cmd)
    BY ZenonT(20), <2>4, <2>5, <2>6, <2>7 DEF Talks
  <2>10. Agrees(conn'[d], up'[d], down[d], prog'[d], "cmd", srv.cmd)
    BY ZenonT(20), <2>6, <2>8, <2>9 DEF Agrees
  <2> QED BY ZenonT(20), <1>l, <2>3, <2>5, <2>10
<1>13. ASSUME Refused(d) \/ Dies(d)
       PROVE  Goal
  BY ZenonT(20), <1>11, <1>13 DEF Refused, Dies, sockets
<1>h. ASSUME conn[d] # "shut", prog[d].pc \in {"ready", "args", "data"}
      PROVE  conn[d] \in {"queued", "open"}
  BY ZenonT(20), <1>h, <1>v DEF Tables, Connected
<1>14. ASSUME NEW cmd \in Cmds, NEW k \in Key, Commands(d, cmd, k)
       PROVE  Goal
  <2>1. CASE conn[d] = "shut"
    BY ZenonT(20), <1>11, <1>14, <2>1 DEF Commands
  <2>2. CASE conn[d] # "shut"
    <3> DEFINE m == Msg(cmd, k, "cmd")
    <3>1. /\ prog[d].pc = "ready" /\ UNCHANGED <<loop, conn, down>>
          /\ up' = [up EXCEPT ![d] = Append(up[d], m)]
          /\ prog' = [prog EXCEPT ![d] = [pc |-> "reply", cmd |-> cmd]]
      BY ZenonT(20), <1>14, <2>2 DEF Commands, Sends
    <3>2. m \in Message /\ m.part = "cmd" /\ m.cmd = cmd
      BY ZenonT(20) DEF Msg, Message, Parts
    <3> HIDE DEF m
    <3>3. prog'[d].pc = "reply" /\ prog'[d].cmd = cmd /\ up'[d] = Append(up[d], m)
      BY ZenonT(20), <1>v, <3>1
    <3>4. conn[d] \in {"queued", "open"}
      BY ZenonT(20), <1>h, <2>2, <3>1
    <3>5. Agrees(conn[d], Append(up[d], m), down[d], prog'[d], Awaits(d), srv.cmd)
      BY ZenonT(20), <1>a, <1>f, <1>g, <3>1, <3>2, <3>3, <3>4, AgreesCommand
    <3> QED BY ZenonT(20), <1>l, <3>1, <3>3, <3>5
  <2> QED BY ZenonT(20), <2>1, <2>2
<1>r. ASSUME conn'[d] = "shut", down'[d] = <<>>, up'[d] = up[d], UNCHANGED loop
      PROVE  Goal
  <2>1. Shape(up[d], Due(Awaits(d), srv.cmd))
    BY ZenonT(20), <1>a DEF Agrees
  <2>2. Agrees(conn'[d], up[d], down'[d], prog'[d], Awaits(d), srv.cmd)
    BY ZenonT(20), <1>r, <2>1 DEF Agrees
  <2> QED BY ZenonT(20), <1>l, <1>r, <2>2
<1>15. ASSUME ReadsReply(d)
       PROVE  Goal
  <2>0. prog[d].pc = "reply" /\ UNCHANGED <<loop, conn, up>>
    BY ZenonT(20), <1>15 DEF ReadsReply
  <2>1. CASE down[d] = <<>>
    BY ZenonT(20), <1>15, <1>r, <2>0, <2>1 DEF ReadsReply
  <2>2. CASE down[d] # <<>>
    <3>1. /\ Goes(d, IF Head(down[d]).what = "ok" THEN After(prog[d].cmd) ELSE "ready")
          /\ down' = [down EXCEPT ![d] = Tail(down[d])]
      BY ZenonT(20), <1>15, <2>2 DEF ReadsReply
    <3>2. prog'[d].pc = IF Head(down[d]).what = "ok" THEN After(prog[d].cmd) ELSE "ready"
      BY ZenonT(20), <1>p, <3>1
    <3>3. prog'[d].pc \in {"answer", "args"} => prog'[d].cmd = prog[d].cmd
      BY <1>p, <3>1, <3>2
    <3>4. Agrees(conn[d], up[d], Tail(down[d]), prog'[d], Awaits(d), srv.cmd)
      BY ZenonT(20), <1>a, <1>f, <1>g, <2>0, <2>2, <3>2, <3>3, AgreesReply
    <3>5. down'[d] = Tail(down[d])
      BY ZenonT(20), <1>v, <3>1
    <3> QED BY ZenonT(20), <1>l, <2>0, <3>4, <3>5
  <2> QED BY ZenonT(20), <2>1, <2>2
<1>16. ASSUME ReadsAnswer(d)
       PROVE  Goal
  <2>0. prog[d].pc = "answer" /\ UNCHANGED <<loop, conn, up>>
    BY <1>16 DEF ReadsAnswer
  <2>1. CASE down[d] = <<>>
    BY ZenonT(20), <1>16, <1>r, <2>0, <2>1 DEF ReadsAnswer
  <2>2. CASE down[d] # <<>>
    <3>1. /\ Goes(d, IF prog[d].cmd = "iter" /\ Head(down[d]).what = "found"
                     THEN "answer" ELSE "ready")
          /\ down' = [down EXCEPT ![d] = Tail(down[d])]
      BY ZenonT(20), <1>16, <2>2 DEF ReadsAnswer
    <3>2. prog'[d].pc = IF prog[d].cmd = "iter" /\ Head(down[d]).what = "found"
                        THEN "answer" ELSE "ready"
      BY ZenonT(20), <1>p, <3>1
    <3>3. prog'[d].pc = "answer" => prog'[d].cmd = prog[d].cmd
      BY <1>p, <3>1, <3>2
    <3>4. Agrees(conn[d], up[d], Tail(down[d]), prog'[d], Awaits(d), srv.cmd)
      BY ZenonT(20), <1>a, <1>f, <1>g, <2>0, <2>2, <3>2, <3>3, AgreesAnswer
    <3>5. down'[d] = Tail(down[d])
      BY <1>v, <3>1
    <3> QED BY ZenonT(20), <1>l, <2>0, <3>4, <3>5
  <2> QED BY ZenonT(20), <2>1, <2>2
<1>17. ASSUME NEW k \in Key, SendsArgs(d, k)
       PROVE  Goal
  <2>1. CASE conn[d] = "shut"
    BY ZenonT(20), <1>11, <1>17, <2>1 DEF SendsArgs
  <2>2. CASE conn[d] # "shut"
    <3> DEFINE m == Msg(prog[d].cmd, k, "args")
    <3>0. HasArgs(prog[d].cmd)
      BY <1>17 DEF SendsArgs, Tables, Connected
    <3>1. /\ prog[d].pc = "args" /\ UNCHANGED <<loop, conn, down>>
          /\ up' = [up EXCEPT ![d] = Append(up[d], m)]
          /\ \/ prog[d].cmd = "get" /\ Goes(d, "answer")
             \/ prog[d].cmd = "delete" /\ Goes(d, "ready")
             \/ prog[d].cmd = "store" /\ Goes(d, "data")
      BY ZenonT(20), <1>17, <2>2, <3>0 DEF SendsArgs, Sends, HasArgs
    <3>2. m \in Message /\ m.part = "args" /\ m.cmd = prog[d].cmd
      BY ZenonT(20), <1>f DEF Msg, Message, Parts, Progs
    <3> HIDE DEF m
    <3>3. \/ prog[d].cmd = "get" /\ prog'[d].pc = "answer" /\ prog'[d].cmd = prog[d].cmd
          \/ prog[d].cmd = "delete" /\ prog'[d].pc = "ready"
          \/ prog[d].cmd = "store" /\ prog'[d].pc = "data"
      BY <1>p, <3>1
    <3>4. conn[d] \in {"queued", "open"}
      BY <1>h, <2>2, <3>1
    <3>5. Agrees(conn[d], Append(up[d], m), down[d], prog'[d], Awaits(d), srv.cmd)
      BY ZenonT(20), <1>a, <1>f, <1>g, <3>1, <3>2, <3>3, <3>4, AgreesArgs
    <3>6. up'[d] = Append(up[d], m)
      BY ZenonT(20), <1>v, <3>1
    <3> QED BY ZenonT(20), <1>l, <3>1, <3>5, <3>6
  <2> QED BY ZenonT(20), <2>1, <2>2
<1>18. ASSUME NEW k \in Key, SendsData(d, k)
       PROVE  Goal
  <2>1. CASE conn[d] = "shut"
    BY ZenonT(20), <1>11, <1>18, <2>1 DEF SendsData
  <2>2. CASE conn[d] # "shut"
    <3> DEFINE m == Msg("store", k, "data")
    <3>1. /\ prog[d].pc = "data" /\ UNCHANGED <<loop, conn, down>>
          /\ up' = [up EXCEPT ![d] = Append(up[d], m)]
          /\ Goes(d, "ready")
      BY ZenonT(20), <1>18, <2>2 DEF SendsData, Sends
    <3>2. m \in Message /\ m.part = "data"
      BY ZenonT(20) DEF Msg, Message, Parts, Cmds
    <3> HIDE DEF m
    <3>3. conn[d] \in {"queued", "open"} /\ prog'[d].pc = "ready"
      BY ZenonT(20), <1>h, <1>p, <2>2, <3>1
    <3>4. Agrees(conn[d], Append(up[d], m), down[d], prog'[d], Awaits(d), srv.cmd)
      <4>1. /\ up[d] \in Seq(Message) /\ prog[d] \in Progs /\ prog'[d] \in Progs
            /\ Awaits(d) \in Parts /\ srv.cmd \in Cmds
        BY ZenonT(20), <1>f, <1>g
      <4>2. Agrees(conn[d], up[d], down[d], prog[d], Awaits(d), srv.cmd)
        BY ZenonT(20), <1>a
      <4>3. prog[d].pc = "data"
        BY ZenonT(20), <3>1
      <4> QED BY <3>2, <3>3, <4>1, <4>2, <4>3, AgreesData
    <3>5. up'[d] = Append(up[d], m)
      BY <1>v, <3>1
    <3> QED BY ZenonT(20), <1>l, <3>1, <3>4, <3>5
  <2> QED BY ZenonT(20), <2>1, <2>2
<1> HIDE DEF Goal
<1> QED
  BY ZenonT(20), <1>1, <1>2, <1>3, <1>4, <1>5, <1>6, <1>7, <1>8, <1>9, <1>10, <1>12, <1>13,
     <1>14, <1>15, <1>16, <1>17, <1>18 DEF Next, DaemonStep, ClientStep, Quits, Crashes

LEMMA ProtocolInit == Init => Protocol
<1> SUFFICES ASSUME Init, NEW c \in Client
             PROVE  Agrees(conn[c], up[c], down[c], prog[c], Awaits(c), srv.cmd)
  BY DEF Protocol
<1>1. conn[c] = "none" /\ up[c] = <<>> /\ down[c] = <<>> /\ srv.at = "poll"
  BY DEF Init, Server
<1>2. Agrees(conn[c], <<>>, down[c], prog[c], "cmd", srv.cmd)
  BY ZenonT(20), <1>1, AgreesSilent DEF Parts
<1> QED BY <1>1, <1>2 DEF Awaits

-----------------------------------------------------------------------------
(* The third layer: what clients rely on *)

\* The first message on its way to the daemon is the part it reads next.
LEMMA FirstPart ==
    ASSUME NEW cn, NEW u \in Seq(Message), NEW dn, NEW p, NEW part \in Parts, NEW cmd,
           Agrees(cn, u, dn, p, part, cmd), u # <<>>
    PROVE  u[1].part = part
<1>1. Due(part, cmd)[1] = part
  BY DueForm DEF Parts
<1>2. Len(u) \in Nat \ {0}
  BY EmptySeq
<1>3. 1 \in 1..Len(u)
  BY <1>2
<1> QED BY <1>1, <1>3 DEF Agrees, Shape

LEMMA CarriesTail ==
    ASSUME NEW u \in Seq(Message), NEW k, u # <<>>
    PROVE  /\ Carries(Tail(u), k) => Carries(u, k)
           /\ Carries(u, k) /\ ~(u[1].part = "data" /\ u[1].key = k) => Carries(Tail(u), k)
<1> DEFINE v == Tail(u)
<1>1. Len(u) \in Nat \ {0}
  BY EmptySeq
<1>2. /\ Len(v) = Len(u) - 1
      /\ \A j \in 1..Len(v) : v[j] = u[j + 1] /\ j + 1 \in 1..Len(u)
      /\ \A j \in 1..Len(u) : j # 1 => j - 1 \in 1..Len(v) /\ v[j - 1] = u[j]
  BY <1>1
<1> HIDE DEF v
<1>3. Carries(v, k) => Carries(u, k)
  BY <1>2 DEF Carries
<1>4. Carries(u, k) /\ ~(u[1].part = "data" /\ u[1].key = k) => Carries(v, k)
  <2> SUFFICES ASSUME NEW j \in 1..Len(u), u[j].part = "data", u[j].key = k,
                      ~(u[1].part = "data" /\ u[1].key = k)
               PROVE  Carries(v, k)
    BY ZenonT(20) DEF Carries
  <2>1. j # 1
    BY ZenonT(20)
  <2>2. j - 1 \in 1..Len(v) /\ v[j - 1] = u[j]
    BY <1>2, <2>1
  <2> QED BY ZenonT(20), <2>2 DEF Carries
<1> QED BY <1>3, <1>4 DEF v

LEMMA CarriesAppend ==
    ASSUME NEW u \in Seq(Message), NEW m \in Message, NEW k
    PROVE  Carries(Append(u, m), k) <=> Carries(u, k) \/ (m.part = "data" /\ m.key = k)
<1> DEFINE v == Append(u, m)
<1>1. /\ Len(u) \in Nat /\ Len(v) = Len(u) + 1
      /\ \A j \in 1..Len(u) : v[j] = u[j] /\ j \in 1..Len(v)
      /\ \A j \in 1..Len(v) : j \in 1..Len(u) \/ j = Len(v)
      /\ Len(v) \in 1..Len(v) /\ v[Len(v)] = m
  OBVIOUS
<1> HIDE DEF v
<1>2. Carries(v, k) => Carries(u, k) \/ (m.part = "data" /\ m.key = k)
  BY ZenonT(20), <1>1 DEF Carries
<1>3. Carries(u, k) \/ (m.part = "data" /\ m.key = k) => Carries(v, k)
  BY <1>1 DEF Carries
<1> QED BY <1>2, <1>3 DEF v

LEMMA CarriesNothing ==
    ASSUME NEW k
    PROVE  ~Carries(<<>>, k)
BY DEF Carries

\* No step takes away what a client relies on.
LEMMA WritesStep == KeydInv /\ Tables' /\ Protocol' /\ [Next]_vars => Writes'
<1> SUFFICES ASSUME KeydInv, Tables', Protocol', [Next]_vars, NEW d \in Client, NEW k \in Key
             PROVE  /\ expect'[d][k] = "yes" =>
                          (k \in db' \/ Carries(up'[d], k)) /\ ~Deleting(d, k)'
                    /\ expect'[d][k] = "no" =>
                          (k \notin db' \/ Deleting(d, k)') /\ ~Carries(up'[d], k)
  BY DEF Writes
<1>k. Tables /\ Protocol /\ Tables' /\ Protocol'
  BY DEF KeydInv
<1>t. Types /\ Types'
  BY ZenonT(20), <1>k DEF Tables
<1>v. /\ up \in [Client -> Seq(Message)]
      /\ expect \in [Client -> [Key -> {"any", "yes", "no"}]]
      /\ srv \in Srv
  BY ZenonT(20), <1>t DEF Types
<1>f. up[d] \in Seq(Message) /\ up'[d] \in Seq(Message) /\ Awaits(d) \in Parts /\ Awaits(d)' \in Parts
  BY ZenonT(20), <1>t DEF Types, Awaits, Parts
<1>a. /\ Agrees(conn[d], up[d], down[d], prog[d], Awaits(d), srv.cmd)
      /\ Agrees(conn'[d], up'[d], down'[d], prog'[d], Awaits(d)', srv'.cmd)
  BY ZenonT(20), <1>k DEF Protocol
<1>b. /\ up[d] # <<>> => up[d][1].part = Awaits(d)
      /\ up'[d] # <<>> => up'[d][1].part = Awaits(d)'
  BY ZenonT(20), <1>a, <1>f, FirstPart
<1>c. /\ expect[d][k] = "yes" => (k \in db \/ Carries(up[d], k)) /\ ~Deleting(d, k)
      /\ expect[d][k] = "no" => (k \notin db \/ Deleting(d, k)) /\ ~Carries(up[d], k)
  BY ZenonT(20) DEF KeydInv, Writes
<1>w. /\ Awaits(d) # "args" => ~Deleting(d, k)
      /\ Awaits(d)' # "args" => ~Deleting(d, k)'
      /\ srv.cmd # "delete" => ~Deleting(d, k)
      /\ srv'.cmd # "delete" => ~Deleting(d, k)'
      /\ up[d] = <<>> => ~Deleting(d, k)
      /\ up'[d] = <<>> => ~Deleting(d, k)'
  BY ZenonT(20) DEF Deleting
<1> DEFINE Kept == /\ expect'[d][k] = expect[d][k]
                   /\ k \in db' <=> k \in db
                   /\ Carries(up'[d], k) <=> Carries(up[d], k)
                   /\ Deleting(d, k)' <=> Deleting(d, k)
           Goal == /\ expect'[d][k] = "yes" =>
                         (k \in db' \/ Carries(up'[d], k)) /\ ~Deleting(d, k)'
                   /\ expect'[d][k] = "no" =>
                         (k \notin db' \/ Deleting(d, k)') /\ ~Carries(up'[d], k)
<1> SUFFICES Goal
  BY ZenonT(20)
<1>e. Kept => Goal
  BY ZenonT(20), <1>c
<1>y. up[d] # <<>> /\ up'[d] = Tail(up[d]) /\ Awaits(d) # "data" =>
          (Carries(up'[d], k) <=> Carries(up[d], k))
  BY ZenonT(20), <1>b, <1>f, CarriesTail
<1>z. /\ srv.at \notin {"args", "data"} => Awaits(d) = "cmd"
      /\ srv'.at \notin {"args", "data"} => Awaits(d)' = "cmd"
      /\ clients[srv.i] # d => Awaits(d) = "cmd"
      /\ clients'[srv'.i] # d => Awaits(d)' = "cmd"
  BY ZenonT(20) DEF Awaits
<1>n. srv' = NextEntry => Awaits(d)' = "cmd"
  BY ZenonT(20), <1>v, <1>z, MovesNext DEF Moved
<1>1. CASE Poll \/ ScanSkips \/ Starts \/ Accepts
  <2>1. UNCHANGED <<up, db, expect>>
    BY <1>1 DEF Poll, ScanSkips, Starts, Accepts, sockets
  <2>2. srv.at \notin {"args", "data"}
    BY ZenonT(20), <1>1 DEF Poll, ScanSkips, Starts, Accepts
  <2>3. srv'.at \notin {"args", "data"}
    BY ZenonT(20), <1>1, <1>v, MovesStart, MovesSkip DEF Poll, Starts, Accepts, Moved, Places
  <2>4. ~Deleting(d, k) /\ ~Deleting(d, k)'
    BY ZenonT(20), <1>w, <1>z, <2>2, <2>3
  <2> QED BY <1>e, <2>1, <2>4
<1>2. CASE Signal \/ UNCHANGED vars
  <2>1. UNCHANGED <<up, db, expect, srv, clients>>
    BY ZenonT(20), <1>2 DEF Signal, vars, sockets
  <2>2. Deleting(d, k)' <=> Deleting(d, k)
    BY ZenonT(20), <2>1 DEF Deleting, Awaits
  <2> QED BY ZenonT(20), <1>e, <2>1, <2>2
<1>3. CASE Ended
  <2>1. expect'[d][k] = "any"
    BY ZenonT(20), <1>3 DEF Ended
  <2> QED BY ZenonT(20), <2>1
<1>4. CASE ScanServes
  <2>0. srv.at = "scan" /\ UNCHANGED <<db, expect>>
        /\ up' = IF up[Serving] = <<>> THEN up ELSE [up EXCEPT ![Serving] = Tail(up[Serving])]
    BY ZenonT(20), <1>4 DEF ScanServes
  <2>1. srv.i \in 1..MaxClients /\ Serving \in Client
    BY ZenonT(20), <1>4, <1>k, ServingClient DEF ScanServes
  <2>2. Awaits(d) = "cmd"
    BY ZenonT(20), <1>z, <2>0
  <2>3. CASE d = Serving
    <3>1. up'[d] = <<>>
      <4>1. up[d] # <<>> => Tail(up[d]) = <<>>
        BY ZenonT(20), <1>a, <1>f, <2>2, CommandOnly
      <4> QED BY <1>v, <2>0, <2>3, <4>1
    <3>2. Carries(up'[d], k) <=> Carries(up[d], k)
      <4>1. CASE up[d] = <<>>
        BY ZenonT(20), <3>1, <4>1
      <4>2. CASE up[d] # <<>>
        <5>1. up'[d] = Tail(up[d])
          BY ZenonT(20), <1>v, <2>0, <2>3, <4>2
        <5> QED BY ZenonT(20), <1>y, <2>2, <4>2, <5>1
      <4> QED BY ZenonT(20), <4>1, <4>2
    <3> QED BY ZenonT(20), <1>e, <1>w, <2>0, <2>2, <3>1, <3>2
  <2>4. CASE d # Serving
    <3>1. up'[d] = up[d]
      BY ZenonT(20), <1>v, <2>0, <2>4
    <3>2. Awaits(d)' = "cmd"
      <4>2. CASE srv'.at \notin {"args", "data"}
        BY ZenonT(20), <1>z, <4>2
      <4>3. CASE srv'.at \in {"args", "data"}
        <5>1. up[Serving] # <<>> => Head(up[Serving]).cmd \in Cmds
          BY ZenonT(20), <1>t, <2>1, FirstMessage
        <5>2. up[Serving] # <<>> /\ ~Gone(Serving) /\ HasArgs(Head(up[Serving]).cmd)
          BY ZenonT(20), <1>4, <1>v, <4>3, MovesServe DEF Moved
        <5>3. srv'.i = srv.i /\ UNCHANGED clients
          BY ZenonT(20), <1>4, <1>v, <5>1, <5>2, MovesServe DEF Moved, ScanServes, HasArgs
        <5> QED BY ZenonT(20), <1>z, <2>4, <5>3 DEF Serving
      <4> QED BY ZenonT(20), <4>2, <4>3
    <3> QED BY ZenonT(20), <1>e, <1>w, <2>0, <2>2, <3>1, <3>2
  <2> QED BY ZenonT(20), <2>3, <2>4
<1>i. ASSUME Inside
      PROVE  /\ srv.i \in 1..MaxClients /\ Serving \in Client
             /\ d # Serving => Awaits(d) = "cmd"
             /\ d = Serving /\ srv.at \in {"args", "data"} => Awaits(d) = srv.at
  BY ZenonT(20), <1>i, <1>k, ServingClient DEF Awaits, Serving
<1>5. CASE AnswersGet
  <2>0. /\ Inside /\ srv.at = "args" /\ srv.cmd = "get" /\ up[Serving] # <<>>
        /\ UNCHANGED <<db, expect>>
        /\ up' = [up EXCEPT ![Serving] = Tail(up[Serving])]
    BY ZenonT(20), <1>5 DEF AnswersGet, Inside
  <2>1. ~Deleting(d, k) /\ ~Deleting(d, k)'
    BY ZenonT(20), <1>5, <1>n, <1>w, <2>0 DEF AnswersGet
  <2>2. CASE d # Serving
    <3>1. up'[d] = up[d]
      BY ZenonT(20), <1>v, <2>0, <2>2
    <3> QED BY ZenonT(20), <1>e, <2>0, <2>1, <3>1
  <2>3. CASE d = Serving
    <3>1. up[d] # <<>> /\ up'[d] = Tail(up[d]) /\ Awaits(d) = "args"
      BY ZenonT(20), <1>i, <1>v, <2>0, <2>3
    <3> QED BY ZenonT(20), <1>e, <1>y, <2>0, <2>1, <3>1
  <2> QED BY ZenonT(20), <2>2, <2>3
<1>6. CASE ReadsSize
  <2>0. /\ Inside /\ srv.at = "args" /\ srv.cmd = "store" /\ up[Serving] # <<>>
        /\ UNCHANGED <<db, expect>>
        /\ up' = [up EXCEPT ![Serving] = Tail(up[Serving])]
    BY ZenonT(20), <1>6 DEF ReadsSize, Inside
  <2>1. ~Deleting(d, k) /\ ~Deleting(d, k)'
    <3>1. srv'.cmd = srv.cmd
      BY ZenonT(20), <1>6, <1>v, MovesAt DEF ReadsSize, Moved, Places
    <3> QED BY ZenonT(20), <1>w, <2>0, <3>1
  <2>2. CASE d # Serving
    <3>1. up'[d] = up[d]
      BY ZenonT(20), <1>v, <2>0, <2>2
    <3> QED BY ZenonT(20), <1>e, <2>0, <2>1, <3>1
  <2>3. CASE d = Serving
    <3>1. up[d] # <<>> /\ up'[d] = Tail(up[d]) /\ Awaits(d) = "args"
      BY ZenonT(20), <1>i, <1>v, <2>0, <2>3
    <3> QED BY ZenonT(20), <1>e, <1>y, <2>0, <2>1, <3>1
  <2> QED BY <2>2, <2>3
<1>o. ASSUME NEW x \in Key, expect' = Disturbed(Serving, x), d # Serving
      PROVE  expect'[d][k] = IF k = x THEN "any" ELSE expect[d][k]
  <2>1. expect'[d] = [expect[d] EXCEPT ![x] = "any"]
    BY ZenonT(20), <1>o DEF Disturbed
  <2> QED BY ZenonT(20), <1>v, <2>1
<1>j. ASSUME NEW x \in Key, expect' = Disturbed(Serving, x), d = Serving
      PROVE  expect'[d][k] = expect[d][k]
  BY ZenonT(20), <1>j DEF Disturbed
<1>7. CASE Deletes
  <2> DEFINE x == Head(up[Serving]).key
  <2>0. /\ Inside /\ srv.at = "args" /\ srv.cmd = "delete" /\ up[Serving] # <<>>
        /\ db' = db \ {x} /\ expect' = Disturbed(Serving, x)
        /\ up' = [up EXCEPT ![Serving] = Tail(up[Serving])]
    BY ZenonT(20), <1>7 DEF Deletes, Inside
  <2>1. ~Deleting(d, k)'
    BY ZenonT(20), <1>7, <1>n, <1>w DEF Deletes
  <2>2. x \in Key /\ x = up[Serving][1].key
    BY ZenonT(20), <1>i, <1>t, <2>0, FirstMessage
  <2> HIDE DEF x
  <2>3. CASE d # Serving
    <3>1. up'[d] = up[d] /\ ~Deleting(d, k)
      BY ZenonT(20), <1>i, <1>v, <1>w, <2>0, <2>3
    <3>2. expect'[d][k] = IF k = x THEN "any" ELSE expect[d][k]
      BY ZenonT(20), <1>o, <2>0, <2>2, <2>3
    <3>3. k # x => (k \in db' <=> k \in db)
      BY ZenonT(20), <2>0
    <3> QED BY ZenonT(20), <1>c, <2>1, <3>1, <3>2, <3>3
  <2>4. CASE d = Serving
    <3>1. up[d] # <<>> /\ up'[d] = Tail(up[d]) /\ Awaits(d) = "args"
      BY ZenonT(20), <1>i, <1>v, <2>0, <2>4
    <3>2. Carries(up'[d], k) <=> Carries(up[d], k)
      BY ZenonT(20), <1>y, <3>1
    <3>3. expect'[d][k] = expect[d][k]
      BY ZenonT(20), <1>j, <2>0, <2>2, <2>4
    <3>4. Deleting(d, k) <=> k = x
      BY ZenonT(20), <2>0, <2>2, <2>4, <3>1 DEF Deleting
    <3>5. /\ k = x => k \notin db'
          /\ k # x => (k \in db' <=> k \in db)
      BY ZenonT(20), <2>0
    <3> QED BY ZenonT(20), <1>c, <2>1, <3>2, <3>3, <3>4, <3>5
  <2> QED BY <2>3, <2>4
<1>8. CASE Stores
  <2> DEFINE x == Head(up[Serving]).key
  <2>0. /\ Inside /\ srv.at = "data" /\ up[Serving] # <<>>
        /\ db' = db \cup {x} /\ expect' = Disturbed(Serving, x)
        /\ up' = [up EXCEPT ![Serving] = Tail(up[Serving])]
    BY ZenonT(20), <1>8 DEF Stores, Inside
  <2>1. ~Deleting(d, k)'
    BY ZenonT(20), <1>8, <1>n, <1>w DEF Stores
  <2>2. x \in Key /\ x = up[Serving][1].key
    BY ZenonT(20), <1>i, <1>t, <2>0, FirstMessage
  <2> HIDE DEF x
  <2>3. CASE d # Serving
    <3>1. up'[d] = up[d] /\ ~Deleting(d, k)
      BY ZenonT(20), <1>i, <1>v, <1>w, <2>0, <2>3
    <3>2. expect'[d][k] = IF k = x THEN "any" ELSE expect[d][k]
      BY ZenonT(20), <1>o, <2>0, <2>2, <2>3
    <3>3. k # x => (k \in db' <=> k \in db)
      BY ZenonT(20), <2>0
    <3> QED BY <1>c, <2>1, <3>1, <3>2, <3>3
  <2>4. CASE d = Serving
    <3>1. up[d] # <<>> /\ up'[d] = Tail(up[d]) /\ Awaits(d) = "data"
      BY ZenonT(20), <1>i, <1>v, <2>0, <2>4
    <3>2. up[d][1].part = "data" /\ up[d][1].key = x /\ 1 \in 1..Len(up[d])
      <4>1. Len(up[d]) \in Nat \ {0}
        BY <1>f, <3>1, EmptySeq
      <4>2. 1 \in 1..Len(up[d])
        BY <4>1
      <4> QED BY ZenonT(20), <1>b, <2>2, <2>4, <3>1, <4>2
    <3>3. /\ Carries(up'[d], k) => Carries(up[d], k)
          /\ Carries(up[d], k) /\ k # x => Carries(up'[d], k)
          /\ k = x => Carries(up[d], k)
      <4>1. k = x => Carries(up[d], k)
        BY ZenonT(20), <3>2 DEF Carries
      <4> QED BY ZenonT(20), <1>f, <3>1, <3>2, <4>1, CarriesTail
    <3>4. expect'[d][k] = expect[d][k] /\ ~Deleting(d, k)
      BY ZenonT(20), <1>j, <1>w, <2>0, <2>2, <2>4, <3>1
    <3>5. /\ k = x => k \in db'
          /\ k # x => (k \in db' <=> k \in db)
      BY ZenonT(20), <2>0
    <3> QED BY ZenonT(20), <1>c, <2>1, <3>3, <3>4, <3>5
  <2> QED BY <2>3, <2>4
<1>9. CASE ArgsMissing \/ DataMissing
  <2>0. /\ Inside /\ up[Serving] = <<>> /\ UNCHANGED <<up, db, expect>>
    BY ZenonT(20), <1>9 DEF ArgsMissing, DataMissing, Inside, sockets
  <2>1. ~Deleting(d, k)
    BY <1>i, <1>w, <2>0
  <2>2. ~Deleting(d, k)'
    <3>1. srv' = NextEntry \/ srv' = [srv EXCEPT !.at = "spin"]
      BY <1>9 DEF ArgsMissing, DataMissing
    <3>2. srv' = [srv EXCEPT !.at = "spin"] => srv'.at = "spin"
      BY ZenonT(20), <1>v, MovesAt DEF Moved, Places
    <3> QED BY ZenonT(20), <1>n, <1>w, <1>z, <3>1, <3>2
  <2> QED BY ZenonT(20), <1>e, <2>0, <2>1, <2>2
<1>l. ASSUME UNCHANGED loop
      PROVE  /\ Awaits(d)' = Awaits(d) /\ srv'.cmd = srv.cmd
             /\ up'[d] = up[d] => (Deleting(d, k)' <=> Deleting(d, k))
  BY ZenonT(20), <1>l DEF Awaits, Deleting, loop
<1>10. ASSUME NEW c \in Client, c # d,
              Connects(c) \/ Refused(c) \/ ClientStep(c) \/ Dies(c)
              \/ \E cmd \in Cmds, x \in Key : Commands(c, cmd, x)
       PROVE  Goal
  <2>1. UNCHANGED <<loop, db>>
    BY ZenonT(20), <1>10 DEF Connects, Refused, ClientStep, ReadsReply, ReadsAnswer, SendsArgs,
                 SendsData, Dies, Commands
  <2>2. up'[d] = up[d] /\ expect'[d] = expect[d]
    BY <1>10, <1>v DEF Connects, Refused, ClientStep, ReadsReply, ReadsAnswer, SendsArgs,
                 SendsData, Dies, Commands, Sends, sockets
  <2> QED BY ZenonT(20), <1>e, <1>l, <2>1, <2>2
<1>11. ASSUME UNCHANGED <<loop, up, db, expect>>
       PROVE  Goal
  BY ZenonT(20), <1>e, <1>l, <1>11
<1>12. ASSUME Refused(d) \/ Dies(d) \/ ReadsReply(d) \/ ReadsAnswer(d)
       PROVE  Goal
  BY ZenonT(20), <1>11, <1>12 DEF Refused, Dies, ReadsReply, ReadsAnswer, sockets
<1>13. ASSUME NEW m \in Message, m.part = "cmd", UNCHANGED <<loop, db, expect>>,
              up'[d] = Append(up[d], m)
       PROVE  Goal
  <2>1. Carries(up'[d], k) <=> Carries(up[d], k)
    <3>1. Carries(Append(up[d], m), k) <=> Carries(up[d], k) \/ (m.part = "data" /\ m.key = k)
      BY ZenonT(20), <1>f, CarriesAppend
    <3>2. m.part # "data"
      BY ZenonT(20), <1>13
    <3> QED BY ZenonT(20), <1>13, <3>1, <3>2
  <2>2. Deleting(d, k)' <=> Deleting(d, k)
    <3>1. CASE up[d] = <<>>
      <4>1. up'[d] # <<>> /\ up'[d][1].part = "cmd"
        BY ZenonT(20), <1>13, <3>1, AppendEmpty
      <4> QED BY ZenonT(20), <1>b, <1>w, <3>1, <4>1
    <3>2. CASE up[d] # <<>>
      <4>1. Len(up[d]) \in Nat \ {0}
        BY <1>f, <3>2, EmptySeq
      <4>2. up'[d] # <<>> /\ up'[d][1] = up[d][1]
        BY <1>13, <1>f, <4>1
      <4> QED BY ZenonT(20), <1>13, <1>l, <3>2, <4>2 DEF Deleting
    <3> QED BY ZenonT(20), <3>1, <3>2
  <2> QED BY ZenonT(20), <1>13, <1>e, <2>1, <2>2
<1>14. ASSUME Connects(d)
       PROVE  Goal
  <2>1. PICK x \in Key : Sends(d, Msg("info", x, "cmd"))
    BY ZenonT(20), <1>14 DEF Connects
  <2> DEFINE m == Msg("info", x, "cmd")
  <2>2. m \in Message /\ m.part = "cmd"
    BY DEF Msg, Message, Parts, Cmds
  <2>3. up'[d] = Append(up[d], m)
    BY ZenonT(20), <1>v, <2>1 DEF Sends
  <2> HIDE DEF m
  <2> QED BY ZenonT(20), <1>13, <1>14, <2>2, <2>3 DEF Connects
<1>15. ASSUME NEW cmd \in Cmds, NEW x \in Key, Commands(d, cmd, x)
       PROVE  Goal
  <2>0. UNCHANGED <<loop, db, expect>>
    BY <1>15 DEF Commands
  <2>1. CASE conn[d] = "shut"
    BY ZenonT(20), <1>11, <1>15, <2>0, <2>1 DEF Commands
  <2>2. CASE conn[d] # "shut"
    <3> DEFINE m == Msg(cmd, x, "cmd")
    <3>1. m \in Message /\ m.part = "cmd"
      BY ZenonT(20) DEF Msg, Message, Parts
    <3>2. up'[d] = Append(up[d], m)
      BY <1>15, <1>v, <2>2 DEF Commands, Sends
    <3> HIDE DEF m
    <3> QED BY ZenonT(20), <1>13, <2>0, <3>1, <3>2
  <2> QED BY ZenonT(20), <2>1, <2>2
<1>h. ASSUME conn[d] # "shut", prog[d].pc \in {"args", "data"}
      PROVE  conn[d] \in {"queued", "open"}
  BY ZenonT(20), <1>h, <1>k, <1>t DEF Types, Tables, Connected
<1>g. prog[d] \in Progs /\ prog'[d] \in Progs /\ srv.cmd \in Cmds
  BY ZenonT(20), <1>t DEF Types, Srv
<1>p. ASSUME NEW pc, Goes(d, pc)
      PROVE  /\ prog'[d].pc = pc
             /\ pc \notin {"done", "ready"} => prog'[d].cmd = prog[d].cmd
  BY ZenonT(20), <1>p, <1>t DEF Goes, Types
<1>16. ASSUME NEW x \in Key, SendsArgs(d, x)
       PROVE  Goal
  <2>1. CASE conn[d] = "shut"
    BY ZenonT(20), <1>11, <1>16, <2>1 DEF SendsArgs
  <2>2. CASE conn[d] # "shut"
    <3> DEFINE m == Msg(prog[d].cmd, x, "args")
    <3>0. HasArgs(prog[d].cmd)
      BY ZenonT(20), <1>16, <1>k DEF SendsArgs, Tables, Connected
    <3>1. /\ prog[d].pc = "args" /\ UNCHANGED <<loop, db>>
          /\ up' = [up EXCEPT ![d] = Append(up[d], m)]
          /\ \/ prog[d].cmd = "get" /\ Goes(d, "answer")
             \/ prog[d].cmd = "delete" /\ Goes(d, "ready")
             \/ prog[d].cmd = "store" /\ Goes(d, "data")
          /\ expect' = IF prog[d].cmd = "delete" THEN [expect EXCEPT ![d][x] = "no"]
                       ELSE expect
      BY ZenonT(20), <1>16, <2>2, <3>0 DEF SendsArgs, Sends, HasArgs
    <3>2. m \in Message /\ m.part = "args" /\ m.cmd = prog[d].cmd /\ m.key = x
      BY ZenonT(20), <1>g DEF Msg, Message, Parts, Progs
    <3> HIDE DEF m
    <3>3. \/ prog[d].cmd = "get" /\ prog'[d].pc = "answer" /\ prog'[d].cmd = prog[d].cmd
          \/ prog[d].cmd = "delete" /\ prog'[d].pc = "ready"
          \/ prog[d].cmd = "store" /\ prog'[d].pc = "data"
      BY <1>p, <3>1
    <3>4. conn[d] \in {"queued", "open"}
      BY ZenonT(20), <1>h, <2>2, <3>1
    <3>5. up[d] = <<>> /\ Awaits(d) = "args" /\ srv.cmd = prog[d].cmd
      BY <1>a, <1>f, <1>g, <3>0, <3>1, <3>4, ArgsAwaited
    <3>6. up'[d] = Append(<<>>, m)
      BY ZenonT(20), <1>v, <3>1, <3>5
    <3>7. ~Carries(up[d], k) /\ ~Carries(up'[d], k)
      <4>1. ~Carries(up[d], k)
        BY ZenonT(20), <3>5, CarriesNothing
      <4>2. Len(up'[d]) = 1 /\ up'[d][1] = m
        BY <3>6
      <4> QED BY <3>2, <4>1, <4>2 DEF Carries
    <3>8. up'[d] # <<>> /\ up'[d][1] = m
      BY <3>6
    <3>9. Deleting(d, k)' <=> prog[d].cmd = "delete" /\ k = x
      BY ZenonT(20), <1>l, <3>1, <3>2, <3>5, <3>8 DEF Deleting
    <3>10. ~Deleting(d, k)
      BY ZenonT(20), <1>w, <3>5
    <3>11. expect'[d][k] = IF prog[d].cmd = "delete" /\ k = x THEN "no" ELSE expect[d][k]
      BY ZenonT(20), <1>v, <3>1
    <3> QED BY <1>c, <3>1, <3>7, <3>9, <3>10, <3>11
  <2> QED BY ZenonT(20), <2>1, <2>2
<1>17. ASSUME NEW x \in Key, SendsData(d, x)
       PROVE  Goal
  <2>1. CASE conn[d] = "shut"
    BY ZenonT(20), <1>11, <1>17, <2>1 DEF SendsData
  <2>2. CASE conn[d] # "shut"
    <3> DEFINE m == Msg("store", x, "data")
    <3>1. /\ prog[d].pc = "data" /\ UNCHANGED <<loop, db>>
          /\ up' = [up EXCEPT ![d] = Append(up[d], m)]
          /\ Goes(d, "ready")
          /\ expect' = [expect EXCEPT ![d][x] = "yes"]
      BY ZenonT(20), <1>17, <2>2 DEF SendsData, Sends
    <3>2. m \in Message /\ m.part = "data" /\ m.key = x
      BY ZenonT(20) DEF Msg, Message, Parts, Cmds
    <3> HIDE DEF m
    <3>3. conn[d] \in {"queued", "open"} /\ prog'[d].pc = "ready"
      BY ZenonT(20), <1>h, <1>p, <2>2, <3>1
    <3>4. Awaits(d) = "data" \/ srv.cmd \notin {"get", "delete"}
      <4>1. /\ Agrees(conn[d], Append(up[d], m), down[d], prog'[d], Awaits(d), srv.cmd)
            /\ \/ Awaits(d) = "data"
               \/ Awaits(d) = "args" /\ srv.cmd \notin {"get", "delete"}
        <5>1. /\ up[d] \in Seq(Message) /\ prog[d] \in Progs /\ prog'[d] \in Progs
              /\ Awaits(d) \in Parts /\ srv.cmd \in Cmds
          BY ZenonT(20), <1>f, <1>g
        <5>2. Agrees(conn[d], up[d], down[d], prog[d], Awaits(d), srv.cmd)
          BY ZenonT(20), <1>a
        <5>3. prog[d].pc = "data"
          BY ZenonT(20), <3>1
        <5> QED BY <3>2, <3>3, <5>1, <5>2, <5>3, AgreesData
      <4> QED BY ZenonT(20), <4>1
    <3>5. ~Deleting(d, k) /\ ~Deleting(d, k)'
      BY ZenonT(20), <1>l, <1>w, <3>1, <3>4
    <3>6. up'[d] = Append(up[d], m)
      BY ZenonT(20), <1>v, <3>1
    <3>7. Carries(up'[d], k) <=> Carries(up[d], k) \/ k = x
      BY <1>f, <3>2, <3>6, CarriesAppend
    <3>8. expect'[d][k] = IF k = x THEN "yes" ELSE expect[d][k]
      BY ZenonT(20), <1>v, <3>1
    <3> QED BY <1>c, <3>1, <3>5, <3>7, <3>8
  <2> QED BY ZenonT(20), <2>1, <2>2
<1> HIDE DEF Goal
<1> QED
  BY ZenonT(20), <1>1, <1>2, <1>3, <1>4, <1>5, <1>6, <1>7, <1>8, <1>9, <1>10, <1>12, <1>14,
     <1>15, <1>16, <1>17 DEF Next, DaemonStep, ClientStep, Quits, Crashes

LEMMA WritesInit == Init => Writes
<1> SUFFICES ASSUME Init, NEW c \in Client, NEW k \in Key
             PROVE  expect[c][k] = "any"
  BY DEF Writes
<1> QED BY ZenonT(20) DEF Init

=============================================================================
