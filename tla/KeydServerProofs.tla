-------------------------- MODULE KeydServerProofs --------------------------
(***************************************************************************)
(* The first layer of the invariant of KeydServer, the tables, and the     *)
(* theorems that the three layers together give.                           *)
(***************************************************************************)
EXTENDS KeydProtocolProofs, FiniteSetTheorems

-----------------------------------------------------------------------------
(* The entries in use, and the list that is polled *)

\* clients[] is finite, and so are the entries in use (main, keyd.c).
LEMMA TakenFinite ==
    ASSUME NEW cs, NEW i \in Nat, NEW j \in Nat
    PROVE  /\ IsFiniteSet(Taken(cs, i, j))
           /\ Cardinality(Taken(cs, i, j)) \in Nat
<1>1. IsFiniteSet(i..j)
  BY FS_Interval
<1>2. Taken(cs, i, j) \in SUBSET (i..j)
  BY DEF Taken
<1> QED BY ZenonT(20), <1>1, <1>2, FS_Subset, FS_CardinalityType

\* When the scan goes on from entry i, one connection less is ahead of it if
\* the entry was in use, and as many if it was not (main, keyd.c).
LEMMA TakenStep ==
    ASSUME NEW cs, NEW i \in Nat, NEW j \in Nat, i <= j
    PROVE  Cardinality(Taken(cs, i, j)) =
               Cardinality(Taken(cs, i + 1, j)) + (IF cs[i] # NoOne THEN 1 ELSE 0)
<1> DEFINE T == Taken(cs, i + 1, j)
<1>1. IsFiniteSet(T) /\ Cardinality(T) \in Nat
  BY TakenFinite
<1>2. i \notin T
  BY DEF Taken
<1>3. CASE cs[i] # NoOne
  <2>1. Taken(cs, i, j) = T \cup {i}
    BY <1>3 DEF Taken
  <2> HIDE DEF T
  <2>2. Cardinality(T \cup {i}) = Cardinality(T) + 1
    BY ZenonT(20), <1>1, <1>2, FS_AddElement
  <2> QED BY ZenonT(20), <1>3, <2>1, <2>2 DEF T
<1>4. CASE cs[i] = NoOne
  <2>1. Taken(cs, i, j) = T
    BY <1>4 DEF Taken
  <2> QED BY <1>1, <1>4, <2>1
<1> QED BY <1>3, <1>4

\* Entries that are the same count the same.
LEMMA TakenSame ==
    ASSUME NEW cs, NEW ds, NEW i \in Nat, NEW j \in Nat,
           \A e \in i..j : cs[e] = ds[e]
    PROVE  Taken(cs, i, j) = Taken(ds, i, j)
BY DEF Taken

\* A connection is in rfds[] after the listening socket, at its number among
\* the connections in clients[] (main, keyd.c).
LEMMA PollListAt ==
    ASSUME NEW cs \in [1..MaxClients -> Client \cup {NoOne}]
    PROVE  /\ PollList(cs) \in Seq(Client \cup {Listener})
           /\ Len(PollList(cs)) >= 1 /\ PollList(cs)[1] = Listener
           /\ \A j \in 1..MaxClients : cs[j] # NoOne =>
                 LET n == 1 + Cardinality(Taken(cs, 1, j)) IN
                 n \in 1..Len(PollList(cs)) /\ PollList(cs)[n] = cs[j]
<1> DEFINE All == Taken(cs, 1, MaxClients)
           N == Cardinality(All)
           Rank(i) == Cardinality(Taken(cs, 1, i))
           At(n) == CHOOSE i \in All : Rank(i) = n
<1>0. MaxClients \in Nat
  BY SizesAssumption
<1>1. IsFiniteSet(All) /\ N \in Nat
  BY ZenonT(20), <1>0, TakenFinite
<1>2. ASSUME NEW i \in All
      PROVE  Rank(i) \in 1..N
  <2>1. Taken(cs, 1, i) \in SUBSET All
    BY <1>0 DEF Taken
  <2>2. i \in Taken(cs, 1, i)
    BY <1>0 DEF Taken
  <2>3. i \in Nat
    BY <1>0 DEF Taken
  <2>4. IsFiniteSet(Taken(cs, 1, i)) /\ Rank(i) \in Nat
    BY ZenonT(20), <2>3, TakenFinite
  <2>5. Rank(i) # 0
    BY ZenonT(20), <2>2, <2>4, FS_EmptySet
  <2>6. Rank(i) <= N
    BY ZenonT(20), <1>1, <2>1, FS_Subset
  <2> QED BY <1>1, <2>4, <2>5, <2>6
<1>3. ASSUME NEW i \in All, NEW j \in All, i < j
      PROVE  Rank(i) # Rank(j)
  <2>1. i \in Nat /\ j \in Nat
    BY <1>0 DEF Taken
  <2>2. IsFiniteSet(Taken(cs, 1, j))
    BY ZenonT(20), <2>1, TakenFinite
  <2>3. Taken(cs, 1, i) \in SUBSET Taken(cs, 1, j)
    BY <1>3, <2>1 DEF Taken
  <2>4. j \in Taken(cs, 1, j) /\ j \notin Taken(cs, 1, i)
    BY <1>3, <2>1 DEF Taken
  <2> QED BY ZenonT(20), <2>2, <2>3, <2>4, FS_Subset
<1>4. ASSUME NEW i \in All
      PROVE  At(Rank(i)) = i
  <2>1. At(Rank(i)) \in All /\ Rank(At(Rank(i))) = Rank(i)
    OBVIOUS
  <2> HIDE DEF At, Rank
  <2>2. i \in Nat /\ At(Rank(i)) \in Nat
    BY <1>0, <2>1 DEF Taken
  <2>3. i < At(Rank(i)) \/ i = At(Rank(i)) \/ At(Rank(i)) < i
    BY <2>2
  <2> QED BY ZenonT(20), <1>3, <2>1, <2>3
<1>5. ASSUME NEW n \in 1..N
      PROVE  cs[At(n)] \in Client
  <2> DEFINE f == [i \in All |-> Rank(i)]
  <2>1. f \in Injection(All, 1..N)
    <3> HIDE DEF All, N, Rank
    <3>1. f \in [All -> 1..N]
      BY <1>2
    <3>2. ASSUME NEW i \in All, NEW j \in All, f[i] = f[j]
          PROVE  i = j
      <4>1. Rank(i) = Rank(j)
        BY <3>2
      <4> HIDE DEF At
      <4>2. At(Rank(i)) = i /\ At(Rank(j)) = j
        BY <1>4
      <4> QED BY ZenonT(20), <4>1, <4>2
    <3> QED BY ZenonT(20), <3>1, <3>2 DEF Injection, IsInjective
  <2>2. IsFiniteSet(1..N) /\ Cardinality(1..N) = N
    BY <1>1, FS_Interval
  <2>3. f \in Surjection(All, 1..N)
    BY ZenonT(20), <2>1, <2>2, FS_Injection
  <2>4. \E i \in All : Rank(i) = n
    BY ZenonT(20), <2>3 DEF Surjection
  <2>5. At(n) \in All
    BY <2>4
  <2> HIDE DEF At
  <2> QED BY <2>5 DEF Taken
<1>6. PollList(cs) = <<Listener>> \o [n \in 1..N |-> cs[At(n)]]
  BY DEF PollList, Connections
<1> DEFINE S == [n \in 1..N |-> cs[At(n)]]
<1>7. S \in Seq(Client) /\ Len(S) = N /\ \A n \in 1..N : S[n] = cs[At(n)]
  <2> HIDE DEF At, N, All
  <2> QED BY <1>1, <1>5
<1> HIDE DEF S
<1>8. /\ PollList(cs) \in Seq(Client \cup {Listener})
      /\ Len(PollList(cs)) = 1 + N
      /\ PollList(cs)[1] = Listener
      /\ \A n \in 1..N : PollList(cs)[1 + n] = S[n]
  <2>1. PollList(cs) = <<Listener>> \o S
    BY <1>6 DEF S
  <2> HIDE DEF N
  <2>2. <<Listener>> \in Seq(Client \cup {Listener}) /\ S \in Seq(Client \cup {Listener})
    BY <1>7
  <2> QED BY <1>1, <1>7, <2>1, <2>2
<1>9. ASSUME NEW j \in 1..MaxClients, cs[j] # NoOne
      PROVE  1 + Rank(j) \in 1..(1 + N) /\ PollList(cs)[1 + Rank(j)] = cs[j]
  <2>1. j \in All
    BY <1>9 DEF Taken
  <2>2. Rank(j) \in 1..N /\ At(Rank(j)) = j
    BY ZenonT(20), <1>2, <1>4, <2>1
  <2> HIDE DEF Rank, At, N
  <2>3. 1 + Rank(j) \in 1..(1 + N)
    BY <1>1, <2>2
  <2>4. PollList(cs)[1 + Rank(j)] = S[Rank(j)]
    BY ZenonT(20), <1>8, <2>2
  <2>5. S[Rank(j)] = cs[At(Rank(j))]
    BY ZenonT(20), <1>7, <2>2
  <2> QED BY ZenonT(20), <2>2, <2>3, <2>4, <2>5
<1>10. Len(PollList(cs)) >= 1 /\ PollList(cs)[1] = Listener
  <2> HIDE DEF N
  <2> QED BY <1>1, <1>8
<1> QED BY ZenonT(20), <1>8, <1>9, <1>10

-----------------------------------------------------------------------------
(* The first layer: types and tables *)

\* Where a program goes.
LEMMA ProgForms ==
    ASSUME NEW c \in Client, NEW pc \in Pcs, prog \in [Client -> Progs], Goes(c, pc)
    PROVE  prog' \in [Client -> Progs]
<1> DEFINE p == [pc |-> pc, cmd |-> IF pc \in {"done", "ready"} THEN "info" ELSE prog[c].cmd]
<1>1. p \in Progs
  BY DEF Progs, Cmds
<1>2. prog' = [prog EXCEPT ![c] = p]
  BY ZenonT(20) DEF Goes
<1> HIDE DEF p
<1> QED BY ZenonT(20), <1>1, <1>2

LEMMA TypesStep == Tables /\ [Next]_vars => Types'
<1> SUFFICES ASSUME Tables, [Next]_vars PROVE Types'
  OBVIOUS
<1>t. /\ Types
      /\ Inside => srv.i \in 1..MaxClients /\ Serving \in Client
  BY ZenonT(20), ServingClient DEF Tables
<1>1. CASE Poll
  <2>1. srv' \in Srv
    BY <1>1 DEF Poll, Server, Srv, Places, Cmds
  <2> QED BY ZenonT(20), <1>1, <1>t, <2>1 DEF Poll, Types, sockets
<1>2. CASE ScanSkips
  <2>1. srv' \in Srv
    BY ZenonT(20), <1>2, <1>t, MovesSkip DEF Moved, Types
  <2> QED BY ZenonT(20), <1>2, <1>t, <2>1 DEF ScanSkips, Types, sockets
<1>n. srv' = NextEntry => srv' \in Srv
  BY ZenonT(20), <1>t, MovesNext DEF Moved, Types
<1>c. ASSUME NEW c \in Client, Closed(c)
      PROVE  /\ clients' \in [1..MaxClients -> Client \cup {NoOne}]
             /\ conn' \in [Client -> {"none", "queued", "open", "shut"}]
  BY ZenonT(20), <1>c, <1>t DEF Closed, Types
<1>3. CASE ScanServes
  <2> DEFINE c == Serving
             cmd == Head(up[c]).cmd
             r == Tagged(cmd, Reply(cmd))
  <2>1. c \in Client
    BY ZenonT(20), <1>3, ServingClient DEF ScanServes
  <2>2. up' \in [Client -> Seq(Message)]
    BY <1>3, <1>t, <2>1 DEF ScanServes, Types
  <2>3. up[c] # <<>> => cmd \in Cmds
    BY ZenonT(20), <1>t, <2>1, FirstMessage
  <2>4. down' \in [Client -> Seq(Told)]
    <3>1. CASE down' = down
      BY ZenonT(20), <1>t, <3>1 DEF Types
    <3>2. CASE up[c] # <<>> /\ down' = [down EXCEPT ![c] = @ \o r]
      <4>1. r \in Seq(Told)
        BY ZenonT(20), <1>t, <2>3, <3>2, ReplyForm DEF Types
      <4> HIDE DEF r, c
      <4> QED BY <1>t, <2>1, <3>2, <4>1 DEF Types
    <3> QED BY ZenonT(20), <1>3, <3>1, <3>2 DEF ScanServes
  <2>5. srv' \in Srv
    BY ZenonT(20), <1>3, <1>t, <2>3, MovesServe DEF Moved, Types
  <2>6. Closed(c) \/ UNCHANGED <<clients, conn>>
    BY ZenonT(20), <1>3 DEF ScanServes
  <2>7. /\ clients' \in [1..MaxClients -> Client \cup {NoOne}]
        /\ conn' \in [Client -> {"none", "queued", "open", "shut"}]
    BY ZenonT(20), <1>t, <1>c, <2>1, <2>6 DEF Types
  <2>8. UNCHANGED <<rfds, backlog, prog, db, expect>>
    BY ZenonT(20), <1>3 DEF ScanServes
  <2> QED BY ZenonT(20), <1>t, <2>2, <2>4, <2>5, <2>7, <2>8 DEF Types
<1>4. CASE AnswersGet
  <2> DEFINE c == Serving
             r == Tagged("get", IF Head(up[c]).key \in db THEN <<"found">> ELSE <<"none">>)
  <2>1. c \in Client
    BY ZenonT(20), <1>4, <1>t DEF AnswersGet, Inside
  <2>2. up' \in [Client -> Seq(Message)]
    BY <1>4, <1>t, <2>1 DEF AnswersGet, Types
  <2>3. down' \in [Client -> Seq(Told)]
    <3>1. CASE down' = down
      BY <1>t, <3>1 DEF Types
    <3>2. CASE down' = [down EXCEPT ![c] = @ \o r]
      <4>1. r \in Seq(Told)
        BY DEF Tagged, Told, Cmds, Whats
      <4> HIDE DEF r, c
      <4> QED BY <1>t, <2>1, <3>2, <4>1 DEF Types
    <3> QED BY ZenonT(20), <1>4, <3>1, <3>2 DEF AnswersGet
  <2>4. Closed(c) \/ UNCHANGED <<clients, conn>>
    BY ZenonT(20), <1>4 DEF AnswersGet
  <2>5. /\ clients' \in [1..MaxClients -> Client \cup {NoOne}]
        /\ conn' \in [Client -> {"none", "queued", "open", "shut"}]
    BY <1>t, <1>c, <2>1, <2>4 DEF Types
  <2>6. srv' = NextEntry /\ UNCHANGED <<rfds, backlog, prog, db, expect>>
    BY ZenonT(20), <1>4 DEF AnswersGet
  <2> QED BY ZenonT(20), <1>n, <1>t, <2>2, <2>3, <2>5, <2>6 DEF Types
<1>d. ASSUME NEW c \in Client, NEW k \in Key
      PROVE  Disturbed(c, k) \in [Client -> [Key -> {"any", "yes", "no"}]]
  BY ZenonT(20), <1>t DEF Disturbed, Types
<1>5. CASE Deletes
  <2> DEFINE c == Serving
             k == Head(up[c]).key
  <2>1. c \in Client
    BY ZenonT(20), <1>5, <1>t DEF Deletes, Inside
  <2>2. up' \in [Client -> Seq(Message)]
    BY <1>5, <1>t, <2>1 DEF Deletes, Types
  <2>k. k \in Key
    BY ZenonT(20), <1>5, <1>t, <2>1, FirstMessage DEF Deletes
  <2>3. db' \in SUBSET Key /\ IsFiniteSet(db') /\ Cardinality(db') \in Nat
    <3>1. db' = db \ {k}
      BY <1>5 DEF Deletes
    <3>2. db' \in SUBSET Key /\ IsFiniteSet(db')
      BY ZenonT(20), <1>t, <3>1, FS_RemoveElement DEF Types
    <3> QED BY ZenonT(20), <3>2, FS_CardinalityType
  <2>4. expect' \in [Client -> [Key -> {"any", "yes", "no"}]]
    BY ZenonT(20), <1>5, <1>d, <2>1, <2>k DEF Deletes
  <2>5. srv' = NextEntry /\ UNCHANGED <<clients, rfds, backlog, conn, down, prog>>
    BY ZenonT(20), <1>5 DEF Deletes
  <2> QED BY ZenonT(20), <1>n, <1>t, <2>2, <2>3, <2>4, <2>5 DEF Types
<1>6. CASE ReadsSize
  <2>1. Serving \in Client
    BY ZenonT(20), <1>6, <1>t DEF ReadsSize, Inside
  <2>2. up' \in [Client -> Seq(Message)]
    BY <1>6, <1>t, <2>1 DEF ReadsSize, Types
  <2>3. srv' \in Srv
    BY ZenonT(20), <1>6, <1>t DEF ReadsSize, Types, Srv, Places
  <2>4. UNCHANGED <<clients, rfds, backlog, conn, down, prog, db, expect>>
    BY ZenonT(20), <1>6 DEF ReadsSize
  <2> QED BY ZenonT(20), <1>t, <2>2, <2>3, <2>4 DEF Types
<1>7. CASE Stores
  <2> DEFINE c == Serving
             k == Head(up[c]).key
  <2>1. c \in Client
    BY ZenonT(20), <1>7, <1>t DEF Stores, Inside
  <2>2. up' \in [Client -> Seq(Message)]
    BY <1>7, <1>t, <2>1 DEF Stores, Types
  <2>k. k \in Key
    BY ZenonT(20), <1>7, <1>t, <2>1, FirstMessage DEF Stores
  <2>3. db' \in SUBSET Key /\ IsFiniteSet(db') /\ Cardinality(db') \in Nat
    <3>1. db' = db \cup {k}
      BY <1>7 DEF Stores
    <3>2. db' \in SUBSET Key /\ IsFiniteSet(db')
      BY ZenonT(20), <1>t, <2>k, <3>1, FS_AddElement DEF Types
    <3> QED BY <3>2, FS_CardinalityType
  <2>4. expect' \in [Client -> [Key -> {"any", "yes", "no"}]]
    BY ZenonT(20), <1>7, <1>d, <2>1, <2>k DEF Stores
  <2>5. srv' = NextEntry /\ UNCHANGED <<clients, rfds, backlog, conn, down, prog>>
    BY ZenonT(20), <1>7 DEF Stores
  <2> QED BY <1>n, <1>t, <2>2, <2>3, <2>4, <2>5 DEF Types
<1>8. CASE ArgsMissing
  <2>1. Serving \in Client
    BY ZenonT(20), <1>8, <1>t DEF ArgsMissing, Inside
  <2>2. Closed(Serving)
    BY ZenonT(20), <1>8 DEF ArgsMissing
  <2>3. srv' = NextEntry /\ UNCHANGED <<rfds, backlog, up, down, prog, db, expect>>
    BY ZenonT(20), <1>8 DEF ArgsMissing
  <2> QED BY ZenonT(20), <1>c, <1>n, <1>t, <2>1, <2>2, <2>3 DEF Types
<1>9. CASE DataMissing
  <2>1. srv' \in Srv
    BY ZenonT(20), <1>9, <1>t DEF DataMissing, Types, Srv, Places
  <2> QED BY ZenonT(20), <1>9, <1>t, <2>1 DEF DataMissing, Types, sockets
<1>10. CASE Accepts
  <2>1. srv' \in Srv
    BY ZenonT(20), <1>10, MovesStart DEF Accepts, Moved, Places
  <2>2. CASE UNCHANGED <<clients, conn, backlog>>
    <3>1. rfds' = PollList(clients) /\ UNCHANGED <<up, down, prog, db, expect>>
      BY ZenonT(20), <1>10, <2>2 DEF Accepts
    <3> QED BY ZenonT(20), <1>t, <2>1, <2>2, <3>1, PollListAt DEF Types
  <2>3. CASE 1 \in revents /\ (\E i \in 1..MaxClients : clients[i] = NoOne)
             /\ SockAccept(FreeEntry)
    <3> DEFINE h == Head(backlog)
    <3>1. h \in Client /\ Tail(backlog) \in Seq(Client)
      BY <1>t, <2>3 DEF Types, Tables, Queued
    <3>2. clients' = [clients EXCEPT ![FreeEntry] = h]
      BY ZenonT(20), <2>3 DEF SockAccept
    <3>3. clients' \in [1..MaxClients -> Client \cup {NoOne}]
      BY ZenonT(20), <1>t, <3>1, <3>2 DEF Types
    <3>4. conn' \in [Client -> {"none", "queued", "open", "shut"}]
      BY ZenonT(20), <1>t, <2>3 DEF Types, SockAccept
    <3>5. rfds' \in Seq(Client \cup {Listener})
      BY ZenonT(20), <1>10, <3>3, PollListAt DEF Accepts
    <3>6. backlog' \in Seq(Client)
      BY ZenonT(20), <2>3, <3>1 DEF SockAccept
    <3>7. UNCHANGED <<up, down, prog, db, expect>>
      BY ZenonT(20), <1>10 DEF Accepts
    <3> QED BY ZenonT(20), <1>t, <2>1, <3>3, <3>4, <3>5, <3>6, <3>7 DEF Types
  <2> QED BY ZenonT(20), <1>10, <2>2, <2>3 DEF Accepts
<1>11. CASE Ended
  <2>1. srv' \in Srv
    BY ZenonT(20), <1>11, MovesStart DEF Ended, Moved, Places
  <2>2. clients' \in [1..MaxClients -> Client \cup {NoOne}]
    BY <1>11 DEF Ended, NoClients
  <2>3. rfds' \in Seq(Client \cup {Listener}) /\ backlog' \in Seq(Client)
    BY <1>11 DEF Ended
  <2>4. conn' \in [Client -> {"none", "queued", "open", "shut"}]
    BY ZenonT(20), <1>11, <1>t DEF Ended, Types
  <2>5. /\ up' \in [Client -> Seq(Message)]
        /\ expect' \in [Client -> [Key -> {"any", "yes", "no"}]]
    BY <1>11 DEF Ended
  <2>6. UNCHANGED <<down, prog, db>>
    BY ZenonT(20), <1>11 DEF Ended
  <2> QED BY ZenonT(20), <1>t, <2>1, <2>2, <2>3, <2>4, <2>5, <2>6 DEF Types
<1>m. ASSUME NEW c \in Client, NEW cmd \in Cmds, NEW k \in Key, NEW part \in Parts,
             Sends(c, Msg(cmd, k, part))
      PROVE  up' \in [Client -> Seq(Message)]
  <2>1. Msg(cmd, k, part) \in Message
    BY DEF Msg, Message
  <2> QED BY <1>m, <1>t, <2>1 DEF Sends, Types
<1>p. \A c \in Client, pc \in Pcs : Goes(c, pc) => prog' \in [Client -> Progs]
  BY ZenonT(20), <1>t, ProgForms DEF Types
<1>12. CASE Signal
  BY ZenonT(20), <1>12, <1>t DEF Signal, Types, sockets
<1>13. CASE Starts
  <2>1. srv' \in Srv
    BY <1>13 DEF Starts, Server, Srv, Places, Cmds
  <2> QED BY ZenonT(20), <1>13, <1>t, <2>1 DEF Starts, Types, sockets
<1>14. ASSUME NEW c \in Client, Connects(c)
       PROVE  Types'
  <2>1. PICK k \in Key : Sends(c, Msg("info", k, "cmd"))
    BY ZenonT(20), <1>14 DEF Connects
  <2>2. up' \in [Client -> Seq(Message)]
    BY ZenonT(20), <1>m, <2>1 DEF Cmds, Parts
  <2>3. prog' \in [Client -> Progs]
    BY ZenonT(20), <1>14, <1>p DEF Connects, Pcs
  <2>4. /\ backlog' \in Seq(Client)
        /\ conn' \in [Client -> {"none", "queued", "open", "shut"}]
    BY <1>14, <1>t DEF Connects, Types
  <2>5. UNCHANGED <<clients, rfds, srv, down, db, expect>>
    BY ZenonT(20), <1>14 DEF Connects, loop
  <2> QED BY ZenonT(20), <1>t, <2>2, <2>3, <2>4, <2>5 DEF Types
<1>15. ASSUME NEW c \in Client, Refused(c)
       PROVE  Types'
  <2>1. prog' \in [Client -> Progs]
    BY ZenonT(20), <1>15, <1>t, ProgForms DEF Refused, Types, Pcs
  <2> QED BY ZenonT(20), <1>15, <1>t, <2>1 DEF Refused, Types, sockets, loop
<1>16. ASSUME NEW c \in Client, NEW cmd \in Cmds, NEW k \in Key, Commands(c, cmd, k)
       PROVE  Types'
  <2>1. up' \in [Client -> Seq(Message)]
    BY ZenonT(20), <1>16, <1>m, <1>t DEF Commands, Parts, Types
  <2>2. prog' \in [Client -> Progs]
    <3>1. CASE Goes(c, "done")
      BY ZenonT(20), <1>p, <3>1 DEF Pcs
    <3>2. CASE prog' = [prog EXCEPT ![c] = [pc |-> "reply", cmd |-> cmd]]
      <4>1. [pc |-> "reply", cmd |-> cmd] \in Progs
        BY ZenonT(20) DEF Progs, Pcs
      <4> QED BY ZenonT(20), <1>t, <3>2, <4>1 DEF Types
    <3> QED BY ZenonT(20), <1>16, <3>1, <3>2 DEF Commands
  <2>3. UNCHANGED <<clients, rfds, srv, backlog, conn, down, db, expect>>
    BY ZenonT(20), <1>16 DEF Commands, loop
  <2> QED BY ZenonT(20), <1>t, <2>1, <2>2, <2>3 DEF Types
<1>17. ASSUME NEW c \in Client, ReadsReply(c)
       PROVE  Types'
  <2>1. \A cmd : After(cmd) \in Pcs
    BY ZenonT(20) DEF After, Pcs
  <2>2. prog' \in [Client -> Progs]
    BY ZenonT(20), <1>17, <1>p, <2>1 DEF ReadsReply, Pcs
  <2>3. down' \in [Client -> Seq(Told)]
    <3>1. down' = down \/ (down[c] # <<>> /\ down' = [down EXCEPT ![c] = Tail(down[c])])
      BY ZenonT(20), <1>17 DEF ReadsReply
    <3>2. down \in [Client -> Seq(Told)]
      BY ZenonT(20), <1>t DEF Types
    <3>3. down[c] # <<>> => Tail(down[c]) \in Seq(Told)
      BY <3>2
    <3> QED BY ZenonT(20), <3>1, <3>2, <3>3
  <2>4. UNCHANGED <<clients, rfds, srv, backlog, conn, up, db, expect>>
    BY ZenonT(20), <1>17 DEF ReadsReply, loop
  <2> QED BY ZenonT(20), <1>t, <2>2, <2>3, <2>4 DEF Types
<1>18. ASSUME NEW c \in Client, NEW k \in Key, SendsArgs(c, k)
       PROVE  Types'
  <2> DEFINE cmd == prog[c].cmd
  <2>0. cmd \in Cmds
    BY ZenonT(20), <1>t DEF Types, Progs
  <2>1. up' \in [Client -> Seq(Message)]
    <3>1. CASE Sends(c, Msg(cmd, k, "args"))
      BY ZenonT(20), <1>m, <2>0, <3>1 DEF Parts
    <3> QED BY ZenonT(20), <1>18, <1>t, <3>1 DEF SendsArgs, Types
  <2>2. prog' \in [Client -> Progs]
    <3>1. prog[c].pc = "args" => HasArgs(cmd)
      BY DEF Tables, Connected
    <3>2. \E pc \in Pcs : Goes(c, pc)
      BY ZenonT(20), <1>18, <3>1 DEF SendsArgs, Pcs, HasArgs
    <3> QED BY ZenonT(20), <1>p, <3>2
  <2>3. expect' \in [Client -> [Key -> {"any", "yes", "no"}]]
    <3>1. expect' = expect \/ expect' = [expect EXCEPT ![c][k] = "no"]
      BY ZenonT(20), <1>18 DEF SendsArgs
    <3>2. expect \in [Client -> [Key -> {"any", "yes", "no"}]]
      BY ZenonT(20), <1>t DEF Types
    <3> QED BY <3>1, <3>2
  <2>4. UNCHANGED <<clients, rfds, srv, backlog, conn, down, db>>
    BY ZenonT(20), <1>18 DEF SendsArgs, loop
  <2> QED BY ZenonT(20), <1>t, <2>1, <2>2, <2>3, <2>4 DEF Types
<1>19. ASSUME NEW c \in Client, NEW k \in Key, SendsData(c, k)
       PROVE  Types'
  <2>1. up' \in [Client -> Seq(Message)]
    <3>1. CASE Sends(c, Msg("store", k, "data"))
      BY ZenonT(20), <1>m, <3>1 DEF Parts, Cmds
    <3> QED BY ZenonT(20), <1>19, <1>t, <3>1 DEF SendsData, Types
  <2>2. prog' \in [Client -> Progs]
    BY ZenonT(20), <1>19, <1>p DEF SendsData, Pcs
  <2>3. expect' \in [Client -> [Key -> {"any", "yes", "no"}]]
    <3>1. expect' = expect \/ expect' = [expect EXCEPT ![c][k] = "yes"]
      BY ZenonT(20), <1>19 DEF SendsData
    <3>2. expect \in [Client -> [Key -> {"any", "yes", "no"}]]
      BY <1>t DEF Types
    <3> QED BY <3>1, <3>2
  <2>4. UNCHANGED <<clients, rfds, srv, backlog, conn, down, db>>
    BY ZenonT(20), <1>19 DEF SendsData, loop
  <2> QED BY <1>t, <2>1, <2>2, <2>3, <2>4 DEF Types
<1>20. ASSUME NEW c \in Client, ReadsAnswer(c)
       PROVE  Types'
  <2>1. prog' \in [Client -> Progs]
    BY ZenonT(20), <1>20, <1>p DEF ReadsAnswer, Pcs
  <2>2. down' \in [Client -> Seq(Told)]
    <3>1. down' = down \/ (down[c] # <<>> /\ down' = [down EXCEPT ![c] = Tail(down[c])])
      BY ZenonT(20), <1>20 DEF ReadsAnswer
    <3>2. down \in [Client -> Seq(Told)]
      BY <1>t DEF Types
    <3>3. down[c] # <<>> => Tail(down[c]) \in Seq(Told)
      BY <3>2
    <3> QED BY ZenonT(20), <3>1, <3>2, <3>3
  <2>3. UNCHANGED <<clients, rfds, srv, backlog, conn, up, db, expect>>
    BY ZenonT(20), <1>20 DEF ReadsAnswer, loop
  <2> QED BY <1>t, <2>1, <2>2, <2>3 DEF Types
<1>21. ASSUME NEW c \in Client, Dies(c)
       PROVE  Types'
  <2>1. prog' \in [Client -> Progs]
    BY ZenonT(20), <1>21, <1>p DEF Dies, Pcs
  <2>2. down' \in [Client -> Seq(Told)]
    BY <1>21, <1>t DEF Dies, Types
  <2>3. UNCHANGED <<clients, rfds, srv, backlog, conn, up, db, expect>>
    BY ZenonT(20), <1>21 DEF Dies, loop
  <2> QED BY <1>t, <2>1, <2>2, <2>3 DEF Types
<1>22. CASE UNCHANGED vars
  BY ZenonT(20), <1>22, <1>t DEF vars, Types
<1> QED
  BY ZenonT(20), <1>1, <1>2, <1>3, <1>4, <1>5, <1>6, <1>7, <1>8, <1>9, <1>10, <1>11, <1>12, <1>13,
     <1>14, <1>15, <1>16, <1>17, <1>18, <1>19, <1>20, <1>21, <1>22
     DEF Next, DaemonStep, ClientStep, Quits, Crashes
-----------------------------------------------------------------------------
\* Past an entry, the position moves on if the entry is in use.
LEMMA FromNext ==
    ASSUME NEW cs, NEW fds, NEW a \in Nat, NEW n \in Nat, From(cs, fds, a, n)
    PROVE  From(cs, fds, a + 1, n + (IF cs[a] # NoOne THEN 1 ELSE 0))
<1> DEFINE b == IF cs[a] # NoOne THEN 1 ELSE 0
<1> SUFFICES ASSUME NEW j \in (a + 1)..MaxClients, cs[j] # NoOne
             PROVE  LET m == n + b + Cardinality(Taken(cs, a + 1, j)) IN
                    m \in 1..Len(fds) /\ fds[m] = cs[j]
  BY DEF From
<1>1. j \in Nat /\ a <= j /\ j \in a..MaxClients
  BY SizesAssumption
<1>2. Cardinality(Taken(cs, a + 1, j)) \in Nat
  BY <1>1, TakenFinite
<1>3. Cardinality(Taken(cs, a, j)) = Cardinality(Taken(cs, a + 1, j)) + b
  BY ZenonT(20), <1>1, TakenStep
<1>4. n + Cardinality(Taken(cs, a, j)) = n + b + Cardinality(Taken(cs, a + 1, j))
  BY <1>2, <1>3
<1> QED BY ZenonT(20), <1>1, <1>4 DEF From

\* What changes before an entry does not matter to what is ahead.
LEMMA FromSame ==
    ASSUME NEW cs, NEW ds, NEW fds, NEW a \in Nat, NEW n \in Nat, From(cs, fds, a, n),
           \A e \in a..MaxClients : ds[e] = cs[e]
    PROVE  From(ds, fds, a, n)
<1> SUFFICES ASSUME NEW j \in a..MaxClients, ds[j] # NoOne
             PROVE  LET m == n + Cardinality(Taken(ds, a, j)) IN
                    m \in 1..Len(fds) /\ fds[m] = ds[j]
  BY DEF From
<1>1. j \in Nat /\ \A e \in a..j : cs[e] = ds[e]
  BY SizesAssumption
<1>2. Taken(cs, a, j) = Taken(ds, a, j)
  BY ZenonT(20), <1>1, TakenSame
<1> QED BY ZenonT(20), <1>2 DEF From

\* The scan stays aligned with rfds[]: connections close at the entry it is
\* at, and new ones are accepted only after it.
LEMMA AlignedStep == Tables /\ [Next]_vars => Aligned'
<1> SUFFICES ASSUME Tables, [Next]_vars PROVE Aligned'
  OBVIOUS
<1>t. Types /\ Aligned /\ Types'
  BY ZenonT(20), TypesStep DEF Tables
<1>n. srv.i \in Nat \ {0} /\ srv.curfd \in Nat /\ srv \in Srv
  BY ZenonT(20), <1>t DEF Types, Srv
<1>c. ASSUME NEW c, Closed(c) \/ UNCHANGED clients
      PROVE  \A e \in (srv.i + 1)..MaxClients : clients'[e] = clients[e]
  <2>1. clients' = clients \/ clients' = [clients EXCEPT ![srv.i] = NoOne]
    BY ZenonT(20), <1>c DEF Closed
  <2> QED BY <1>n, <1>t, <2>1 DEF Types
<1>b. ASSUME Inside, Moved("scan", srv.i + 1, srv.curfd, srv.cmd), rfds' = rfds,
             Closed(Serving) \/ UNCHANGED clients
      PROVE  Aligned'
  <2>1. From(clients, rfds, srv.i + 1, srv.curfd)
    BY ZenonT(20), <1>b, <1>t DEF Aligned, Ahead
  <2>2. From(clients', rfds, srv.i + 1, srv.curfd)
    BY <1>b, <1>c, <1>n, <2>1, FromSame
  <2>3. ~Inside' /\ Ahead' = srv.i + 1 /\ srv'.curfd = srv.curfd /\ srv'.at = "scan"
    BY ZenonT(20), <1>b DEF Moved, Inside, Ahead
  <2> QED BY ZenonT(20), <1>b, <2>2, <2>3 DEF Aligned
<1>s. UNCHANGED <<clients, rfds, srv>> => Aligned'
  BY ZenonT(20), <1>t DEF Aligned, Inside, Ahead
<1>1. CASE Poll
  <2>1. srv.i = 1 /\ srv.curfd = 1 /\ Ahead = 1
    BY ZenonT(20), <1>1, <1>t DEF Poll, Aligned, Inside, Ahead
  <2>2. Moved("scan", 1, 1, "info")
    BY ZenonT(20), <1>1, MovesStart DEF Poll, Places
  <2>3. ~Inside' /\ Ahead' = 1 /\ srv'.curfd = 1 /\ srv'.at = "scan"
    BY ZenonT(20), <2>2 DEF Moved, Inside, Ahead
  <2>4. UNCHANGED <<clients, rfds>>
    BY ZenonT(20), <1>1 DEF Poll
  <2> QED BY ZenonT(20), <1>t, <2>1, <2>3, <2>4 DEF Aligned
<1>2. CASE ScanSkips
  <2>1. From(clients, rfds, srv.i, srv.curfd)
    BY ZenonT(20), <1>2, <1>t DEF ScanSkips, Aligned, Inside, Ahead
  <2>2. From(clients, rfds, srv.i + 1,
             srv.curfd + (IF clients[srv.i] # NoOne THEN 1 ELSE 0))
    BY ZenonT(20), <1>n, <2>1, FromNext
  <2>3. /\ ~Inside' /\ srv'.at = "scan" /\ Ahead' = srv.i + 1
        /\ srv'.curfd = srv.curfd + (IF clients[srv.i] # NoOne THEN 1 ELSE 0)
    BY <1>2, <1>n, MovesSkip DEF Moved, Inside, Ahead, Serving
  <2>4. UNCHANGED <<clients, rfds>>
    BY ZenonT(20), <1>2 DEF ScanSkips
  <2> QED BY ZenonT(20), <2>2, <2>3, <2>4 DEF Aligned
<1>3. CASE ScanServes
  <2>0. srv.i \in 1..MaxClients /\ Serving \in Client
    BY ZenonT(20), <1>3, ServingClient DEF ScanServes
  <2>1. From(clients, rfds, srv.i, srv.curfd)
    BY ZenonT(20), <1>3, <1>t DEF ScanServes, Aligned, Inside, Ahead
  <2>2. From(clients, rfds, srv.i + 1, srv.curfd + 1)
    <3>1. clients[srv.i] # NoOne
      BY ZenonT(20), <1>3 DEF ScanServes, Serving
    <3> QED BY ZenonT(20), <1>n, <2>1, <3>1, FromNext
  <2>3. Closed(Serving) \/ UNCHANGED clients
    BY ZenonT(20), <1>3 DEF ScanServes
  <2>4. From(clients', rfds, srv.i + 1, srv.curfd + 1)
    BY <1>c, <1>n, <2>2, <2>3, FromSame
  <2>5. up[Serving] # <<>> => Head(up[Serving]).cmd \in Cmds
    BY ZenonT(20), <1>t, <2>0, FirstMessage
  <2>6. rfds' = rfds
    BY ZenonT(20), <1>3 DEF ScanServes
  <2>7. CASE up[Serving] # <<>> /\ ~Gone(Serving) /\ HasArgs(Head(up[Serving]).cmd)
    <3>1. Moved("args", srv.i, srv.curfd + 1, Head(up[Serving]).cmd)
      BY ZenonT(20), <1>3, <1>n, <2>5, <2>7, MovesServe
    <3>2. UNCHANGED clients
      BY ZenonT(20), <1>3, <2>7 DEF ScanServes, HasArgs
    <3>3. Inside' /\ Ahead' = srv.i + 1 /\ srv'.i = srv.i /\ srv'.curfd = srv.curfd + 1
      BY ZenonT(20), <3>1 DEF Moved, Inside, Ahead
    <3>4. clients'[srv'.i] # NoOne
      BY ZenonT(20), <2>0, <3>2, <3>3, NamesAssumption DEF Serving
    <3> QED BY ZenonT(20), <2>0, <2>4, <2>6, <3>3, <3>4 DEF Aligned
  <2>8. CASE ~(up[Serving] # <<>> /\ ~Gone(Serving) /\ HasArgs(Head(up[Serving]).cmd))
    <3>1. Moved("scan", srv.i + 1, srv.curfd + 1, srv.cmd)
      BY ZenonT(20), <1>3, <1>n, <2>5, <2>8, MovesServe
    <3>2. ~Inside' /\ Ahead' = srv.i + 1 /\ srv'.curfd = srv.curfd + 1 /\ srv'.at = "scan"
      BY ZenonT(20), <3>1 DEF Moved, Inside, Ahead
    <3> QED BY ZenonT(20), <2>4, <2>6, <3>2 DEF Aligned
  <2> QED BY ZenonT(20), <2>7, <2>8
<1>m. srv' = NextEntry => Moved("scan", srv.i + 1, srv.curfd, srv.cmd)
  BY ZenonT(20), <1>n, MovesNext
<1>4. CASE AnswersGet
  BY ZenonT(20), <1>4, <1>b, <1>m DEF AnswersGet, Inside
<1>5. CASE Deletes
  BY ZenonT(20), <1>5, <1>b, <1>m DEF Deletes, Inside
<1>6. CASE Stores
  BY ZenonT(20), <1>6, <1>b, <1>m DEF Stores, Inside
<1>7. CASE ArgsMissing
  BY ZenonT(20), <1>7, <1>b, <1>m DEF ArgsMissing, Inside
<1>8. CASE ReadsSize \/ DataMissing
  <2>1. /\ UNCHANGED <<clients, rfds>>
        /\ Inside
        /\ \/ srv' = [srv EXCEPT !.at = "data"]
           \/ srv' = [srv EXCEPT !.at = "spin"]
    BY ZenonT(20), <1>8 DEF ReadsSize, DataMissing, Inside
  <2>2. Inside' /\ srv'.i = srv.i /\ srv'.curfd = srv.curfd
    BY ZenonT(20), <1>n, <2>1, MovesAt DEF Moved, Inside, Places
  <2>3. Ahead' = Ahead
    BY ZenonT(20), <2>1, <2>2 DEF Ahead
  <2> QED BY ZenonT(20), <1>t, <2>1, <2>2, <2>3 DEF Aligned
<1>9. CASE Accepts
  <2>1. \E at \in {"poll", "undefined"} : Moved(at, 1, 1, "info")
    BY ZenonT(20), <1>9, MovesStart DEF Accepts, Places
  <2>2. ~Inside' /\ srv'.i = 1 /\ srv'.curfd = 1 /\ Ahead' = 1
    BY ZenonT(20), <2>1 DEF Moved, Inside, Ahead
  <2>3. rfds' = PollList(clients')
    BY ZenonT(20), <1>9 DEF Accepts
  <2>4. From(clients', rfds', 1, 1)
    BY ZenonT(20), <1>t, <2>3, PollListAt DEF Types, From
  <2> QED BY ZenonT(20), <2>2, <2>4 DEF Aligned
<1>10. CASE Ended
  <2>1. ~Inside' /\ srv'.i = 1 /\ srv'.curfd = 1 /\ Ahead' = 1
    BY ZenonT(20), <1>10, MovesStart DEF Ended, Moved, Inside, Ahead, Places
  <2>2. \A j \in 1..MaxClients : clients'[j] = NoOne
    BY ZenonT(20), <1>10 DEF Ended, NoClients
  <2>3. From(clients', rfds', 1, 1)
    BY ZenonT(20), <2>2 DEF From
  <2> QED BY <2>1, <2>3 DEF Aligned
<1>11. CASE Starts
  <2>1. ~Inside' /\ srv'.i = 1 /\ srv'.curfd = 1 /\ Ahead' = 1
    BY ZenonT(20), <1>11, MovesStart DEF Starts, Moved, Inside, Ahead, Places
  <2>2. srv.curfd = 1 /\ Ahead = 1 /\ UNCHANGED <<clients, rfds>>
    BY ZenonT(20), <1>11, <1>t DEF Starts, Aligned, Inside, Ahead
  <2> QED BY ZenonT(20), <1>t, <2>1, <2>2 DEF Aligned
<1>12. CASE Signal \/ UNCHANGED vars
  BY ZenonT(20), <1>12, <1>s DEF Signal, vars
<1>13. ASSUME NEW c \in Client, Connects(c) \/ Refused(c) \/ ClientStep(c) \/ Dies(c)
                                \/ \E cmd \in Cmds, k \in Key : Commands(c, cmd, k)
       PROVE  Aligned'
  <2>1. UNCHANGED loop
    BY ZenonT(20), <1>13 DEF Connects, Refused, ClientStep, ReadsReply, ReadsAnswer, SendsArgs,
                 SendsData, Dies, Commands
  <2> QED BY ZenonT(20), <1>s, <2>1 DEF loop
<1> QED
  BY ZenonT(20), <1>1, <1>2, <1>3, <1>4, <1>5, <1>6, <1>7, <1>8, <1>9, <1>10, <1>11, <1>12, <1>13
     DEF Next, DaemonStep, Quits, Crashes

\* What a step may do to clients[], the backlog and the connections.
LEMMA TableChanges ==
    ASSUME Tables, [Next]_vars
    PROVE  \/ UNCHANGED <<clients, conn, backlog>>
           \/ /\ srv.i \in 1..MaxClients /\ Serving \in Client
              /\ Closed(Serving) /\ UNCHANGED backlog
           \/ /\ backlog # <<>> /\ \E i \in 1..MaxClients : clients[i] = NoOne
              /\ SockAccept(FreeEntry)
           \/ \E c \in Client : /\ conn[c] = "none" /\ UNCHANGED clients
                                /\ conn' = [conn EXCEPT ![c] = "queued"]
                                /\ backlog' = Append(backlog, c)
           \/ Ended
<1>1. CASE ScanServes
  BY ZenonT(20), <1>1, ServingClient DEF ScanServes
<1>2. CASE AnswersGet \/ ArgsMissing
  <2>1. srv.i \in 1..MaxClients /\ Serving \in Client
    BY ZenonT(20), <1>2, ServingClient DEF AnswersGet, ArgsMissing, Inside
  <2> QED BY ZenonT(20), <1>2, <2>1 DEF AnswersGet, ArgsMissing
<1>3. CASE Poll \/ ScanSkips \/ Deletes \/ ReadsSize \/ Stores \/ DataMissing
  BY ZenonT(20), <1>3 DEF Poll, ScanSkips, Deletes, ReadsSize, Stores, DataMissing, sockets
<1>4. CASE Accepts
  BY ZenonT(20), <1>4 DEF Accepts, Tables, Queued
<1>5. CASE Signal \/ Starts \/ UNCHANGED vars
  BY ZenonT(20), <1>5 DEF Signal, Starts, vars, sockets
<1>6. ASSUME NEW c \in Client, Connects(c)
      PROVE  /\ conn[c] = "none" /\ UNCHANGED clients
             /\ conn' = [conn EXCEPT ![c] = "queued"]
             /\ backlog' = Append(backlog, c)
  BY ZenonT(20), <1>6 DEF Connects, loop, Tables, Connected
<1>7. ASSUME NEW c \in Client, Refused(c) \/ ClientStep(c) \/ Dies(c)
                               \/ \E cmd \in Cmds, k \in Key : Commands(c, cmd, k)
      PROVE  UNCHANGED <<clients, conn, backlog>>
  BY ZenonT(20), <1>7 DEF Refused, ClientStep, ReadsReply, ReadsAnswer, SendsArgs,
              SendsData, Dies, Commands, loop, sockets
<1> QED
  BY ZenonT(20), <1>1, <1>2, <1>3, <1>4, <1>5, <1>6, <1>7 DEF Next, DaemonStep, Quits, Crashes

\* A set of naturals has a least element.
LEMMA Least ==
    ASSUME NEW T \in SUBSET Nat, T # {}
    PROVE  \E x \in T : \A y \in T : x <= y
<1> DEFINE Rel == OpToRel(<, Nat)
<1>1. IsWellFoundedOn(Rel, Nat)
  BY ZenonT(20), NatLessThanWellFounded
<1>2. \A x, y \in Nat : x < y => <<x, y>> \in Rel
  BY DEF OpToRel
<1> HIDE DEF Rel
<1>3. \E x \in T : \A y \in T : ~ (<<y, x>> \in Rel)
  BY ZenonT(20), <1>1, WFMin
<1>4. ASSUME NEW x \in T, NEW y \in T, ~ (<<y, x>> \in Rel)
      PROVE  x <= y
  <2>1. x \in Nat /\ y \in Nat
    OBVIOUS
  <2>2. ~(y < x)
    BY <1>2, <1>4, <2>1, Zenon
  <2> QED BY <2>1, <2>2
<1> QED BY <1>3, <1>4, Zenon

\* The entry sock_accept is called with is free.
LEMMA FreeEntryFree ==
    ASSUME Types, \E i \in 1..MaxClients : clients[i] = NoOne
    PROVE  FreeEntry \in 1..MaxClients /\ clients[FreeEntry] = NoOne
<1> DEFINE T == {i \in 1..MaxClients : clients[i] = NoOne}
<1>1. PICK x \in T : \A y \in T : x <= y
  <2>1. T \in SUBSET Nat /\ T # {}
    OBVIOUS
  <2> HIDE DEF T
  <2> QED BY ZenonT(20), <2>1, Least
<1>2. ASSUME NEW j \in 1..(x - 1)
      PROVE  clients[j] # NoOne
  <2>1. j \in 1..MaxClients /\ ~(x <= j)
    BY SizesAssumption
  <2> QED BY ZenonT(20), <1>1, <2>1
<1>3. \E i \in 1..MaxClients : clients[i] = NoOne /\ \A j \in 1..(i - 1) : clients[j] # NoOne
  BY ZenonT(20), <1>2
<1> QED BY ZenonT(20), <1>3 DEF FreeEntry

LEMMA ListedStep == Tables /\ [Next]_vars => Listed'
<1> SUFFICES ASSUME Tables, [Next]_vars PROVE Listed'
  OBVIOUS
<1>t. Types /\ Listed /\ Queued
  BY ZenonT(20) DEF Tables
<1>1. CASE UNCHANGED <<clients, conn, backlog>>
  BY ZenonT(20), <1>1, <1>t DEF Listed
<1>2. CASE srv.i \in 1..MaxClients /\ Serving \in Client /\ Closed(Serving)
  <2>1. clients' = [clients EXCEPT ![srv.i] = NoOne]
        /\ conn' = [conn EXCEPT ![clients[srv.i]] = "shut"]
    BY <1>2 DEF Closed, Serving
  <2>2. clients[srv.i] \in Client
    BY <1>2 DEF Serving
  <2> QED BY <1>2, <1>t, <2>1, <2>2, NamesAssumption DEF Listed, Types
<1>3. CASE /\ backlog # <<>> /\ \E i \in 1..MaxClients : clients[i] = NoOne
           /\ SockAccept(FreeEntry)
  <2> DEFINE h == Head(backlog)
             f == FreeEntry
  <2>1. f \in 1..MaxClients /\ clients[f] = NoOne
    BY ZenonT(20), <1>3, <1>t, FreeEntryFree
  <2>2. h \in Client /\ conn[h] = "queued"
    BY <1>3, <1>t DEF Queued, Types
  <2>3. clients' = [clients EXCEPT ![f] = h] /\ conn' = [conn EXCEPT ![h] = "open"]
    BY ZenonT(20), <1>3 DEF SockAccept
  <2>4. \A i \in 1..MaxClients : clients[i] # h
    BY ZenonT(20), <1>t, <2>2 DEF Listed
  <2> HIDE DEF h, f
  <2> QED BY <1>t, <2>1, <2>2, <2>3, <2>4, NamesAssumption DEF Listed, Types
<1>4. ASSUME NEW c \in Client, conn[c] = "none", UNCHANGED clients,
             conn' = [conn EXCEPT ![c] = "queued"]
      PROVE  Listed'
  BY ZenonT(20), <1>4, <1>t DEF Listed, Types
<1>5. CASE Ended
  <2>1. /\ \A i \in 1..MaxClients : clients'[i] = NoOne
        /\ \A c \in Client : conn'[c] # "open"
    BY ZenonT(20), <1>5 DEF Ended, NoClients
  <2> QED BY ZenonT(20), <2>1, NamesAssumption DEF Listed
<1> QED BY ZenonT(20), <1>1, <1>2, <1>3, <1>4, <1>5, TableChanges

LEMMA QueuedStep == Tables /\ [Next]_vars => Queued'
<1> SUFFICES ASSUME Tables, [Next]_vars PROVE Queued'
  OBVIOUS
<1>t. Types /\ Listed /\ Queued /\ Types'
  BY ZenonT(20), TypesStep DEF Tables
<1> DEFINE Waits == /\ \A j \in 1..Len(backlog) : conn[backlog[j]] = "queued"
                    /\ \A j, k \in 1..Len(backlog) : backlog[j] = backlog[k] => j = k
<1>1. Waits'
  <2>1. CASE UNCHANGED <<clients, conn, backlog>>
    BY ZenonT(20), <1>t, <2>1 DEF Queued
  <2>2. CASE /\ srv.i \in 1..MaxClients /\ Serving \in Client
             /\ Closed(Serving) /\ UNCHANGED backlog
    <3>1. conn[Serving] = "open"
      BY ZenonT(20), <1>t, <2>2 DEF Listed, Serving
    <3>2. \A j \in 1..Len(backlog) : backlog[j] \in Client /\ backlog[j] # Serving
      <4>1. backlog \in Seq(Client)
        BY ZenonT(20), <1>t DEF Types
      <4>2. \A j \in 1..Len(backlog) : backlog[j] \in Client
        BY <4>1
      <4> QED BY ZenonT(20), <1>t, <3>1, <4>2 DEF Queued
    <3>3. /\ conn' = [conn EXCEPT ![Serving] = "shut"]
          /\ conn \in [Client -> {"none", "queued", "open", "shut"}]
      BY ZenonT(20), <1>t, <2>2 DEF Closed, Types
    <3>4. \A j \in 1..Len(backlog) : conn'[backlog[j]] = "queued"
      BY ZenonT(20), <1>t, <3>2, <3>3 DEF Queued
    <3> QED BY ZenonT(20), <1>t, <2>2, <3>4 DEF Queued
  <2>3. CASE /\ backlog # <<>> /\ \E i \in 1..MaxClients : clients[i] = NoOne
             /\ SockAccept(FreeEntry)
    <3>1. backlog' = Tail(backlog) /\ conn' = [conn EXCEPT ![backlog[1]] = "open"]
      BY <2>3 DEF SockAccept
    <3>2. /\ backlog \in Seq(Client)
          /\ Len(backlog') = Len(backlog) - 1
          /\ \A j \in 1..Len(backlog') : backlog'[j] = backlog[j + 1]
      BY <1>t, <2>3, <3>1 DEF Types
    <3>3. \A j \in 1..Len(backlog') : j + 1 \in 1..Len(backlog) /\ j + 1 # 1 /\ 1 \in 1..Len(backlog)
      BY <2>3, <3>2
    <3>4. ASSUME NEW j \in 1..Len(backlog')
          PROVE  conn'[backlog'[j]] = "queued"
      <4>1. backlog[j + 1] \in Client /\ backlog[j + 1] # backlog[1]
        BY <1>t, <3>2, <3>3 DEF Queued
      <4> QED BY ZenonT(20), <1>t, <3>1, <3>2, <3>3, <4>1 DEF Queued, Types
    <3>5. ASSUME NEW j \in 1..Len(backlog'), NEW k \in 1..Len(backlog'), backlog'[j] = backlog'[k]
          PROVE  j = k
      <4>1. j + 1 = k + 1
        BY <1>t, <3>2, <3>3, <3>5 DEF Queued
      <4> QED BY <4>1
    <3> QED BY ZenonT(20), <3>4, <3>5
  <2>4. ASSUME NEW c \in Client, conn[c] = "none", UNCHANGED clients,
               conn' = [conn EXCEPT ![c] = "queued"], backlog' = Append(backlog, c)
        PROVE  Waits'
    <3>1. /\ backlog \in Seq(Client)
          /\ Len(backlog') = Len(backlog) + 1
          /\ \A j \in 1..Len(backlog) : backlog'[j] = backlog[j]
          /\ backlog'[Len(backlog) + 1] = c
      BY <1>t, <2>4 DEF Types
    <3>2. \A j \in 1..Len(backlog) : backlog[j] # c /\ backlog[j] \in Client
      BY <1>t, <2>4, <3>1 DEF Queued
    <3>3. \A j \in 1..Len(backlog') : j \in 1..Len(backlog) \/ j = Len(backlog) + 1
      BY <3>1
    <3>4. \A e \in Client : conn'[e] = IF e = c THEN "queued" ELSE conn[e]
      BY ZenonT(20), <1>t, <2>4 DEF Types
    <3>5. ASSUME NEW j \in 1..Len(backlog')
          PROVE  conn'[backlog'[j]] = "queued"
      <4>1. CASE j \in 1..Len(backlog)
        BY ZenonT(20), <1>t, <3>1, <3>2, <3>4, <4>1 DEF Queued
      <4>2. CASE j = Len(backlog) + 1
        BY ZenonT(20), <3>1, <3>4, <4>2
      <4> QED BY ZenonT(20), <3>3, <4>1, <4>2
    <3>6. \A j, k \in 1..Len(backlog') : backlog'[j] = backlog'[k] => j = k
      BY <1>t, <3>1, <3>2, <3>3 DEF Queued
    <3> QED BY ZenonT(20), <3>5, <3>6
  <2>5. CASE Ended
    <3>1. Len(backlog') = 0
      BY <2>5 DEF Ended
    <3> QED BY <3>1
  <2> QED BY ZenonT(20), <2>1, <2>2, <2>3, <2>4, <2>5, TableChanges
<1>2. Len(rfds') >= 1 /\ rfds'[1] = Listener
  <2>1. CASE UNCHANGED rfds
    BY ZenonT(20), <1>t, <2>1 DEF Queued
  <2>2. CASE Accepts
    BY ZenonT(20), <1>t, <2>2, PollListAt DEF Accepts, Types
  <2>3. CASE Ended
    BY <2>3 DEF Ended
  <2>4. rfds' = rfds \/ Accepts \/ Ended
    <3>1. ASSUME NEW c \in Client, Connects(c) \/ Refused(c) \/ ClientStep(c) \/ Dies(c)
                                \/ \E cmd \in Cmds, k \in Key : Commands(c, cmd, k)
          PROVE  rfds' = rfds
      BY ZenonT(20), <3>1 DEF Connects, Refused, ClientStep, ReadsReply, ReadsAnswer, SendsArgs,
                  SendsData, Dies, Commands, loop
    <3>2. CASE Poll \/ ScanSkips \/ ScanServes \/ AnswersGet \/ Deletes \/ ReadsSize
               \/ Stores \/ ArgsMissing \/ DataMissing \/ Signal \/ Starts \/ UNCHANGED vars
      BY ZenonT(20), <3>2 DEF Poll, ScanSkips, ScanServes, AnswersGet, Deletes, ReadsSize, Stores,
                  ArgsMissing, DataMissing, Signal, Starts, vars
    <3> QED BY ZenonT(20), <3>1, <3>2 DEF Next, DaemonStep, Quits, Crashes
  <2> QED BY ZenonT(20), <2>1, <2>2, <2>3, <2>4
<1>3. 1 \in revents' => backlog' # <<>>
  <2>1. CASE Poll
    <3>1. revents' = {j \in DOMAIN rfds : Readable(rfds[j])} /\ UNCHANGED backlog
      BY ZenonT(20), <2>1 DEF Poll, sockets
    <3>2. 1 \in revents' => Readable(Listener)
      BY ZenonT(20), <1>t, <3>1 DEF Queued
    <3> QED BY ZenonT(20), <3>1, <3>2 DEF Readable
  <2>2. CASE Accepts \/ Ended
    BY ZenonT(20), <2>2 DEF Accepts, Ended
  <2>3. CASE UNCHANGED revents /\ (UNCHANGED backlog \/ \E c \in Client : backlog' = Append(backlog, c))
    BY <1>t, <2>3 DEF Queued, Types
  <2>4. ASSUME NEW c \in Client, Connects(c) \/ Refused(c) \/ ClientStep(c) \/ Dies(c)
                                \/ \E cmd \in Cmds, k \in Key : Commands(c, cmd, k)
        PROVE  UNCHANGED revents /\ (UNCHANGED backlog \/ backlog' = Append(backlog, c))
      BY ZenonT(20), <2>4 DEF Connects, Refused, ClientStep, ReadsReply, ReadsAnswer, SendsArgs,
                  SendsData, Dies, Commands, loop, sockets
  <2>5. CASE ScanSkips \/ ScanServes \/ AnswersGet \/ Deletes \/ ReadsSize
             \/ Stores \/ ArgsMissing \/ DataMissing \/ Signal \/ Starts \/ UNCHANGED vars
    <3>1. UNCHANGED revents /\ UNCHANGED backlog
      BY ZenonT(20), <2>5 DEF ScanSkips, ScanServes, AnswersGet, Deletes, ReadsSize, Stores,
                  ArgsMissing, DataMissing, Signal, Starts, vars, sockets
    <3> QED BY ZenonT(20), <2>3, <3>1
  <2> QED BY ZenonT(20), <2>1, <2>2, <2>3, <2>4, <2>5 DEF Next, DaemonStep, Quits, Crashes
<1> QED BY ZenonT(20), <1>1, <1>2, <1>3 DEF Queued

LEMMA ConnectedStep == Tables /\ [Next]_vars => Connected'
<1> SUFFICES ASSUME Tables, [Next]_vars, NEW d \in Client
             PROVE  /\ prog'[d].pc = "new" => conn'[d] = "none" /\ up'[d] = <<>> /\ prog'[d].cmd = "info"
                    /\ conn'[d] = "none" => prog'[d].pc \in {"new", "done"}
                    /\ prog'[d].pc = "args" => HasArgs(prog'[d].cmd)
  BY ZenonT(20) DEF Connected
<1>t. /\ Types /\ Listed /\ Queued
      /\ prog[d].pc = "new" => conn[d] = "none" /\ up[d] = <<>> /\ prog[d].cmd = "info"
      /\ conn[d] = "none" => prog[d].pc \in {"new", "done"}
      /\ prog[d].pc = "args" => HasArgs(prog[d].cmd)
  BY ZenonT(20) DEF Tables, Connected
<1>f. /\ conn \in [Client -> {"none", "queued", "open", "shut"}]
      /\ up \in [Client -> Seq(Message)]
      /\ prog \in [Client -> Progs]
  BY ZenonT(20), <1>t DEF Types
<1>g. ASSUME NEW c \in Client, NEW pc, Goes(c, pc)
      PROVE  /\ c # d => prog'[d] = prog[d]
             /\ c = d => prog'[d].pc = pc
             /\ c = d /\ pc = "args" => prog'[d].cmd = prog[d].cmd
  BY ZenonT(20), <1>f, <1>g DEF Goes
<1>1. CASE UNCHANGED prog /\ conn'[d] = conn[d] /\ (up'[d] = up[d] \/ up[d] # <<>>)
  BY ZenonT(20), <1>1, <1>t
<1>2. CASE UNCHANGED prog /\ conn[d] # "none" /\ conn'[d] # "none"
  BY ZenonT(20), <1>2, <1>t
<1>3. CASE Ended
  BY ZenonT(20), <1>3, <1>t DEF Ended
<1>4. CASE Poll \/ ScanSkips \/ DataMissing \/ Signal \/ Starts \/ Accepts \/ UNCHANGED vars
  <2>1. UNCHANGED <<up, prog>>
    BY ZenonT(20), <1>4 DEF Poll, ScanSkips, DataMissing, Signal, Starts, Accepts, vars, sockets
  <2>2. CASE UNCHANGED conn
    BY ZenonT(20), <1>1, <2>1, <2>2
  <2>3. CASE Accepts /\ backlog # <<>> /\ conn' = [conn EXCEPT ![backlog[1]] = "open"]
    <3>1. backlog[1] \in Client /\ conn[backlog[1]] = "queued"
      BY <1>t, <2>3 DEF Queued, Types
    <3> QED BY ZenonT(20), <1>1, <1>2, <1>f, <2>1, <2>3, <3>1
  <2>4. UNCHANGED conn \/ (Accepts /\ backlog # <<>> /\ conn' = [conn EXCEPT ![backlog[1]] = "open"])
    BY <1>4, <1>t DEF Poll, ScanSkips, DataMissing, Signal, Starts, Accepts, SockAccept, vars, sockets, Queued
  <2> QED BY ZenonT(20), <2>2, <2>3, <2>4
<1>5. CASE ScanServes \/ AnswersGet \/ Deletes \/ ReadsSize \/ Stores \/ ArgsMissing
  <2>1. Serving \in Client /\ srv.i \in 1..MaxClients
    BY ZenonT(20), <1>5, ServingClient DEF ScanServes, AnswersGet, Deletes, ReadsSize, Stores,
                               ArgsMissing, Inside
  <2>2. conn[Serving] = "open"
    BY ZenonT(20), <1>t, <2>1 DEF Listed, Serving
  <2>3. UNCHANGED conn \/ conn' = [conn EXCEPT ![Serving] = "shut"]
    BY ZenonT(20), <1>5 DEF ScanServes, AnswersGet, Deletes, ReadsSize, Stores, ArgsMissing, Closed
  <2>4. UNCHANGED up \/ up' = [up EXCEPT ![Serving] = Tail(@)]
    BY ZenonT(20), <1>5 DEF ScanServes, AnswersGet, Deletes, ReadsSize, Stores, ArgsMissing
  <2>5. UNCHANGED prog
    BY ZenonT(20), <1>5 DEF ScanServes, AnswersGet, Deletes, ReadsSize, Stores, ArgsMissing
  <2>6. CASE d = Serving
    BY ZenonT(20), <1>2, <1>f, <2>1, <2>2, <2>3, <2>5, <2>6
  <2>7. CASE d # Serving
    BY ZenonT(20), <1>1, <1>f, <2>1, <2>3, <2>4, <2>5, <2>7
  <2> QED BY ZenonT(20), <2>6, <2>7
<1>6. ASSUME NEW c \in Client, Connects(c) \/ Refused(c) \/ ClientStep(c) \/ Dies(c)
                               \/ \E cmd \in Cmds, k \in Key : Commands(c, cmd, k)
      PROVE  /\ prog'[d].pc = "new" => conn'[d] = "none" /\ up'[d] = <<>> /\ prog'[d].cmd = "info"
             /\ conn'[d] = "none" => prog'[d].pc \in {"new", "done"}
             /\ prog'[d].pc = "args" => HasArgs(prog'[d].cmd)
  <2>1. CASE c # d
    <3>1. prog'[d] = prog[d] /\ conn'[d] = conn[d] /\ up'[d] = up[d]
      BY ZenonT(20), <1>6, <1>f, <2>1 DEF Connects, Refused, ClientStep, ReadsReply, ReadsAnswer,
            SendsArgs, SendsData, Dies, Commands, Goes, Sends, sockets
    <3> QED BY ZenonT(20), <1>t, <3>1
  <2>2. CASE c = d /\ Connects(c)
    BY <1>f, <1>g, <2>2 DEF Connects
  <2>3. CASE c = d /\ Refused(c)
    BY <1>g, <2>3 DEF Refused
  <2>4. CASE c = d /\ Dies(c)
    BY <1>g, <2>4 DEF Dies
  <2>n. conn[d] = "none" => prog[d].pc \notin {"ready", "reply", "answer", "args", "data"}
    BY ZenonT(20), <1>t
  <2>5. CASE c = d /\ ReadsReply(c)
    <3>1. PICK pc \in {"ready", "done", After(prog[d].cmd)} : Goes(d, pc)
      BY ZenonT(20), <2>5 DEF ReadsReply
    <3>2. prog[d].pc = "reply" /\ UNCHANGED conn
      BY ZenonT(20), <2>5 DEF ReadsReply
    <3>3. pc # "new" /\ (pc = "args" => HasArgs(prog[d].cmd))
      BY ZenonT(20), <3>1 DEF After, HasArgs
    <3> QED BY ZenonT(20), <1>g, <2>n, <3>1, <3>2, <3>3
  <2>6. CASE c = d /\ ReadsAnswer(c)
    <3>1. PICK pc \in {"ready", "done", "answer", "spin"} : Goes(d, pc)
      BY ZenonT(20), <2>6 DEF ReadsAnswer
    <3> QED BY ZenonT(20), <1>g, <2>6, <2>n, <3>1 DEF ReadsAnswer
  <2>7. ASSUME NEW k \in Key, c = d, SendsArgs(c, k)
        PROVE  /\ prog'[d].pc \notin {"new", "args"}
               /\ conn'[d] # "none"
    <3>1. HasArgs(prog[d].cmd)
      BY ZenonT(20), <1>t, <2>7 DEF SendsArgs
    <3>2. PICK pc \in {"done", "ready", "answer", "data"} : Goes(d, pc)
      BY ZenonT(20), <2>7, <3>1 DEF SendsArgs, HasArgs
    <3> QED BY ZenonT(20), <1>g, <2>7, <2>n, <3>2 DEF SendsArgs
  <2>8. ASSUME NEW k \in Key, c = d, SendsData(c, k)
        PROVE  /\ prog'[d].pc \notin {"new", "args"}
               /\ conn'[d] # "none"
    <3>2. PICK pc \in {"done", "ready"} : Goes(d, pc)
      BY ZenonT(20), <2>8 DEF SendsData
    <3> QED BY ZenonT(20), <1>g, <2>8, <2>n, <3>2 DEF SendsData
  <2>9. ASSUME NEW cmd \in Cmds, NEW k \in Key, c = d, Commands(c, cmd, k)
        PROVE  /\ prog'[d].pc \notin {"new", "args"}
               /\ conn'[d] # "none"
    <3>1. Goes(d, "done") \/ prog' = [prog EXCEPT ![d] = [pc |-> "reply", cmd |-> cmd]]
      BY ZenonT(20), <2>9 DEF Commands
    <3>2. prog'[d].pc \in {"done", "reply"}
      BY <1>f, <1>g, <3>1
    <3> QED BY ZenonT(20), <2>9, <2>n, <3>2 DEF Commands
  <2> QED BY ZenonT(20), <1>6, <2>1, <2>2, <2>3, <2>4, <2>5, <2>6, <2>7, <2>8, <2>9 DEF ClientStep
<1> QED
  BY ZenonT(20), <1>3, <1>4, <1>5, <1>6 DEF Next, DaemonStep, Quits, Crashes

LEMMA TablesInit == Init => Tables
<1> SUFFICES ASSUME Init PROVE Tables
  BY ZenonT(20)
<1>1. srv \in Srv /\ srv.at = "poll" /\ srv.i = 1 /\ srv.curfd = 1
  BY DEF Init, Server, Srv, Places, Cmds
<1>2. \A c \in Client : prog[c].pc = "new" /\ prog[c].cmd = "info"
  BY ZenonT(20) DEF Init
<1>3. Types
  <2>1. prog \in [Client -> Progs]
    BY ZenonT(20) DEF Init, Progs, Pcs, Cmds
  <2>2. rfds \in Seq(Client \cup {Listener}) /\ backlog \in Seq(Client)
    BY DEF Init
  <2>3. up \in [Client -> Seq(Message)] /\ down \in [Client -> Seq(Told)]
    BY DEF Init
  <2>4. db = {} /\ IsFiniteSet(db) /\ Cardinality(db) \in Nat
    BY FS_EmptySet DEF Init
  <2>5. clients \in [1..MaxClients -> Client \cup {NoOne}]
    BY ZenonT(20) DEF Init, NoClients
  <2>6. expect \in [Client -> [Key -> {"any", "yes", "no"}]]
    BY ZenonT(20) DEF Init
  <2>7. conn \in [Client -> {"none", "queued", "open", "shut"}]
    BY ZenonT(20) DEF Init
  <2> QED BY ZenonT(20), <1>1, <2>1, <2>2, <2>3, <2>4, <2>5, <2>6, <2>7 DEF Types
<1>4. \A i \in 1..MaxClients : clients[i] = NoOne
  BY ZenonT(20) DEF Init, NoClients
<1>5. Aligned
  BY ZenonT(20), <1>1, <1>4 DEF Aligned, Inside, Ahead, From
<1>6. Listed
  BY ZenonT(20), <1>4, NamesAssumption DEF Init, Listed
<1>7. Queued
  BY DEF Init, Queued
<1>8. Connected
  BY ZenonT(20), <1>2 DEF Init, Connected
<1> QED BY ZenonT(20), <1>3, <1>5, <1>6, <1>7, <1>8 DEF Tables

LEMMA TablesStep == Tables /\ [Next]_vars => Tables'
BY ZenonT(20), TypesStep, AlignedStep, ListedStep, QueuedStep, ConnectedStep DEF Tables

LEMMA TablesAlways == Spec => []Tables
BY TablesInit, TablesStep, PTL DEF Spec

\* clients[], rfds[] and the open connections agree, for any number of clients,
\* any size of clients[] and any order in which connections come, close and
\* are lost (the loop of main, sock_accept and sock_close in keyd.c).
THEOREM TablesAreAligned == Spec => []TablesAligned
<1>1. Tables => TablesAligned
  <2> SUFFICES ASSUME Tables PROVE TablesAligned
    OBVIOUS
  <2>t. Types /\ Aligned /\ Listed
    BY ZenonT(20) DEF Tables
  <2>1. ASSUME srv.at = "scan", srv.i <= MaxClients, Serving # NoOne
        PROVE  srv.curfd + 1 \in DOMAIN rfds /\ rfds[srv.curfd + 1] = Serving
    <3>1. srv.i \in 1..MaxClients /\ srv.curfd \in Nat /\ srv.i \in Nat
      BY <2>1, <2>t, SizesAssumption DEF Types, Srv
    <3>2. From(clients, rfds, srv.i, srv.curfd)
      BY ZenonT(20), <2>1, <2>t DEF Aligned, Ahead, Inside
    <3>3. Cardinality(Taken(clients, srv.i, srv.i)) = 1
      <4>1. Taken(clients, srv.i, srv.i) = {srv.i}
        BY <2>1, <3>1 DEF Taken, Serving
      <4> QED BY ZenonT(20), <4>1, FS_Singleton
    <3>4. srv.i \in srv.i..MaxClients
      BY <3>1
    <3>5. srv.curfd + 1 \in 1..Len(rfds) /\ rfds[srv.curfd + 1] = clients[srv.i]
      BY ZenonT(20), <2>1, <3>2, <3>3, <3>4 DEF From, Serving
    <3> QED BY <2>t, <3>5 DEF Serving, Types
  <2>2. ASSUME NEW c \in Client
        PROVE  Cardinality({i \in 1..MaxClients : clients[i] = c}) =
                   (IF conn[c] = "open" THEN 1 ELSE 0)
    <3> DEFINE S == {i \in 1..MaxClients : clients[i] = c}
    <3>1. CASE conn[c] = "open"
      <4>1. PICK i \in 1..MaxClients : clients[i] = c
        BY ZenonT(20), <2>t, <3>1 DEF Listed
      <4>2. S = {i}
        BY ZenonT(20), <2>t, <4>1, NamesAssumption DEF Listed
      <4> QED BY ZenonT(20), <3>1, <4>2, FS_Singleton
    <3>2. CASE conn[c] # "open"
      <4>1. S = {}
        BY ZenonT(20), <2>t, <3>2 DEF Listed
      <4> QED BY ZenonT(20), <3>2, <4>1, FS_EmptySet
    <3> QED BY ZenonT(20), <3>1, <3>2
  <2> QED BY ZenonT(20), <2>1, <2>2 DEF TablesAligned
<1> QED BY <1>1, TablesAlways, PTL

-----------------------------------------------------------------------------
(* The three layers together *)

LEMMA ProtocolAlways == Spec => [](Tables /\ Protocol)
<1>1. Init => Tables /\ Protocol
  BY ZenonT(20), TablesInit, ProtocolInit
<1>2. Tables /\ Protocol /\ [Next]_vars => (Tables /\ Protocol)'
  BY TablesStep, ProtocolStep DEF Tables
<1> QED BY <1>1, <1>2, PTL DEF Spec

\* No client takes the answer to one command for that to another, for any number
\* of clients and commands, although stores and deletes are not acknowledged,
\* clients die and the daemon stops anywhere (sock_do in keyd.c against the
\* functions of keydb_keyd.c).
THEOREM AnswersAlwaysMatch == Spec => []AnswersMatch
<1>1. Tables /\ Protocol => AnswersMatch
  <2> SUFFICES ASSUME Tables, Protocol, NEW c \in Client, NEW j \in DOMAIN down[c],
                      prog[c].pc \in {"reply", "answer"}
               PROVE  down[c][j].cmd = prog[c].cmd
    BY ZenonT(20) DEF AnswersMatch
  <2>1. down[c] \in Seq(Told)
    BY DEF Tables, Types
  <2>2. j \in 1..Len(down[c]) /\ down[c] # <<>>
    BY <2>1
  <2>3. Replies(down[c], prog[c])
    BY ZenonT(20), <2>2 DEF Protocol, Agrees
  <2> QED BY ZenonT(20), <2>2, <2>3 DEF Replies
<1> QED BY <1>1, ProtocolAlways, PTL

LEMMA KeydAlways == Spec => []KeydInv
<1>1. Init => KeydInv
  BY ZenonT(20), TablesInit, ProtocolInit, WritesInit DEF KeydInv
<1>2. KeydInv /\ [Next]_vars => KeydInv'
  <2> SUFFICES ASSUME KeydInv, [Next]_vars PROVE KeydInv'
    OBVIOUS
  <2>1. Tables'
    BY ZenonT(20), TablesStep DEF KeydInv
  <2>2. Protocol'
    BY ZenonT(20), <2>1, ProtocolStep DEF KeydInv, Tables
  <2> QED BY ZenonT(20), <2>1, <2>2, WritesStep DEF KeydInv
<1> QED BY <1>1, <1>2, PTL DEF Spec

\* A lookup sees what its own client has stored or deleted before, unless
\* somebody else has changed it since: the daemon reads the key and the delete
\* that the client did not wait for before it reads the lookup (sock_do in
\* keyd.c, keyd_store_key and keyd_delete_key in keydb_keyd.c).
THEOREM ClientsReadTheirWrites == Spec => []ReadsOwnWrites
<1>1. KeydInv => ReadsOwnWrites
  <2> SUFFICES ASSUME KeydInv, srv.at = "args", srv.cmd = "get", up[Serving] # <<>>
               PROVE  /\ expect[Serving][Head(up[Serving]).key] = "yes" =>
                              Head(up[Serving]).key \in db
                      /\ expect[Serving][Head(up[Serving]).key] = "no" =>
                              Head(up[Serving]).key \notin db
    BY ZenonT(20) DEF ReadsOwnWrites
  <2> DEFINE c == Serving
             k == Head(up[Serving]).key
  <2>1. Tables /\ Protocol /\ Types
    BY ZenonT(20) DEF KeydInv, Tables
  <2>2. c \in Client
    BY ZenonT(20), <2>1, ServingClient DEF Inside
  <2>3. k \in Key /\ up[c] \in Seq(Message)
    BY ZenonT(20), <2>1, <2>2, FirstMessage DEF Types
  <2>4. Awaits(c) = "args"
    BY ZenonT(20) DEF Awaits, Serving
  <2> HIDE DEF c, k
  <2>5. Agrees(conn[c], up[c], down[c], prog[c], "args", "get")
    BY ZenonT(20), <2>1, <2>2, <2>4 DEF Protocol
  <2>6. Shape(up[c], <<"args">>)
    BY ZenonT(20), <2>5 DEF Agrees, Due
  <2>7. ~Carries(up[c], k)
    BY <2>3, <2>6 DEF Shape, Carries
  <2>8. ~Deleting(c, k)
    BY DEF Deleting
  <2> QED BY ZenonT(20), <2>2, <2>3, <2>7, <2>8 DEF KeydInv, Writes, c, k
<1> QED BY <1>1, KeydAlways, PTL

=============================================================================
