---------------------------- MODULE SocketService ----------------------------
(***************************************************************************)
(* The service the socket system calls were made for: the user programs    *)
(* test/echoclient.c and test/fileclient.c, the host's sockets/client.c,   *)
(* and the three servers that send a message back in capitals:             *)
(* sockets/server.c and test/server.c, which serve one connection after    *)
(* the other, and test/server3.c, which watches all of them with select.   *)
(*                                                                         *)
(* A connection <<c, i>> is the socket number i of client c.  TCP carries  *)
(* bytes in order and delivers any number of them at a time.  A byte is    *)
(* its connection, its place in the message and whether it is in capitals. *)
(* Any client may be killed at any time.                                   *)
(***************************************************************************)
EXTENDS Integers, Sequences, FiniteSets

CONSTANTS EchoClients,  \* run test/echoclient.c
          FileClients,  \* run test/fileclient.c
          HostClients,  \* run sockets/client.c
          PortOf(_),    \* the port compiled into a client's program
          NumSocket,    \* sockets an echo client opens
          MsgLen,       \* length of a message or file; one byte less than sent
          MaxClients,   \* size of client_socket in server3.c
          NoConn        \* no connection

Clients == EchoClients \cup FileClients \cup HostClients
Conns == (EchoClients \X (1 .. NumSocket)) \cup ((FileClients \cup HostClients) \X {1})

ASSUME ServiceAssumption ==
  /\ {NumSocket, MsgLen, MaxClients} \subseteq Nat \ {0}
  /\ NoConn \notin Conns

Servers == {"sockets/server.c", "test/server.c", "test/server3.c"}

VARIABLES
  server,   \* the server program that was started
  alive,    \* it is running
  cur,      \* the connection a one-by-one server has accepted
  table,    \* client_socket of server3.c
  buf,      \* the server's buffer
  backlog,  \* connections that are not yet accepted
  up, down, \* bytes on the way to the server and to the client
  cend,     \* the client's end of a connection: "none", "open", "closed"
  send,     \* the server's end: "none", "open", "closed"
  reset,    \* connections that an end with unread bytes has closed
  pc,       \* "connect", "send", "recv", "done" and "killed" of each client
  round,    \* the socket a client is using
  content   \* the client's buffer for each connection

tcp == <<up, down, cend, send, reset, backlog>>
clientVars == <<pc, round, content>>
serverVars == <<server, alive, cur, table, buf>>
serviceVars == <<tcp, clientVars, serverVars>>

Bytes == (Conns \cup {NoConn}) \X Nat \X BOOLEAN
NUL == <<NoConn, 0, FALSE>>
Byte(k, j) == <<k, j, FALSE>>
toupper(b) == IF b = NUL THEN NUL ELSE <<b[1], b[2], TRUE>>

\* What is sent always has one size: the text and a last byte.
Text(k, last) == Append([j \in 1 .. MsgLen |-> Byte(k, j)], last)

\* The server's buffer is longer than anything sent.
BufLen == MsgLen + 2
Blank == [j \in 1 .. BufLen |-> NUL]

\* recv and Read put what has arrived at the beginning of the buffer.
Overwrite(b, s) == [j \in DOMAIN b |-> IF j <= Len(s) THEN s[j] ELSE b[j]]

\* strlen.
StrLen(b) == CHOOSE n \in 0 .. Len(b) :
               /\ \A j \in 1 .. n : b[j] # NUL
               /\ n < Len(b) => b[n + 1] = NUL
Reply(b) == [j \in 1 .. StrLen(b) |-> toupper(b[j])]

\* The port as it is put into sin_port: only the servers of test/ convert
\* theirs, 5000, to network byte order; neither the kernel's ConnectTCP nor
\* the clients do.
ListensOn == IF server = "sockets/server.c" THEN 1234 ELSE 34835

\* listen.
Backlog == CASE server = "sockets/server.c" -> 5
             [] server = "test/server.c" -> 1
             [] server = "test/server3.c" -> 3

ServiceInit ==
  /\ server \in Servers
  /\ alive = TRUE /\ cur = NoConn /\ table = {} /\ buf = Blank
  /\ backlog = <<>> /\ reset = {}
  /\ up = [k \in Conns |-> <<>>] /\ down = [k \in Conns |-> <<>>]
  /\ cend = [k \in Conns |-> "none"] /\ send = [k \in Conns |-> "none"]
  /\ pc = [c \in Clients |-> "connect"]
  /\ round = [c \in Clients |-> 1]
  \* What follows the file in the buffer of fileclient.c was never set.
  /\ \E unset \in SUBSET (FileClients \X {1}) :
       content = [k \in Conns |-> Text(k, IF k \in unset THEN Byte(k, MsgLen + 1) ELSE NUL)]

-----------------------------------------------------------------------------
(* Clients *)

Cur(c) == <<c, round[c]>>
Sockets(c) == {k \in Conns : k[1] = c /\ cend[k] = "open"}

\* SocketTCP and Connect; connect waits for a place in the backlog.
Connect(c) ==
  /\ pc[c] = "connect"
  /\ alive /\ PortOf(c) = ListensOn /\ Len(backlog) < Backlog
  /\ backlog' = Append(backlog, Cur(c))
  /\ cend' = [cend EXCEPT ![Cur(c)] = "open"]
  /\ pc' = [pc EXCEPT ![c] = "send"]
  /\ UNCHANGED <<up, down, send, reset, round, content, serverVars>>

\* Nobody listens: the user programs go on; the host's client does not look at
\* the result and is killed by its send.
ConnectFails(c) ==
  /\ pc[c] = "connect"
  /\ ~alive \/ PortOf(c) # ListensOn
  /\ pc' = [pc EXCEPT ![c] = IF c \in HostClients THEN "killed" ELSE "next"]
  /\ UNCHANGED <<tcp, round, content, serverVars>>

\* Write of the whole buffer to the socket.
Write(c) ==
  /\ pc[c] = "send" /\ Cur(c) \notin reset
  /\ up' = [up EXCEPT ![Cur(c)] = @ \o content[Cur(c)]]
  /\ pc' = [pc EXCEPT ![c] = "recv"]
  /\ UNCHANGED <<down, cend, send, reset, backlog, round, content, serverVars>>

\* The server died meanwhile.
WriteFails(c) ==
  /\ pc[c] = "send" /\ Cur(c) \in reset
  /\ pc' = [pc EXCEPT ![c] = "next"]
  /\ UNCHANGED <<tcp, round, content, serverVars>>

\* One Read from the socket, of as much as has arrived; fileclient.c then
\* writes the whole length of the file from its buffer.
Read(c) ==
  LET k == Cur(c)
  IN  /\ pc[c] = "recv" /\ down[k] # <<>>
      /\ \E n \in 1 .. Len(down[k]) :
           /\ content' = [content EXCEPT ![k] = Overwrite(@, SubSeq(down[k], 1, n))]
           /\ down' = [down EXCEPT ![k] = SubSeq(@, n + 1, Len(@))]
      /\ pc' = [pc EXCEPT ![c] = "next"]
      /\ UNCHANGED <<up, cend, send, reset, backlog, round, serverVars>>

\* The end of the connection, or an error.
ReadFails(c) ==
  LET k == Cur(c)
  IN  /\ pc[c] = "recv" /\ down[k] = <<>>
      /\ k \in reset \/ send[k] = "closed"
      /\ pc' = [pc EXCEPT ![c] = "next"]
      /\ UNCHANGED <<tcp, round, content, serverVars>>

\* Closing a socket tells the server, and resets it if bytes are unread.
CloseAll(c) ==
  /\ cend' = [k \in Conns |-> IF k \in Sockets(c) THEN "closed" ELSE cend[k]]
  /\ reset' = reset \cup {k \in Sockets(c) : down[k] # <<>>}
  /\ down' = [k \in Conns |-> IF k[1] = c THEN <<>> ELSE down[k]]
  /\ UNCHANGED <<up, send, backlog, content, serverVars>>

\* The next turn of the loop in echoclient.c.
NextTurn(c) ==
  /\ pc[c] = "next" /\ c \in EchoClients /\ round[c] < NumSocket
  /\ pc' = [pc EXCEPT ![c] = "connect"]
  /\ round' = [round EXCEPT ![c] = @ + 1]
  /\ UNCHANGED <<tcp, content, serverVars>>

\* The sockets are closed only at the end.
Finish(c) ==
  /\ pc[c] = "next" /\ (c \in EchoClients => round[c] = NumSocket)
  /\ pc' = [pc EXCEPT ![c] = "done"]
  /\ CloseAll(c)
  /\ UNCHANGED round

\* The client's process is killed.
Killed(c) ==
  /\ pc[c] \notin {"done", "killed"}
  /\ pc' = [pc EXCEPT ![c] = "killed"]
  /\ CloseAll(c)
  /\ UNCHANGED round

-----------------------------------------------------------------------------
(* The servers that take one connection after the other *)

OneByOne == server # "test/server3.c"

\* accept.
Accept ==
  /\ OneByOne /\ cur = NoConn /\ backlog # <<>>
  /\ cur' = Head(backlog)
  /\ backlog' = Tail(backlog)
  /\ send' = [send EXCEPT ![Head(backlog)] = "open"]
  /\ UNCHANGED <<up, down, cend, reset, clientVars, server, alive, table, buf>>

\* send to a client whose end is closed is lost.
Deliver(k, s) ==
  down' = [down EXCEPT ![k] = IF cend[k] = "open" THEN @ \o s ELSE @]

\* Mutant of Left: no server clears its buffer.
LeftAll(b) == b

\* What is left in the buffer for the next message: sockets/server.c clears
\* it, server3.c ends the string where the message ends, but test/server.c
\* receives over what the last client left and takes all of it for the message.
Left(b) == IF server = "test/server.c" THEN b ELSE Blank

\* The server answers what is in its buffer b and closes the connection; bytes
\* it has not read reset it.
AnswerAndClose(b, rest) ==
  /\ Deliver(cur, Reply(b))
  /\ buf' = Left(b)
  /\ up' = [up EXCEPT ![cur] = <<>>]
  /\ send' = [send EXCEPT ![cur] = "closed"]
  /\ reset' = IF rest = <<>> THEN reset ELSE reset \cup {cur}
  /\ cur' = NoConn
  /\ UNCHANGED <<cend, backlog, clientVars, server, alive, table>>

\* recv returns when something has arrived.
ServeOne ==
  /\ OneByOne /\ cur # NoConn /\ up[cur] # <<>>
  /\ \E n \in 1 .. Len(up[cur]) :
       AnswerAndClose(Overwrite(buf, SubSeq(up[cur], 1, n)),
                      SubSeq(up[cur], n + 1, Len(up[cur])))

\* Mutant of ServeNobody: after recv has returned zero the server waits for
\* more.
ServeNobodyWaits ==
  /\ OneByOne /\ cur # NoConn /\ up[cur] = <<>> /\ cend[cur] = "closed"
  /\ UNCHANGED serviceVars

\* The client closed without a word: recv returns zero, and the server answers
\* what is in its buffer.
ServeNobody ==
  /\ OneByOne /\ cur # NoConn /\ up[cur] = <<>> /\ cend[cur] = "closed"
  /\ AnswerAndClose(buf, <<>>)

-----------------------------------------------------------------------------
(* The server that selects *)

\* The new connection is put into a free place of client_socket; if there is
\* none nobody will look at it again.
AcceptNew ==
  /\ ~OneByOne /\ alive /\ backlog # <<>>
  /\ backlog' = Tail(backlog)
  /\ send' = [send EXCEPT ![Head(backlog)] = "open"]
  /\ table' = IF Cardinality(table) < MaxClients THEN table \cup {Head(backlog)} ELSE table
  /\ UNCHANGED <<up, down, cend, reset, clientVars, server, alive, cur, buf>>

\* select reports a socket of the table when something can be read from it, its
\* end or an error included.
Ready(k) ==
  /\ ~OneByOne /\ alive /\ k \in table
  /\ up[k] # <<>> \/ cend[k] = "closed" \/ k \in reset

\* read and send on a socket that select has reported.  A client that is gone
\* answers with a reset, which may come before the rest has been read.
Serve(k) ==
  /\ Ready(k) /\ up[k] # <<>> /\ k \notin reset
  /\ \E n \in 1 .. Len(up[k]) :
       /\ up' = [up EXCEPT ![k] = SubSeq(@, n + 1, Len(@))]
       /\ Deliver(k, Reply(Overwrite(buf, Append(SubSeq(up[k], 1, n), NUL))))
       /\ reset' \in {reset} \cup
                      (IF cend[k] = "closed" /\ n < Len(up[k]) THEN {reset \cup {k}} ELSE {})
  /\ UNCHANGED <<cend, send, backlog, clientVars, server, alive, cur, table, buf>>

\* read returns zero.
Disconnected(k) ==
  /\ Ready(k) /\ up[k] = <<>> /\ k \notin reset
  /\ table' = table \ {k}
  /\ send' = [send EXCEPT ![k] = "closed"]
  /\ UNCHANGED <<up, down, cend, reset, backlog, clientVars, server, alive, cur, buf>>

\* read fails and the server takes -1 for a length, or it still reads the rest:
\* it sends what it has, and the signal of a send to a connection that is gone
\* kills it.
Broken(k) ==
  /\ Ready(k) /\ k \in reset
  /\ alive' = FALSE
  /\ reset' = reset \cup {j \in Conns : cend[j] = "open"}
  /\ send' = [j \in Conns |-> IF send[j] = "open" THEN "closed" ELSE send[j]]
  /\ backlog' = <<>> /\ table' = {}
  /\ up' = [j \in Conns |-> <<>>]
  /\ UNCHANGED <<down, cend, clientVars, server, cur, buf>>

-----------------------------------------------------------------------------

ClientStep(c) ==
  \/ Connect(c) \/ ConnectFails(c) \/ Write(c) \/ WriteFails(c)
  \/ Read(c) \/ ReadFails(c) \/ NextTurn(c) \/ Finish(c)

ServiceNext ==
  \/ \E c \in Clients : ClientStep(c) \/ Killed(c)
  \/ Accept \/ ServeOne \/ ServeNobody \/ AcceptNew
  \/ \E k \in Conns : Serve(k) \/ Disconnected(k) \/ Broken(k)

\* The host runs the programs, and select reports every socket that is ready.
Fairness ==
  /\ \A c \in Clients : WF_serviceVars(ClientStep(c))
  /\ WF_serviceVars(Accept) /\ WF_serviceVars(ServeOne \/ ServeNobody) /\ WF_serviceVars(AcceptNew)
  /\ \A k \in Conns : WF_serviceVars(Serve(k) \/ Disconnected(k) \/ Broken(k))

ServiceSpec == ServiceInit /\ [][ServiceNext]_serviceVars /\ Fairness

-----------------------------------------------------------------------------
(* Properties. *)

ServiceTypeOK ==
  /\ server \in Servers /\ alive \in BOOLEAN
  /\ cur \in Conns \cup {NoConn} /\ table \in SUBSET Conns /\ reset \in SUBSET Conns
  /\ Cardinality(table) <= MaxClients
  /\ buf \in [1 .. BufLen -> Bytes] /\ backlog \in Seq(Conns)
  /\ up \in [Conns -> Seq(Bytes)] /\ down \in [Conns -> Seq(Bytes)]
  /\ content \in [Conns -> [1 .. MsgLen + 1 -> Bytes]]
  /\ round \in [Clients -> 1 .. NumSocket] /\ \A c \in Clients \ EchoClients : round[c] = 1
  /\ cend \in [Conns -> {"none", "open", "closed"}]
  /\ send \in [Conns -> {"none", "open", "closed"}]
  /\ pc \in [Clients -> {"connect", "send", "recv", "next", "done", "killed"}]

\* What a client shows, and what fileclient.c writes into its file, is at every
\* place its own byte, in capitals or not: never a byte of another client and
\* never out of place, however TCP splits message and answer.  test/server.c is
\* left out: it takes what the last client left in its buffer for a part of the
\* message unless the end of the string has arrived with it.
OwnReply ==
  server # "test/server.c" =>
    \A k \in Conns, j \in 1 .. MsgLen :
      content[k][j] \in {Byte(k, j), toupper(Byte(k, j))}

\* A client whose connection was accepted when the table of server3.c was full.
Leaked(c) ==
  \E k \in Sockets(c) : ~OneByOne /\ alive /\ send[k] = "open" /\ k \notin table

\* Every client comes to its end although others are killed with their
\* connection open or not yet accepted, and although server3.c is killed by a
\* connection that was reset, unless the table of server3.c was full.
EveryClientEnds ==
  \A c \in Clients : <>(pc[c] \in {"done", "killed"} \/ Leaked(c))
=============================================================================
