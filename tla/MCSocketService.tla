--------------------------- MODULE MCSocketService ---------------------------
(* SocketService for TLC: an echo client with two sockets, a file client and  *)
(* two clients of the host, which overfill the table of server3.c.            *)
EXTENDS SocketService

CONSTANTS e, f, h1, h2

\* The sources have 1234, the port of sockets/server.c; the host's clients are
\* compiled for the servers of test/.
MCPortOf(c) == IF c \in {h1, h2} THEN 34835 ELSE 1234
=============================================================================
