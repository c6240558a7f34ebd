--------------------------- MODULE MCConnections ----------------------------
(* A finite instance of Connections. *)
EXTENDS Connections, TLC

CONSTANTS f1, f2

\* The second frame, with which the outbox overflows, is out only while the
\* device has made a single socket.
Scope == frame[f2] = "idle" \/ opener[2] = "none"
=============================================================================
