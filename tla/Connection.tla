----------------------------- MODULE Connection -----------------------------
(***************************************************************************)
(* What the worker promises everybody who looks at g_client_fd (the RTS    *)
(* threads, the control thread, a main thread that waits) and the clients: *)
(* one connection at a time is served, none before the RTS is ready, each  *)
(* at most once, and only the one that is served is sent anything.         *)
(***************************************************************************)
EXTENDS Integers

CONSTANTS Conn, NoConn

VARIABLES
  conn,   \* the connection that is served
  ready,  \* the RTS is ready
  fresh,  \* the connections that may still be served
  got     \* bytes sent to a connection

vars == <<conn, ready, fresh, got>>

Init == conn = NoConn /\ ready = FALSE /\ fresh = Conn /\ got = [c \in Conn |-> 0]

BecomeReady == ready' = TRUE /\ UNCHANGED <<conn, fresh, got>>

Serve(c) ==
  /\ ready /\ conn = NoConn
  /\ conn' = c /\ fresh' = fresh \ {c}
  /\ UNCHANGED <<ready, got>>

\* A client that left before it was accepted.
Refuse(c) == fresh' = fresh \ {c} /\ UNCHANGED <<conn, ready, got>>

Transfer ==
  /\ conn # NoConn
  /\ got'[conn] > got[conn] /\ got' = [got EXCEPT ![conn] = got'[conn]]
  /\ UNCHANGED <<conn, ready, fresh>>

Drop == conn' = NoConn /\ UNCHANGED <<ready, fresh, got>>

Next ==
  \/ BecomeReady
  \/ \E c \in fresh : Serve(c) \/ Refuse(c)
  \/ Transfer
  \/ Drop

Spec == Init /\ [][Next]_vars
=============================================================================
