------------------------------ MODULE Control ------------------------------
(***************************************************************************)
(* The control thread (es_control_loop): it waits for the RTS, follows the *)
(* connection that the worker publishes, polls it, reads chunks and feeds  *)
(* them to the command parser.  The descriptor it polls and reads is a     *)
(* copy taken under g_mutex and used after the mutex was released.         *)
(*                                                                         *)
(* Descriptors are numbers and the kernel hands out the lowest free one.   *)
(* A message is two pieces of input, 2 * m - 1 and 2 * m, which stand for  *)
(* its bytes before and after the place where it happens to be cut.  The   *)
(* worker is reduced to its steps on the connection (accept, publish,      *)
(* reset, see that there is none); module EventlogSocket has the others.   *)
(***************************************************************************)
EXTENDS Integers

CONSTANTS
  Conn,        \* connections; a client that comes back is another element
  NoConn,
  Fd,          \* descriptor numbers for connections
  MaxMessages, \* bound on the messages of a client
  MaxChunk,    \* CHUNK_SIZE, in pieces
  MaxStops     \* bound on the calls of writer_stop while connected

NoFd == -1

ASSUME ConnAssumption  == NoConn \notin Conn
ASSUME FdAssumption    == Fd \subseteq Nat
ASSUME BoundAssumption == MaxMessages \in Nat /\ MaxChunk \in Nat \ {0} /\ MaxStops \in Nat

VARIABLES
  (* shared, guarded by g_mutex *)
  clientFd,  \* g_client_fd of eventlog_socket.c
  ready,     \* EVENTLOG_SOCKET_SIG_RTS_READY
  (* control thread *)
  cpc,
  cfd,       \* g_client_fd of control.c
  polled,    \* the connection that poll() waits for
  chunk,     \* the pieces next..last of conn that are being parsed
  hold,      \* what the parser holds: the first piece of a message, or nothing
  (* worker, kernel and clients *)
  wpc,       \* listen, accepted or serve
  wconn,     \* the connection that the worker accepted
  file,      \* the connection behind an open descriptor
  peer,      \* idle, up, fin (EOF after the input), gone (POLLHUP)
  sent, read,\* pieces sent by the client, and received by recv()
  stops,
  (* auxiliary *)
  fdOf,      \* the descriptor number a connection got
  handled    \* calls of es_control_command_handle: the pieces of the message

shared  == <<clientFd, ready>>
control == <<cpc, cfd, polled, chunk, hold>>
kernel  == <<wpc, wconn, file, peer, sent, read, stops, fdOf>>
vars    == <<shared, control, kernel, handled>>

Nothing == [conn |-> NoConn, piece |-> 0]
NoChunk == [conn |-> NoConn, next |-> 1, last |-> 0]

Init ==
  /\ clientFd = NoFd /\ ready = FALSE
  /\ cpc = "waitrts" /\ cfd = NoFd /\ polled = NoConn /\ chunk = NoChunk /\ hold = Nothing
  /\ wpc = "listen" /\ wconn = NoConn
  /\ file = [f \in Fd |-> NoConn]
  /\ peer = [c \in Conn |-> "idle"]
  /\ sent = [c \in Conn |-> 0] /\ read = [c \in Conn |-> 0]
  /\ stops = 0
  /\ fdOf = [c \in Conn |-> NoFd]
  /\ handled = {}

-----------------------------------------------------------------------------
(* Control thread *)

\* es_control_wait_ghc_rts_ready: one check under the mutex, then go on or sleep.
es_control_wait_ghc_rts_ready ==
  /\ cpc = "waitrts"
  /\ cpc' = IF ready THEN "wake" ELSE "rtscond"
  /\ UNCHANGED <<shared, cfd, polled, chunk, hold, kernel, handled>>

\* Variant: the parser state survives a change of the connection.
es_control_fd_reset_to_KeepParser(fd) ==
  /\ cfd' = fd
  /\ UNCHANGED hold

es_control_fd_reset_to(fd) ==
  /\ cfd' = fd
  /\ hold' = Nothing

\* Variant: without a connection before, the thread waits for the next one to be
\* announced, also if there is one by now.
WakeUp_AlwaysWait ==
  /\ cpc = "wake"
  /\ IF cfd # clientFd THEN es_control_fd_reset_to(clientFd) ELSE UNCHANGED <<cfd, hold>>
  /\ cpc' = IF cfd = NoFd \/ clientFd = NoFd THEN "conncond" ELSE "poll"
  /\ UNCHANGED <<shared, polled, chunk, kernel, handled>>

\* Variant: the parser is reset in every iteration.
WakeUp_AlwaysReset ==
  /\ cpc = "wake"
  /\ es_control_fd_reset_to(clientFd)
  /\ cpc' = IF clientFd = NoFd THEN "conncond" ELSE "poll"
  /\ UNCHANGED <<shared, polled, chunk, kernel, handled>>

\* The start of an iteration, under the mutex: the parser is reset if the
\* connection changed, and without a connection the thread sleeps on
\* g_new_connection_cond.
WakeUp ==
  /\ cpc = "wake"
  /\ IF cfd # clientFd THEN es_control_fd_reset_to(clientFd) ELSE UNCHANGED <<cfd, hold>>
  /\ cpc' = IF clientFd = NoFd THEN "conncond" ELSE "poll"
  /\ UNCHANGED <<shared, polled, chunk, kernel, handled>>

\* The call of poll(): POLLNVAL if the descriptor was closed meanwhile.  One that
\* is closed later does not end the poll.
PollCall ==
  /\ cpc = "poll"
  /\ polled' = file[cfd]
  /\ cpc' = IF file[cfd] = NoConn THEN "wake" ELSE "polling"
  /\ UNCHANGED <<shared, cfd, chunk, hold, kernel, handled>>

Pending(c) == read[c] < sent[c]

PollTimeout ==
  /\ cpc = "polling"
  /\ peer[polled] = "up" /\ ~Pending(polled)
  /\ cpc' = "wake"
  /\ UNCHANGED <<shared, cfd, polled, chunk, hold, kernel, handled>>

\* POLLHUP is tested before POLLIN: pending input is not looked at.
PollHup ==
  /\ cpc = "polling"
  /\ peer[polled] = "gone"
  /\ cpc' = "wake"
  /\ UNCHANGED <<shared, cfd, polled, chunk, hold, kernel, handled>>

PollIn ==
  /\ cpc = "polling"
  /\ peer[polled] # "gone"
  /\ Pending(polled) \/ peer[polled] = "fin"
  /\ cpc' = "recv"
  /\ UNCHANGED <<shared, cfd, polled, chunk, hold, kernel, handled>>

\* recv() from whatever the descriptor is now: an error (it was closed, or the
\* connection was reset), nothing (EAGAIN, end of file), or 1..MaxChunk pieces.
RecvNothing ==
  /\ cpc = "recv"
  /\ LET c == file[cfd] IN c # NoConn => ~Pending(c) \/ peer[c] = "gone"
  /\ cpc' = "wake"
  /\ UNCHANGED <<shared, cfd, polled, chunk, hold, kernel, handled>>

RecvChunk(n) ==
  /\ cpc = "recv"
  /\ LET c == file[cfd]
     IN  /\ c # NoConn /\ n <= sent[c] - read[c]
         /\ chunk' = [conn |-> c, next |-> read[c] + 1, last |-> read[c] + n]
         /\ read' = [read EXCEPT ![c] = @ + n]
  /\ cpc' = "chunk"
  /\ UNCHANGED <<shared, cfd, polled, hold, wpc, wconn, file, peer, sent, stops, fdOf, handled>>

\* es_control_command_parser_handle_chunk, one piece at a time.  What a piece of
\* another connection does to a message that was begun depends on the bytes: it is
\* taken for the rest of it, or makes the parser start again.
Start(p) == p % 2 = 1

Complete(tok) ==
  /\ handled' = handled \cup {[start |-> hold, rest |-> tok]}
  /\ hold' = Nothing

HandlePiece ==
  /\ cpc = "chunk"
  /\ LET tok == [conn |-> chunk.conn, piece |-> chunk.next]
     IN  \/ hold # Nothing /\ Complete(tok)
         \/ Start(tok.piece) /\ hold' = tok /\ UNCHANGED handled
         \/ /\ ~Start(tok.piece) /\ hold.conn # tok.conn
            /\ hold' = Nothing /\ UNCHANGED handled
  /\ chunk' = [chunk EXCEPT !.next = @ + 1]
  /\ cpc' = IF chunk.next = chunk.last THEN "wake" ELSE "chunk"
  /\ UNCHANGED <<shared, cfd, polled, kernel>>

-----------------------------------------------------------------------------
(* Main thread, worker and RTS: what they do to the connection *)

eventlog_socket_signal_ghc_rts_ready ==
  /\ ~ready
  /\ ready' = TRUE
  /\ cpc' = IF cpc = "rtscond" THEN "waitrts" ELSE cpc
  /\ UNCHANGED <<clientFd, cfd, polled, chunk, hold, kernel, handled>>

LowestFree(f) == file[f] = NoConn /\ \A g \in Fd : file[g] = NoConn => f <= g

\* accept() in es_worker_step_listen, also before the RTS is ready.
Accept(c, f) ==
  /\ wpc = "listen"
  /\ peer[c] # "idle" /\ fdOf[c] = NoFd
  /\ LowestFree(f)
  /\ file' = [file EXCEPT ![f] = c] /\ fdOf' = [fdOf EXCEPT ![c] = f]
  /\ wconn' = c /\ wpc' = "accepted"
  /\ UNCHANGED <<shared, control, peer, sent, read, stops, handled>>

\* After es_worker_wait_rts_ready: g_client_fd is set and g_new_connection_cond broadcast.
Publish ==
  /\ wpc = "accepted" /\ ready
  /\ clientFd' = fdOf[wconn]
  /\ cpc' = IF cpc = "conncond" THEN "wake" ELSE cpc
  /\ wpc' = "serve"
  /\ UNCHANGED <<ready, cfd, polled, chunk, hold, wconn, file, peer, sent, read, stops, fdOf,
                 handled>>

\* The worker notices the hang-up; it does not close the descriptor.
Reset ==
  /\ wpc = "serve" /\ peer[wconn] = "gone"
  /\ clientFd' = NoFd
  /\ wpc' = "listen" /\ wconn' = NoConn
  /\ UNCHANGED <<ready, control, file, peer, sent, read, stops, fdOf, handled>>

\* writer_stop: the RTS ends event logging.
writer_stop ==
  /\ clientFd # NoFd /\ stops < MaxStops
  /\ stops' = stops + 1
  /\ file' = [file EXCEPT ![clientFd] = NoConn]
  /\ clientFd' = NoFd
  /\ UNCHANGED <<ready, control, wpc, wconn, peer, sent, read, fdOf, handled>>

\* The worker finds that there is no connection any more.
Snapshot ==
  /\ wpc = "serve" /\ clientFd = NoFd
  /\ wpc' = "listen" /\ wconn' = NoConn
  /\ UNCHANGED <<shared, control, file, peer, sent, read, stops, fdOf, handled>>

-----------------------------------------------------------------------------
(* Clients *)

SetPeer(c, from, to) ==
  /\ peer[c] \in from
  /\ peer' = [peer EXCEPT ![c] = to]
  /\ UNCHANGED <<shared, control, wpc, wconn, file, sent, read, stops, fdOf, handled>>

Connect(c)   == SetPeer(c, {"idle"}, "up")
HalfClose(c) == SetPeer(c, {"up"}, "fin")
HangUp(c)    == SetPeer(c, {"up", "fin"}, "gone")

Send(c) ==
  /\ peer[c] = "up" /\ sent[c] < 2 * MaxMessages
  /\ sent' = [sent EXCEPT ![c] = @ + 1]
  /\ UNCHANGED <<shared, control, wpc, wconn, file, peer, read, stops, fdOf, handled>>

-----------------------------------------------------------------------------
ControlStep ==
  \/ es_control_wait_ghc_rts_ready \/ WakeUp
  \/ PollCall \/ PollTimeout \/ PollHup \/ PollIn
  \/ RecvNothing \/ \E n \in 1..MaxChunk : RecvChunk(n)
  \/ HandlePiece

WorkerStep == (\E c \in Conn, f \in Fd : Accept(c, f)) \/ Publish \/ Reset \/ Snapshot

Next ==
  \/ ControlStep
  \/ eventlog_socket_signal_ghc_rts_ready
  \/ WorkerStep
  \/ writer_stop
  \/ \E c \in Conn : Connect(c) \/ HalfClose(c) \/ HangUp(c) \/ Send(c)

Spec == Init /\ [][Next]_vars

\* The control thread runs; nothing else has to happen.
FairSpec == Spec /\ WF_vars(ControlStep) /\ WF_vars(eventlog_socket_signal_ghc_rts_ready)

-----------------------------------------------------------------------------
(* Properties *)

Piece == [conn : Conn, piece : Nat]

TypeOK ==
  /\ clientFd \in Fd \cup {NoFd} /\ ready \in BOOLEAN
  /\ cpc \in {"waitrts", "rtscond", "wake", "conncond", "poll", "polling", "recv", "chunk"}
  /\ cfd \in Fd \cup {NoFd} /\ polled \in Conn \cup {NoConn}
  /\ chunk \in [conn : Conn \cup {NoConn}, next : Nat, last : Nat]
  /\ hold \in Piece \cup {Nothing}
  /\ wpc \in {"listen", "accepted", "serve"}
  /\ wconn \in Conn \cup {NoConn} /\ file \in [Fd -> Conn \cup {NoConn}]
  /\ peer \in [Conn -> {"idle", "up", "fin", "gone"}]
  /\ sent \in [Conn -> Nat] /\ read \in [Conn -> Nat]
  /\ stops \in Nat /\ fdOf \in [Conn -> Fd \cup {NoFd}]
  /\ handled \subseteq [start : Piece, rest : Piece]
  \* The thread sleeps on a condition only while what it waits for has not happened,
  \* poll() and recv() are never called with -1, a chunk in hand is not empty and
  \* was received, and nobody received more than was sent.
  /\ cpc = "rtscond" => ~ready
  /\ cpc = "conncond" => clientFd = NoFd
  /\ cpc \in {"poll", "polling", "recv"} => cfd # NoFd
  /\ cpc = "chunk" => chunk.conn \in Conn /\ chunk.next <= chunk.last
                      /\ chunk.last = read[chunk.conn]
  /\ \A c \in Conn : read[c] <= sent[c]

\* A command is made of the bytes of one message of one connection.  Pieces of two
\* connections meet in the parser only if the second one got the descriptor number
\* of the first.
MixedOnlyByReuse ==
  \A h \in handled :
    IF h.start.conn = h.rest.conn THEN h.rest.piece = h.start.piece + 1 /\ Start(h.start.piece)
    ELSE fdOf[h.start.conn] = fdOf[h.rest.conn]

\* No command is put together from the bytes of two clients as long as event logging
\* is not ended: a hang-up leaves the descriptor open, so its number stays taken.
NoMixingWithoutStop == stops = 0 => \A h \in handled : h.start.conn = h.rest.conn

\* Message m of connection c was handled.
Handled(c, m) ==
  [start |-> [conn |-> c, piece |-> 2 * m - 1], rest |-> [conn |-> c, piece |-> 2 * m]] \in handled

\* Pieces of connection c that the parser has seen.
Parsed(c) == IF cpc = "chunk" /\ chunk.conn = c THEN chunk.next - 1 ELSE read[c]

\* Every message that recv() returned in full is handled once its last piece was
\* parsed, however it was cut into chunks, what came between the chunks, and also if
\* the client hung up since, as long as event logging is not ended.
ReceivedHandled ==
  stops = 0 => \A c \in Conn : \A m \in 1..MaxMessages : 2 * m <= Parsed(c) => Handled(c, m)

Serving(c) == clientFd # NoFd /\ file[clientFd] = c

\* Every message of a client that stays, or that only ends its own side, is handled
\* as long as its connection is the published one, if event logging is not ended.
CommandsHandled ==
  \A c \in Conn : \A m \in 1..MaxMessages :
    Serving(c) /\ sent[c] >= 2 * m
      ~> Handled(c, m) \/ ~Serving(c) \/ peer[c] = "gone" \/ stops > 0
=============================================================================
