--------------------------- MODULE EventlogSocket ---------------------------
(***************************************************************************)
(* The path of the eventlog from the RTS to a client: the writer callbacks *)
(* that RTS threads run (in eventlog_socket.c), the worker thread          *)
(* that accepts clients, restarts event logging for each of them and       *)
(* drains the write buffer (worker.c), the main thread that initialises    *)
(* the library, and the clients.                                           *)
(*                                                                         *)
(* The bytes of the eventlog are numbered in the order in which the RTS    *)
(* produces them, over all the times it is started, so a buffered block is *)
(* [data, size]: the number of its first unsent byte and the count of      *)
(* unsent ones.  "starts" holds the numbers of the bytes at which the RTS  *)
(* wrote a header.                                                         *)
(*                                                                         *)
(* g_mutex: every critical section is one action, except the worker's      *)
(* write loop, which is one action per write() and excludes the others     *)
(* while it runs (wpc = "writing").                                        *)
(***************************************************************************)
EXTENDS Integers, Sequences, FiniteSets

CONSTANTS
  Client,    \* connections, numbered in the order in which they are made; a client
             \* that comes back is another element
  NoFd,      \* -1
  MaxBytes,  \* bound: the RTS logs events (headers and end marks apart) up to this byte
  MaxBlock,  \* bound on the size of one block
  SndBuf,    \* capacity of a socket's send buffer
  PipeCap,   \* capacity of the wake pipe
  DrainChunk,\* EVENTLOG_SOCKET_WORKER_CHUNK_SIZE
  FdLimit    \* descriptors the process may hold for connections

ASSUME NoFdAssumption  == NoFd \notin Client
ASSUME OrderAssumption == Client \subseteq Nat
ASSUME BoundAssumption == /\ MaxBytes \in Nat /\ MaxBlock \in Nat \ {0}
                          /\ SndBuf \in Nat \ {0} /\ PipeCap \in Nat \ {0}
                          /\ DrainChunk \in Nat \ {0} /\ FdLimit \in Nat

VARIABLES
  (* shared, guarded by g_mutex *)
  clientFd,  \* g_client_fd
  buf,       \* g_write_buffer
  flags,     \* g_init_state
  wake,      \* bytes in g_wake_pipe
  (* worker thread *)
  wpc,       \* where it is in es_worker_loop
  wfd,       \* the descriptor its current step works on
  wseen,     \* what es_worker_step_listen read: is_attached, had_first_connection, should_start
  (* main thread *)
  boot,      \* "cmain": writer passed in RtsConfig, "start": eventlog_socket_start
  mpc,
  (* GHC RTS, external *)
  logger,    \* its event logging: none, file (another writer), opening, on, closing
  produced,  \* number of the next byte
  starts,
  (* clients and the kernel, external *)
  peer,      \* idle, up, fin (sent FIN: POLLRDHUP), gone (POLLHUP)
  backlog,   \* connected and not yet accepted
  listening, \* listen() was called
  open,      \* accepted and not yet closed on this side
  inflight,  \* bytes in the send buffer of a connection
  rcv,       \* the bytes from..(upto - 1) a client is sent; ok: without a gap so far
  (* auxiliary *)
  attaches, posts, pres  \* calls of writer_init, of the post-start and of the pre-end hooks

shared  == <<clientFd, buf, flags, wake>>
worker  == <<wpc, wfd, wseen>>
main    == <<boot, mpc>>
rts     == <<logger, produced, starts>>
net     == <<peer, backlog, listening, open, inflight, rcv>>
hooks   == <<attaches, posts, pres>>
vars    == <<shared, worker, main, rts, net, hooks>>

Flags == {"INITIALIZED", "ATTACHED", "RTS_READY", "HAD_FIRST_CONNECTION"}

WorkerPc ==
  {"off", "step", "listen", "waitrts", "rtscond", "readinit", "status", "prehook",
   "end", "ending", "publish", "start", "header", "posthook", "mark",
   "nonwrite", "npoll", "drain", "nhup", "write", "whup", "wlock", "writing", "dead"}

MainPc == {"init", "hs_init", "header", "signal", "wait", "conncond", "run",
           "stopping", "exited"}

Min2(a, b) == IF a < b THEN a ELSE b

MutexFree == wpc # "writing"

Init ==
  /\ clientFd = NoFd /\ buf = <<>> /\ flags = {} /\ wake = 0
  /\ wpc = "off" /\ wfd = NoFd
  /\ wseen = [attached |-> FALSE, had |-> FALSE, start |-> FALSE]
  /\ boot \in {"cmain", "start"}
  /\ mpc = "init"
  /\ logger \in IF boot = "cmain" THEN {"none"} ELSE {"none", "file"}
  /\ produced = 0 /\ starts = {}
  /\ peer = [c \in Client |-> "idle"]
  /\ backlog = {} /\ listening = FALSE /\ open = {}
  /\ inflight = [c \in Client |-> 0]
  /\ rcv = [c \in Client |-> [from |-> 0, upto |-> 0, ok |-> TRUE]]
  /\ attaches = 0 /\ posts = 0 /\ pres = 0

-----------------------------------------------------------------------------
(* The kernel's side of a connection *)

\* accept() hands out connections in the order in which they were made.
NextInLine(c) == c \in backlog /\ \A d \in backlog : c <= d

Room(c) == SndBuf - inflight[c]

\* write() accepted the k bytes that start at byte p for client c.
Send(c, p, k) ==
  /\ inflight' = [inflight EXCEPT ![c] = @ + k]
  /\ rcv' = [rcv EXCEPT ![c] =
       IF @.upto = @.from THEN [from |-> p, upto |-> p + k, ok |-> @.ok]
       ELSE [from |-> @.from, upto |-> p + k, ok |-> @.ok /\ p = @.upto]]

-----------------------------------------------------------------------------
(* EventlogSocketWriter, called by the RTS *)

\* es_worker_wake: a full pipe is EAGAIN and is ignored.
Wake == wake' = Min2(wake + 1, PipeCap)

\* Variant: emptiness is tested after the push.
writer_enqueue_LateTest(p, n) ==
  /\ buf' = Append(buf, [data |-> p, size |-> n])
  /\ IF buf' = <<>> THEN Wake ELSE UNCHANGED wake

\* writer_enqueue
writer_enqueue(p, n) ==
  /\ buf' = Append(buf, [data |-> p, size |-> n])
  /\ IF buf = <<>> THEN Wake ELSE UNCHANGED wake

\* writer_init
writer_init ==
  /\ MutexFree
  /\ flags' = flags \cup {"ATTACHED"}
  /\ attaches' = attaches + 1

\* Variant: without a connection data is always dropped.
writer_write_DropEarly(n) ==
  /\ MutexFree
  /\ produced' = produced + n
  /\ IF clientFd = NoFd
       THEN UNCHANGED <<buf, wake, inflight, rcv>>
       ELSE writer_enqueue(produced, n) /\ UNCHANGED <<inflight, rcv>>

\* writer_write of the next n bytes of the eventlog.
writer_write(n) ==
  /\ MutexFree
  /\ produced' = produced + n
  /\ \/ /\ \/ buf # <<>>
           \/ clientFd = NoFd /\ "HAD_FIRST_CONNECTION" \notin flags
           \/ clientFd # NoFd /\ peer[clientFd] # "gone" /\ Room(clientFd) = 0 \* EAGAIN
        /\ writer_enqueue(produced, n)
        /\ UNCHANGED <<inflight, rcv>>
     \/ /\ buf = <<>>
        /\ \/ clientFd = NoFd /\ "HAD_FIRST_CONNECTION" \in flags
           \/ clientFd # NoFd /\ peer[clientFd] = "gone"        \* EPIPE, ECONNRESET
        /\ UNCHANGED <<buf, wake, inflight, rcv>>
     \/ /\ buf = <<>>
        /\ clientFd # NoFd /\ peer[clientFd] # "gone"
        /\ \E k \in 1..Min2(n, Room(clientFd)) :
             /\ Send(clientFd, produced, k)
             /\ IF k < n THEN writer_enqueue(produced + k, n - k)
                         ELSE UNCHANGED <<buf, wake>>

\* writer_stop
writer_stop ==
  /\ MutexFree
  /\ flags' = flags \ {"ATTACHED"}
  /\ IF clientFd # NoFd
       THEN /\ open' = open \ {clientFd}
            /\ clientFd' = NoFd
            /\ buf' = <<>>
       ELSE UNCHANGED <<open, clientFd, buf>>

\* An RTS thread flushes a block of events while event logging is on.
RtsWrite(n) ==
  /\ logger = "on"
  /\ produced + n <= MaxBytes
  /\ writer_write(n)
  /\ UNCHANGED <<clientFd, flags, worker, main, logger, starts,
                 peer, backlog, listening, open, hooks>>

-----------------------------------------------------------------------------
(* Main thread *)

\* eventlog_socket_init: es_worker_init and es_worker_start.
eventlog_socket_init ==
  /\ mpc = "init"
  /\ flags' = flags \cup {"INITIALIZED"}
  /\ wpc' = "step"
  /\ mpc' = IF boot = "cmain" THEN "hs_init" ELSE "signal"
  /\ UNCHANGED <<clientFd, buf, wake, wfd, wseen, boot, rts, net, hooks>>

\* hs_init_ghc with the writer in RtsConfig, without -l and with it.
HsInitNoLog ==
  /\ mpc = "hs_init"
  /\ mpc' = "signal"
  /\ UNCHANGED <<shared, worker, boot, rts, net, hooks>>

HsInitAttach ==
  /\ mpc = "hs_init"
  /\ writer_init
  /\ logger' = "opening"
  /\ mpc' = "header"
  /\ UNCHANGED <<clientFd, buf, wake, worker, boot, produced, starts, net,
                 posts, pres>>

HsInitHeader ==
  /\ mpc = "header"
  /\ writer_write(1)
  /\ starts' = starts \cup {produced}
  /\ logger' = "on"
  /\ mpc' = "signal"
  /\ UNCHANGED <<clientFd, flags, worker, boot, peer, backlog, listening, open, hooks>>

\* Variant: the condition is not broadcast.
signal_ghc_rts_ready_NoBroadcast ==
  /\ mpc = "signal"
  /\ MutexFree
  /\ posts' = IF "ATTACHED" \in flags THEN posts + 1 ELSE posts
  /\ flags' = flags \cup {"RTS_READY"}
  /\ mpc' \in {"wait", "run"}
  /\ UNCHANGED <<clientFd, buf, wake, worker, boot, rts, net, attaches, pres>>

\* Variant: the hooks run whether or not the writer is attached.
signal_ghc_rts_ready_AlwaysHook ==
  /\ mpc = "signal"
  /\ MutexFree
  /\ posts' = posts + 1
  /\ wpc' = IF wpc = "rtscond" THEN "waitrts" ELSE wpc
  /\ flags' = flags \cup {"RTS_READY"}
  /\ mpc' \in {"wait", "run"}
  /\ UNCHANGED <<clientFd, buf, wake, wfd, wseen, boot, rts, net, attaches, pres>>

\* eventlog_socket_signal_ghc_rts_ready; afterwards eventlog_socket_start and
\* eventlog_socket_wrap_hs_main wait for a client if eso_wait is set.
eventlog_socket_signal_ghc_rts_ready ==
  /\ mpc = "signal"
  /\ MutexFree
  /\ posts' = IF "ATTACHED" \in flags THEN posts + 1 ELSE posts
  /\ wpc' = IF wpc = "rtscond" THEN "waitrts" ELSE wpc
  /\ flags' = flags \cup {"RTS_READY"}
  /\ mpc' \in {"wait", "run"}
  /\ UNCHANGED <<clientFd, buf, wake, wfd, wseen, boot, rts, net, attaches, pres>>

\* eventlog_socket_wait: one check of g_client_fd under the mutex, then either
\* return or sleep on g_new_connection_cond.
eventlog_socket_wait ==
  /\ mpc = "wait"
  /\ MutexFree
  /\ mpc' = IF clientFd = NoFd THEN "conncond" ELSE "run"
  /\ UNCHANGED <<shared, worker, boot, rts, net, hooks>>

\* hs_exit calls endEventLogging: the end mark is written, then the writer is
\* stopped.  The RTS serialises starting and ending of event logging.
RtsShutdown ==
  /\ mpc = "run"
  /\ logger \in {"none", "file"}
  /\ logger' = "none"
  /\ mpc' = "exited"
  /\ UNCHANGED <<shared, worker, boot, produced, starts, net, hooks>>

RtsShutdownEnd ==
  /\ mpc = "run"
  /\ logger = "on"
  /\ writer_write(1)
  /\ logger' = "closing"
  /\ mpc' = "stopping"
  /\ UNCHANGED <<clientFd, flags, worker, boot, starts, peer, backlog, listening, open, hooks>>

RtsShutdownStop ==
  /\ mpc = "stopping"
  /\ writer_stop
  /\ logger' = "none"
  /\ mpc' = "exited"
  /\ UNCHANGED <<wake, worker, boot, produced, starts, peer, backlog, listening,
                 inflight, rcv, hooks>>

-----------------------------------------------------------------------------
(* Worker thread: es_worker_step *)

\* Snapshot of g_client_fd and of whether the buffer is empty.
es_worker_step ==
  /\ wpc = "step"
  /\ wfd' = clientFd
  /\ wpc' = IF clientFd = NoFd THEN "listen"
            ELSE IF buf = <<>> THEN "nonwrite" ELSE "write"
  /\ UNCHANGED <<shared, wseen, main, rts, net, hooks>>

(* es_worker_step_listen *)

ListenCall ==
  /\ wpc = "listen" /\ ~listening
  /\ listening' = TRUE
  /\ UNCHANGED <<shared, worker, main, rts, peer, backlog, open, inflight, rcv, hooks>>

\* accept(): the connection, ECONNABORTED for a client that left meanwhile, or
\* EMFILE, on which EXIT_ON_ERROR ends the thread.
Accept(c) ==
  /\ wpc = "listen" /\ listening /\ NextInLine(c)
  /\ Cardinality(open) < FdLimit
  /\ backlog' = backlog \ {c}
  /\ open' = open \cup {c}
  /\ wfd' = c
  /\ wpc' = "waitrts"
  /\ UNCHANGED <<shared, wseen, main, rts, peer, listening, inflight, rcv, hooks>>

AcceptAborted(c) ==
  /\ wpc = "listen" /\ listening /\ NextInLine(c)
  /\ peer[c] = "gone"
  /\ backlog' = backlog \ {c}
  /\ wpc' = "step"
  /\ UNCHANGED <<shared, wfd, wseen, main, rts, peer, listening, open, inflight, rcv, hooks>>

AcceptFails ==
  /\ wpc = "listen" /\ listening /\ backlog # {}
  /\ Cardinality(open) >= FdLimit
  /\ wpc' = "dead"
  /\ UNCHANGED <<shared, wfd, wseen, main, rts, net, hooks>>

\* Variant: the worker does not wait for the RTS.
wait_rts_ready_NoWait ==
  /\ wpc = "waitrts"
  /\ wpc' = "readinit"
  /\ UNCHANGED <<shared, wfd, wseen, main, rts, net, hooks>>

\* es_worker_wait_rts_ready: one check under the mutex, then go on or sleep.
es_worker_wait_rts_ready ==
  /\ wpc = "waitrts"
  /\ wpc' = IF "RTS_READY" \in flags THEN "readinit" ELSE "rtscond"
  /\ UNCHANGED <<shared, wfd, wseen, main, rts, net, hooks>>

ReadInitState ==
  /\ wpc = "readinit"
  /\ wseen' = [attached |-> "ATTACHED" \in flags,
               had      |-> "HAD_FIRST_CONNECTION" \in flags,
               start    |-> FALSE]
  /\ wpc' = "status"
  /\ UNCHANGED <<shared, wfd, main, rts, net, hooks>>

\* Variant: event logging is not restarted for later clients.
ShouldStop_OnlyOther(running) == running /\ ~wseen.attached

\* is_running, should_stop and should_start.
ShouldStop(running) == running /\ (~wseen.attached \/ wseen.had)

\* Variant: event logging is only started if it was stopped.
DecideRestart_OnlyStopped ==
  /\ wpc = "status"
  /\ LET stop == ShouldStop(logger \in {"file", "on"})
     IN  /\ wseen' = [wseen EXCEPT !.start = stop]
         /\ wpc' = IF ~stop THEN "publish"
                   ELSE IF wseen.attached THEN "prehook" ELSE "end"
  /\ UNCHANGED <<shared, wfd, main, rts, net, hooks>>

\* Variant: the hooks run also if another writer is ended.
DecideRestart_AlwaysHook ==
  /\ wpc = "status"
  /\ LET running == logger \in {"file", "on"}
         stop    == ShouldStop(running)
     IN  /\ wseen' = [wseen EXCEPT !.start = stop \/ ~running]
         /\ wpc' = IF ~stop THEN "publish" ELSE "prehook"
  /\ UNCHANGED <<shared, wfd, main, rts, net, hooks>>

DecideRestart ==
  /\ wpc = "status"
  /\ LET running == logger \in {"file", "on"}
         stop    == ShouldStop(running)
     IN  /\ wseen' = [wseen EXCEPT !.start = stop \/ ~running]
         /\ wpc' = IF ~stop THEN "publish"
                   ELSE IF wseen.attached THEN "prehook" ELSE "end"
  /\ UNCHANGED <<shared, wfd, main, rts, net, hooks>>

PreEndHook ==
  /\ wpc = "prehook"
  /\ pres' = pres + 1
  /\ wpc' = "end"
  /\ UNCHANGED <<shared, wfd, wseen, main, rts, net, attaches, posts>>

\* endEventLogging: nothing to end, another writer, or ours (two calls).
EndOther ==
  /\ wpc = "end"
  /\ logger \in {"none", "file"}
  /\ logger' = "none"
  /\ wpc' = "publish"
  /\ UNCHANGED <<shared, wfd, wseen, main, produced, starts, net, hooks>>

EndWrite ==
  /\ wpc = "end"
  /\ logger = "on"
  /\ writer_write(1)
  /\ logger' = "closing"
  /\ wpc' = "ending"
  /\ UNCHANGED <<clientFd, flags, wfd, wseen, main, starts, peer, backlog, listening, open, hooks>>

EndStop ==
  /\ wpc = "ending"
  /\ writer_stop
  /\ logger' = "none"
  /\ wpc' = "publish"
  /\ UNCHANGED <<wake, wfd, wseen, main, produced, starts, peer, backlog, listening,
                 inflight, rcv, hooks>>

\* Variant: the condition is not broadcast.
Publish_NoBroadcast ==
  /\ wpc = "publish"
  /\ clientFd' = wfd
  /\ wpc' = IF wseen.start THEN "start"
            ELSE IF wseen.had THEN "step" ELSE "mark"
  /\ UNCHANGED <<buf, flags, wake, wfd, wseen, main, rts, net, hooks>>

\* g_client_fd is set and g_new_connection_cond broadcast.
Publish ==
  /\ wpc = "publish"
  /\ clientFd' = wfd
  /\ mpc' = IF mpc = "conncond" THEN "wait" ELSE mpc
  /\ wpc' = IF wseen.start THEN "start"
            ELSE IF wseen.had THEN "step" ELSE "mark"
  /\ UNCHANGED <<buf, flags, wake, wfd, wseen, boot, rts, net, hooks>>

\* startEventLogging, retried until it returns true: it does not while another
\* call starts or ends event logging or event logging is on.
StartAttach ==
  /\ wpc = "start"
  /\ logger = "none"
  /\ writer_init
  /\ logger' = "opening"
  /\ wpc' = "header"
  /\ UNCHANGED <<clientFd, buf, wake, wfd, wseen, main, produced, starts, net,
                 posts, pres>>

StartHeader ==
  /\ wpc = "header"
  /\ writer_write(1)
  /\ starts' = starts \cup {produced}
  /\ logger' = "on"
  /\ wpc' = "posthook"
  /\ UNCHANGED <<clientFd, flags, wfd, wseen, main, peer, backlog, listening, open, hooks>>

PostStartHook ==
  /\ wpc = "posthook"
  /\ posts' = posts + 1
  /\ wpc' = IF wseen.had THEN "step" ELSE "mark"
  /\ UNCHANGED <<shared, wfd, wseen, main, rts, net, attaches, pres>>

MarkFirstConnection ==
  /\ wpc = "mark"
  /\ flags' = flags \cup {"HAD_FIRST_CONNECTION"}
  /\ wpc' = "step"
  /\ UNCHANGED <<clientFd, buf, wake, wfd, wseen, main, rts, net, hooks>>

(* es_worker_step_nonwrite *)

\* Entering poll(): a descriptor closed meanwhile is POLLNVAL and returns at
\* once; one closed later does not wake the poll.
NonwritePoll ==
  /\ wpc = "nonwrite"
  /\ wpc' = IF wfd \in open THEN "npoll" ELSE "step"
  /\ UNCHANGED <<shared, wfd, wseen, main, rts, net, hooks>>

\* poll() without timeout returns for the wake pipe, else for the hang-up.
NonwriteWoken ==
  /\ wpc = "npoll" /\ wake > 0
  /\ wpc' = "drain"
  /\ UNCHANGED <<shared, wfd, wseen, main, rts, net, hooks>>

NonwriteHup ==
  /\ wpc = "npoll" /\ wake = 0 /\ peer[wfd] = "gone"
  /\ wpc' = "nhup"
  /\ UNCHANGED <<shared, wfd, wseen, main, rts, net, hooks>>

\* POLLRDHUP alone is not tested for: the step ends.
NonwriteRdhup ==
  /\ wpc = "npoll" /\ wake = 0 /\ peer[wfd] = "fin"
  /\ wpc' = "step"
  /\ UNCHANGED <<shared, wfd, wseen, main, rts, net, hooks>>

\* es_worker_wake_drain: one read(), until the pipe is empty.
es_worker_wake_drain ==
  /\ wpc = "drain"
  /\ IF wake > 0 THEN wake' = wake - Min2(wake, DrainChunk) /\ UNCHANGED wpc
                 ELSE wpc' = "step" /\ UNCHANGED wake
  /\ UNCHANGED <<clientFd, buf, flags, wfd, wseen, main, rts, net, hooks>>

\* Variant: only the buffer is freed.
Reset_KeepFd ==
  /\ buf' = <<>>
  /\ UNCHANGED clientFd

\* The connection is forgotten and the buffer freed; the descriptor stays open.
Reset ==
  /\ clientFd' = NoFd
  /\ buf' = <<>>

NonwriteReset ==
  /\ wpc = "nhup"
  /\ Reset
  /\ wpc' = "step"
  /\ UNCHANGED <<flags, wake, wfd, wseen, main, rts, net, hooks>>

(* es_worker_step_write *)

\* poll() with a timeout: a hang-up, room to write, or neither.
WritePoll ==
  /\ wpc = "write"
  /\ wpc' \in IF wfd \notin open THEN {"step"}                       \* POLLNVAL
              ELSE IF peer[wfd] = "gone" THEN {"whup"}               \* POLLHUP
              ELSE IF Room(wfd) > 0 THEN {"wlock"}                   \* POLLOUT
              ELSE {"step"}                                          \* timeout, POLLRDHUP
  /\ UNCHANGED <<shared, wfd, wseen, main, rts, net, hooks>>

WriteReset ==
  /\ wpc = "whup"
  /\ Reset
  /\ wpc' = "step"
  /\ UNCHANGED <<flags, wake, wfd, wseen, main, rts, net, hooks>>

\* The write loop, one write() per action.  The first iteration takes g_mutex.
InLoop == wpc \in {"wlock", "writing"}

WriteLoopEnd ==
  /\ InLoop /\ buf = <<>>
  /\ wpc' = "step"
  /\ UNCHANGED <<shared, wfd, wseen, main, rts, net, hooks>>

\* EPIPE resets the connection; another error (ECONNRESET) leaves it.
WriteEpipe ==
  /\ InLoop /\ buf # <<>> /\ clientFd # NoFd /\ peer[clientFd] = "gone"
  /\ Reset
  /\ wpc' = "step"
  /\ UNCHANGED <<flags, wake, wfd, wseen, main, rts, net, hooks>>

WriteError ==
  /\ InLoop /\ buf # <<>> /\ clientFd # NoFd /\ peer[clientFd] = "gone"
  /\ wpc' = "step"
  /\ UNCHANGED <<shared, wfd, wseen, main, rts, net, hooks>>

WriteAgain ==
  /\ InLoop /\ buf # <<>> /\ clientFd # NoFd
  /\ peer[clientFd] # "gone" /\ Room(clientFd) = 0
  /\ wpc' = "step"
  /\ UNCHANGED <<shared, wfd, wseen, main, rts, net, hooks>>

\* Variant: after a partial write the data pointer stays.
WriteItem_KeepData(k) ==
  /\ InLoop /\ buf # <<>> /\ clientFd # NoFd /\ peer[clientFd] # "gone"
  /\ k \in 1..Min2(buf[1].size, Room(clientFd))
  /\ Send(clientFd, buf[1].data, k)
  /\ IF k = buf[1].size
       THEN buf' = Tail(buf) /\ wpc' = "writing"
       ELSE buf' = [buf EXCEPT ![1].size = @ - k] /\ wpc' = "step"
  /\ UNCHANGED <<clientFd, flags, wake, wfd, wseen, main, rts,
                 peer, backlog, listening, open, hooks>>

\* k bytes of the first item were written: all of it, or a part.
WriteItem(k) ==
  /\ InLoop /\ buf # <<>> /\ clientFd # NoFd /\ peer[clientFd] # "gone"
  /\ k \in 1..Min2(buf[1].size, Room(clientFd))
  /\ Send(clientFd, buf[1].data, k)
  /\ IF k = buf[1].size
       THEN buf' = Tail(buf) /\ wpc' = "writing"
       ELSE /\ buf' = [buf EXCEPT ![1] = [data |-> @.data + k, size |-> @.size - k]]
            /\ wpc' = "step"
  /\ UNCHANGED <<clientFd, flags, wake, wfd, wseen, main, rts,
                 peer, backlog, listening, open, hooks>>

-----------------------------------------------------------------------------
(* Clients *)

Connect(c) ==
  /\ listening /\ peer[c] = "idle"
  /\ \A d \in Client : d < c => peer[d] # "idle"
  /\ peer' = [peer EXCEPT ![c] = "up"]
  /\ backlog' = backlog \cup {c}
  /\ UNCHANGED <<shared, worker, main, rts, listening, open, inflight, rcv, hooks>>

Read(c) ==
  /\ peer[c] \in {"up", "fin"} /\ inflight[c] > 0
  /\ inflight' = [inflight EXCEPT ![c] = 0]
  /\ UNCHANGED <<shared, worker, main, rts, peer, backlog, listening, open, rcv, hooks>>

\* shutdown(SHUT_WR), or close() of a TCP socket whose FIN arrived.
HalfClose(c) ==
  /\ peer[c] = "up"
  /\ peer' = [peer EXCEPT ![c] = "fin"]
  /\ UNCHANGED <<shared, worker, main, rts, backlog, listening, open, inflight, rcv, hooks>>

\* close() of a Unix socket, or the reset of a TCP connection.
HangUp(c) ==
  /\ peer[c] \in {"up", "fin"}
  /\ peer' = [peer EXCEPT ![c] = "gone"]
  /\ UNCHANGED <<shared, worker, main, rts, backlog, listening, open, inflight, rcv, hooks>>

-----------------------------------------------------------------------------
(* The specification *)

MainStep ==
  \/ eventlog_socket_init \/ HsInitNoLog \/ HsInitAttach \/ HsInitHeader
  \/ eventlog_socket_signal_ghc_rts_ready \/ eventlog_socket_wait

Shutdown == RtsShutdown \/ RtsShutdownEnd \/ RtsShutdownStop

WorkerStep ==
  \/ es_worker_step
  \/ ListenCall \/ AcceptFails \/ \E c \in Client : Accept(c) \/ AcceptAborted(c)
  \/ es_worker_wait_rts_ready \/ ReadInitState \/ DecideRestart
  \/ PreEndHook \/ EndOther \/ EndWrite \/ EndStop
  \/ Publish \/ StartAttach \/ StartHeader \/ PostStartHook \/ MarkFirstConnection
  \/ NonwritePoll \/ NonwriteWoken \/ NonwriteHup \/ NonwriteRdhup
  \/ es_worker_wake_drain \/ NonwriteReset
  \/ WritePoll \/ WriteReset
  \/ WriteLoopEnd \/ WriteEpipe \/ WriteError \/ WriteAgain
  \/ \E k \in 1..SndBuf : WriteItem(k)

ClientStep == \E c \in Client : Connect(c) \/ Read(c) \/ HalfClose(c) \/ HangUp(c)

Next ==
  \/ \E n \in 1..MaxBlock : RtsWrite(n)
  \/ MainStep
  \/ Shutdown
  \/ WorkerStep
  \/ ClientStep

\* The scheduler runs the main thread's start-up and the worker thread, a call
\* of endEventLogging that began is finished, and a client that stays connected
\* reads what it is sent.  Nobody has to connect, hang up, log or shut down.
Fairness ==
  /\ WF_vars(MainStep)
  /\ WF_vars(RtsShutdownStop)
  /\ WF_vars(WorkerStep)
  /\ \A c \in Client : WF_vars(Read(c))

Spec == Init /\ [][Next]_vars

FairSpec == Spec /\ Fairness

-----------------------------------------------------------------------------
(* Properties *)

TypeOK ==
  /\ clientFd \in Client \cup {NoFd}
  /\ buf \in Seq([data : Nat, size : Nat])
  /\ flags \subseteq Flags
  /\ wake \in 0..PipeCap
  /\ wpc \in WorkerPc /\ wfd \in Client \cup {NoFd}
  /\ wseen \in [attached : BOOLEAN, had : BOOLEAN, start : BOOLEAN]
  /\ boot \in {"cmain", "start"} /\ mpc \in MainPc
  /\ logger \in {"none", "file", "opening", "on", "closing"}
  /\ produced \in Nat /\ starts \subseteq Nat
  /\ peer \in [Client -> {"idle", "up", "fin", "gone"}]
  /\ backlog \subseteq Client /\ listening \in BOOLEAN /\ open \subseteq Client
  /\ inflight \in [Client -> 0..SndBuf]
  /\ rcv \in [Client -> [from : Nat, upto : Nat, ok : BOOLEAN]]
  /\ attaches \in Nat /\ posts \in Nat /\ pres \in Nat

\* Client c was sent nothing yet.
Empty(c) == rcv[c].from = rcv[c].upto

ShutDown == mpc \in {"stopping", "exited"}

(* Safety *)

\* What a client receives is a gapless run of the eventlog: no byte is lost,
\* sent twice or sent out of order while blocks go partly through writer_write
\* and partly through the worker's write loop.
InOrder == \A c \in Client : rcv[c].ok

\* README: "Whenever a new client connects, the event header is repeated".  The
\* first byte a client ever receives is the first byte of a header.
HeaderFirst == \A c \in Client : ~Empty(c) => rcv[c].from \in starts

\* No lost wake-up: a worker that found the buffer empty and goes to sleep in
\* the poll without timeout of es_worker_step_nonwrite finds a byte in the wake
\* pipe if a block was queued since.  A worker or main thread that sleeps on a
\* condition does so while what it waits for has not happened.
NoLostWakeup ==
  /\ wpc \in {"nonwrite", "npoll"} /\ buf # <<>> => wake > 0
  /\ wpc = "rtscond" => "RTS_READY" \notin flags
  /\ mpc = "conncond" => clientFd = NoFd

\* What waits in the write buffer is whole: a gapless run of blocks that ends
\* at the last byte the RTS produced.
BufferContiguous ==
  /\ \A i \in 1..(Len(buf) - 1) : buf[i].data + buf[i].size = buf[i + 1].data
  /\ buf # <<>> => buf[Len(buf)].data + buf[Len(buf)].size = produced
  /\ \A i \in 1..Len(buf) : buf[i].size > 0

\* CHANGELOG 0.1.2.0: "an event logger installed in a C main is able to capture
\* events from before the first connection".  Until the first client is served,
\* everything logged since the RTS started is in the write buffer.
EarlyEventsKept ==
  (/\ logger = "on" /\ ~wseen.start
   /\ "HAD_FIRST_CONNECTION" \notin flags
   /\ \A c \in Client : Empty(c))
  => buf # <<>> /\ buf[1].data = 0

\* Every time the writer is attached, the post-startEventLogging hooks run once:
\* no hook without an attach, and while a connection is served every attach had
\* its hook.
HookPerAttach ==
  /\ posts <= attaches
  /\ wpc \in {"nonwrite", "npoll", "drain", "nhup", "write", "whup", "wlock", "writing"}
       => posts = attaches

\* Handlers see the two hooks in turn: the pre-endEventLogging hooks never run
\* without an earlier run of the post-startEventLogging hooks of their own, although
\* the worker decides on a flag that it read some steps before.
HookOrder == pres <= posts

\* The first connection is only reported once the RTS is ready and the writer
\* was attached: signal 4 of g_init_state is the last of the four.
FirstConnectionLast ==
  "HAD_FIRST_CONNECTION" \in flags => "RTS_READY" \in flags /\ attaches > 0

\* The write loop only ever sends queued blocks to the connection its poll found
\* writable: writer_stop may close the connection between the poll and the lock,
\* but then it leaves nothing queued, so there is no write() to -1 or to another
\* client.
WriteTarget == InLoop /\ buf # <<>> => clientFd = wfd

(* What is promised of the connection *)

\* Clients that did not connect, were not accepted, or are not published yet.
Waiting ==
  {c \in Client :
     \/ peer[c] = "idle" \/ c \in backlog
     \/ /\ wfd = c
        /\ wpc \in {"waitrts", "rtscond", "readinit", "status", "prehook", "end", "ending", "publish"}}

SentTo == [c \in Client |-> rcv[c].upto - rcv[c].from]

Served == INSTANCE Connection WITH
  Conn <- Client, NoConn <- NoFd, conn <- clientFd, ready <- "RTS_READY" \in flags,
  fresh <- Waiting, got <- SentTo

\* Whatever the worker, the RTS threads and writer_stop do to g_client_fd in between:
\* one connection at a time is served, each once, none before the RTS is ready, and
\* writer_write and the write loop send only to the one that is served.
ImplementsConnection == Served!Spec

(* Liveness *)

\* Connections whose client hung up are never closed: accept() fails with EMFILE.
DescriptorsGone == Cardinality(open) >= FdLimit

\* A worker without a connection ignores clients for ever only after it ended because so
\* many clients had hung up that no descriptor was left.
ClientsAccepted == []<>(backlog = {} \/ clientFd # NoFd \/ ShutDown \/ DescriptorsGone)

\* Every client that is accepted and stays is sent a header, unless the RTS shuts down.
ClientServed == []<>(\A c \in open : ~Empty(c) \/ peer[c] # "up" \/ ShutDown)

\* Queued blocks are not stuck: the buffer is drained again and again, or freed.
BufferDrained == []<>(buf = <<>> \/ clientFd = NoFd)

\* No connection that hung up is kept for ever (it can neither come back nor be
\* published again): it is noticed and given up.
HangUpNoticed == []<>(clientFd # NoFd => peer[clientFd] # "gone")

\* eventlog_socket_wait returns if from some point on a client is connected.
WaitReturns == <>[](clientFd # NoFd) => <>[](mpc \notin {"wait", "conncond"})
=============================================================================
