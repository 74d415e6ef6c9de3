----------------------------- MODULE Lifecycle -----------------------------
(***************************************************************************)
(* The life of a process that uses the library: the address from the       *)
(* environment, eventlog_socket_init with its failures, the signal and the *)
(* wait, and exit(), which runs the cleanup handlers and cancels the       *)
(* worker and the control thread wherever they are; then the next process. *)
(*                                                                         *)
(* The threads are reduced to the places that matter here: where they wait *)
(* for g_mutex or for the mutex of the hook registry (no cancellation      *)
(* point), where they can be cancelled, and what they hold then.  Critical *)
(* sections without a cancellation point are one step.  Modules            *)
(* EventlogSocket, Control and Hooks have the rest.                        *)
(*                                                                         *)
(* A path is its length: all paths here are prefixes of one string, so the *)
(* name that bind() gets is the truncated length.                          *)
(***************************************************************************)
EXTENDS Integers

CONSTANTS
  PathMax,              \* sizeof(sun_path)
  PathLen,              \* lengths of the paths in the environment
  MaxWrites, MaxStarts  \* bounds: events at work, processes

ASSUME PathAssumption  == PathMax \in Nat \ {0} /\ PathLen \subseteq Nat
ASSUME BoundAssumption == MaxWrites \in Nat /\ MaxStarts \in Nat

NoAddr == -1
Inet   == -2

VARIABLES
  mpc,        \* where the main thread is
  entry,      \* eventlog_socket_wrap_hs_main ("wrap") or eventlog_socket_start
  status,     \* what eventlog_socket_from_env returned
  addr,       \* the address: NoAddr, Inet, or the length of a path
  wait,       \* eso_wait
  init,       \* what eventlog_socket_init returned
  files,      \* names of socket files
  bound,      \* this process bound its path
  sockPath,   \* g_sock_path is set
  listen,     \* g_listen_fd is open
  pipe,       \* g_wake_pipe
  atexit,     \* cleanup handlers that are registered
  wpc, cpc, rpc, \* the worker, the control thread, an RTS thread
  cancelled,  \* threads with a pending cancellation
  seen,       \* what es_worker_step_listen read and decided, {} when that is not used any more
  back,       \* where the worker goes on after writer_write
  lock,       \* owner of g_mutex
  hooks,      \* owner of the mutex of the hook registry, "lost": see RegisterInvalid
  ready, attached, first, \* flags of g_init_state
  conn,       \* g_client_fd is a connection
  rts,        \* the RTS runs
  writes, starts

socket  == <<files, bound, sockPath, listen>>
config  == <<entry, status, addr, wait>>
listener == <<seen, back>>
threads  == <<wpc, cpc, rpc, cancelled, listener>>
flags    == <<ready, attached, first>>
shared   == <<lock, hooks, flags, conn, rts>>
counts   == <<writes, starts>>
vars     == <<mpc, config, init, socket, pipe, atexit, threads, shared, counts>>

\* A new process; the files are what the last one left.
Process ==
  /\ mpc' = "env" /\ entry' \in {"wrap", "start"}
  /\ status' = "none" /\ addr' = NoAddr /\ wait' = FALSE /\ init' = "none"
  /\ bound' = FALSE /\ sockPath' = FALSE /\ listen' = FALSE
  /\ pipe' = [i \in {0, 1} |-> "none"] /\ atexit' = {}
  /\ wpc' = "none" /\ cpc' = "none" /\ rpc' = "idle" /\ cancelled' = {}
  /\ seen' = {} /\ back' = "none" /\ lock' = "nobody" /\ hooks' = "nobody"
  /\ ready' = FALSE /\ attached' = FALSE /\ first' = FALSE /\ conn' = FALSE
  /\ rts' = (entry' = "start") /\ writes' = 0

Init ==
  /\ mpc = "env" /\ entry \in {"wrap", "start"}
  /\ status = "none" /\ addr = NoAddr /\ wait = FALSE /\ init = "none"
  /\ files = {} /\ bound = FALSE /\ sockPath = FALSE /\ listen = FALSE
  /\ pipe = [i \in {0, 1} |-> "none"] /\ atexit = {}
  /\ wpc = "none" /\ cpc = "none" /\ rpc = "idle" /\ cancelled = {}
  /\ seen = {} /\ back = "none" /\ lock = "nobody" /\ hooks = "nobody"
  /\ ready = FALSE /\ attached = FALSE /\ first = FALSE /\ conn = FALSE
  /\ rts = (entry = "start") /\ writes = 0 /\ starts = 1

Free == lock = "nobody"

-----------------------------------------------------------------------------
(* eventlog_socket_from_env *)

Env == [path : PathLen \cup {NoAddr}, host : BOOLEAN, port : BOOLEAN, wait : BOOLEAN]

\* The path goes before host and port.  (A path longer than PathMax gives TOOLONG
\* at first, which the assignment after the copy replaces.)
EnvStatus(e) ==
  IF e.path # NoAddr THEN "ok"
  ELSE IF ~e.host /\ ~e.port THEN "noaddr"
  ELSE IF ~e.host THEN "nohost" ELSE IF ~e.port THEN "noport" ELSE "ok"

\* Callers go on with the library only if the status is OK.
FromEnv(e) ==
  /\ mpc = "env"
  /\ status' = EnvStatus(e) /\ wait' = e.wait
  /\ addr' = IF e.path # NoAddr THEN e.path
             ELSE IF e.host \/ e.port THEN Inet ELSE NoAddr
  /\ mpc' = IF status' = "ok" THEN "init" ELSE "run"
  /\ UNCHANGED <<entry, init, socket, pipe, atexit, threads, shared, counts>>

\* es_strndup fails.
FromEnvNoMemory ==
  /\ mpc = "env"
  /\ status' = "sys" /\ mpc' = "run"
  /\ UNCHANGED <<entry, addr, wait, init, socket, pipe, atexit, threads, shared, counts>>

-----------------------------------------------------------------------------
(* eventlog_socket_init *)

\* eventlog_socket_wrap_hs_main ignores the status, eventlog_socket_start does not.
Return(s) ==
  /\ init' = s
  /\ mpc' = IF entry = "wrap" THEN "hs_init" ELSE IF s = "ok" THEN "signal" ELSE "run"

\* No support in the RTS, or no memory for the thread id.
InitFails ==
  /\ mpc = "init" /\ Return("error")
  /\ UNCHANGED <<config, socket, pipe, atexit, threads, shared, counts>>

\* Variant: the handler is not registered.
WorkerInit_NoHandler ==
  /\ mpc = "init" /\ Free
  /\ pipe' = [i \in {0, 1} |-> "open"]
  /\ mpc' = "socket"
  /\ UNCHANGED <<config, init, socket, atexit, threads, shared, counts>>

\* es_worker_init
WorkerInit ==
  /\ mpc = "init" /\ Free
  /\ pipe' = [i \in {0, 1} |-> "open"]
  /\ atexit' = atexit \cup {"worker"}
  /\ mpc' = "socket"
  /\ UNCHANGED <<config, init, socket, threads, shared, counts>>

\* fcntl() fails: the pipe stays open, no handler is registered.  (If pipe() fails,
\* nothing has changed: InitFails.)
WorkerInitFails ==
  /\ mpc = "init" /\ Free
  /\ pipe' = [i \in {0, 1} |-> "open"] /\ Return("error")
  /\ UNCHANGED <<config, socket, atexit, threads, shared, counts>>

Fits(n) == n < PathMax

\* strncpy into sun_path.
SunPath(n) == IF Fits(n) THEN n ELSE PathMax - 1

\* es_worker_socket_init_unix up to the socket options: socket() fails, the copy of the
\* path fails (the socket stays open), or an option fails (it is closed).
UnixSocketFails ==
  /\ mpc = "socket" /\ addr # Inet
  /\ listen' \in BOOLEAN /\ sockPath' \in BOOLEAN /\ ~(listen' /\ sockPath')
  /\ Return("error")
  /\ UNCHANGED <<config, files, bound, pipe, atexit, threads, shared, counts>>

\* Variant: an old socket file is not removed.
UnixBind_KeepFile ==
  /\ mpc = "socket" /\ addr # Inet
  /\ listen' = TRUE /\ sockPath' = TRUE
  /\ IF SunPath(addr) \notin files
     THEN /\ files' = files \cup {SunPath(addr)} /\ bound' = TRUE
          /\ mpc' = "worker_create" /\ init' = init
     ELSE files' = files /\ bound' = bound /\ Return("inuse")
  /\ UNCHANGED <<config, pipe, atexit, threads, shared, counts>>

\* The rest of it: unlink of the path, bind to the name in sun_path.
UnixBind ==
  /\ mpc = "socket" /\ addr # Inet
  /\ listen' = TRUE /\ sockPath' = TRUE
  /\ LET rest == files \ {addr} IN
     IF SunPath(addr) \notin rest
     THEN /\ files' = rest \cup {SunPath(addr)} /\ bound' = TRUE
          /\ mpc' = "worker_create" /\ init' = init
     ELSE files' = rest /\ bound' = bound /\ Return("inuse")
  /\ UNCHANGED <<config, pipe, atexit, threads, shared, counts>>

\* bind() fails for another reason: the socket stays open.
UnixBindFails ==
  /\ mpc = "socket" /\ addr # Inet
  /\ listen' = TRUE /\ sockPath' = TRUE /\ files' = files \ {addr}
  /\ Return("error")
  /\ UNCHANGED <<config, bound, pipe, atexit, threads, shared, counts>>

\* es_worker_socket_init_inet: the first address that can be bound, if there is one.
InetSocket ==
  /\ mpc = "socket" /\ addr = Inet
  /\ listen' \in BOOLEAN
  /\ IF listen' THEN mpc' = "worker_create" /\ init' = init ELSE Return("error")
  /\ UNCHANGED <<config, files, bound, sockPath, pipe, atexit, threads, shared, counts>>

\* pthread_create in es_worker_start.
WorkerCreate ==
  /\ mpc = "worker_create"
  /\ wpc' \in {"none", "loop"}
  /\ IF wpc' = "loop" THEN mpc' = "control_create" /\ init' = init ELSE Return("error")
  /\ UNCHANGED <<config, socket, pipe, atexit, cpc, rpc, cancelled, listener, shared, counts>>

\* es_control_start: the thread is created and detached, the handler registered.
ControlCreate ==
  /\ mpc = "control_create"
  /\ cpc' = "boot" /\ atexit' = atexit \cup {"control"} /\ Return("ok")
  /\ UNCHANGED <<config, socket, pipe, wpc, rpc, cancelled, listener, shared, counts>>

ControlCreateFails ==
  /\ mpc = "control_create" /\ Return("error")
  /\ UNCHANGED <<config, socket, pipe, atexit, threads, shared, counts>>

-----------------------------------------------------------------------------
(* The rest of the main thread's work *)

\* hs_init_ghc with the writer set: writer_init.
HsInit ==
  /\ mpc = "hs_init" /\ Free
  /\ rts' = TRUE /\ attached' = TRUE /\ mpc' = "signal"
  /\ UNCHANGED <<config, init, socket, pipe, atexit, threads, lock, hooks, ready, first, conn,
                 counts>>

\* eventlog_socket_signal_ghc_rts_ready locks g_mutex ...
Signal ==
  /\ mpc = "signal" /\ Free
  /\ lock' = "main" /\ mpc' = "ready"
  /\ UNCHANGED <<config, init, socket, pipe, atexit, threads, hooks, flags, conn, rts, counts>>

\* ... runs the hooks if the writer is attached, for which it locks the registry, and
\* marks the RTS as ready.
SignalReady ==
  /\ mpc = "ready" /\ (attached => hooks = "nobody")
  /\ ready' = TRUE /\ lock' = "nobody"
  /\ mpc' = IF wait THEN "wait" ELSE "run"
  /\ UNCHANGED <<config, init, socket, pipe, atexit, threads, hooks, attached, first, conn, rts,
                 counts>>

\* eventlog_socket_wait
Wait ==
  /\ mpc = "wait" /\ Free /\ conn
  /\ mpc' = "run"
  /\ UNCHANGED <<config, init, socket, pipe, atexit, threads, shared, counts>>

\* eventlog_socket_register_hook with a hook that does not exist returns with the registry
\* locked.  Any thread of the program may call it, also before the library is used.
RegisterInvalid ==
  /\ mpc = "env" \/ rts
  /\ hooks = "nobody" /\ hooks' = "lost"
  /\ UNCHANGED <<mpc, config, init, socket, pipe, atexit, threads, lock, flags, conn, rts, counts>>

\* The worker is inside endEventLogging or startEventLogging, which the RTS serialises.
InRts == \/ wpc \in {"end", "stop", "header"}
         \/ wpc \in {"log", "log_wake"} /\ back \in {"stop", "post_lock"}

\* shutdownHaskellAndExit stops the RTS, which calls writer_stop.
HsExit ==
  /\ mpc = "run" /\ rts /\ Free /\ rpc = "idle" /\ ~InRts
  /\ rts' = FALSE /\ attached' = FALSE
  /\ conn' = (conn /\ ~attached)
  /\ mpc' = "exit"
  /\ UNCHANGED <<config, init, socket, pipe, atexit, threads, lock, hooks, ready, first, counts>>

\* exit() while the RTS runs, from a foreign call for example.
CallExit ==
  /\ mpc = "run"
  /\ mpc' = "exit"
  /\ UNCHANGED <<config, init, socket, pipe, atexit, threads, shared, counts>>

-----------------------------------------------------------------------------
(* The handlers that exit() calls, the last registered one first *)

RunHandler ==
  /\ mpc = "exit"
  /\ mpc' = IF "control" \in atexit THEN "cancel_control"
            ELSE IF "worker" \in atexit THEN "unlink" ELSE "exited"
  /\ atexit' = atexit \ {IF "control" \in atexit THEN "control" ELSE "worker"}
  /\ UNCHANGED <<config, init, socket, pipe, threads, shared, counts>>

\* es_control_cleanup.  The thread is detached: pthread_join returns at once with an
\* error, and for a thread that is gone already pthread_cancel is undefined.
CancelControl ==
  /\ mpc = "cancel_control"
  /\ IF cpc = "ended" THEN mpc' \in {"exit", "crashed"} /\ cancelled' = cancelled
                      ELSE mpc' = "exit" /\ cancelled' = cancelled \cup {"control"}
  /\ UNCHANGED <<config, init, socket, pipe, atexit, wpc, cpc, rpc, listener, shared, counts>>

\* es_worker_cleanup, step by step: the socket file, the pipe, the thread.
Unlink ==
  /\ mpc = "unlink"
  /\ files' = IF sockPath THEN files \ {addr} ELSE files
  /\ mpc' = "close0"
  /\ UNCHANGED <<config, init, bound, sockPath, listen, pipe, atexit, threads, shared, counts>>

ClosePipe(i) ==
  /\ mpc = IF i = 0 THEN "close0" ELSE "close1"
  /\ pipe' = [pipe EXCEPT ![i] = "closed"]
  /\ mpc' = IF i = 0 THEN "close1" ELSE "cancel_worker"
  /\ UNCHANGED <<config, init, socket, atexit, threads, shared, counts>>

\* pthread_cancel; undefined if the thread was never created.
CancelWorker ==
  /\ mpc = "cancel_worker"
  /\ IF wpc = "none" THEN mpc' \in {"exit", "crashed"} /\ cancelled' = cancelled
                     ELSE mpc' = "join" /\ cancelled' = cancelled \cup {"worker"}
  /\ UNCHANGED <<config, init, socket, pipe, atexit, wpc, cpc, rpc, listener, shared, counts>>

Join ==
  /\ mpc = "join" /\ wpc = "ended"
  /\ mpc' = "exit"
  /\ UNCHANGED <<config, init, socket, pipe, atexit, threads, shared, counts>>

\* The next process, after exit or after a crash at any time.
Restart ==
  /\ starts < MaxStarts
  /\ starts' = starts + 1
  /\ Process
  /\ UNCHANGED files

-----------------------------------------------------------------------------
(* The worker *)

rest_w == <<mpc, config, init, socket, pipe, atexit, cpc, rpc, cancelled, ready, rts, counts>>
rest_l == <<listener, hooks, first>>   \* left alone outside of es_worker_step_listen


\* The head of es_worker_loop: pthread_testcancel.
WorkerLoop ==
  /\ wpc = "loop"
  /\ wpc' = IF "worker" \in cancelled THEN "ended" ELSE "step"
  /\ UNCHANGED <<rest_w, rest_l, lock, conn, attached>>

\* es_worker_step reads the connection.
WorkerRead ==
  /\ wpc = "step" /\ Free
  /\ wpc' = IF conn THEN "poll" ELSE "listen"
  /\ UNCHANGED <<rest_w, rest_l, lock, conn, attached>>

\* poll() in es_worker_step_nonwrite and es_worker_step_write.
WorkerPoll ==
  /\ wpc = "poll"
  /\ wpc' \in {"loop", "hup", "write_lock"}
  /\ UNCHANGED <<rest_w, rest_l, lock, conn, attached>>

WorkerHup ==
  /\ wpc = "hup" /\ Free
  /\ conn' = FALSE /\ wpc' = "loop"
  /\ UNCHANGED <<rest_w, rest_l, lock, attached>>

WorkerWriteLock ==
  /\ wpc = "write_lock" /\ Free
  /\ lock' = "worker" /\ wpc' = "write"
  /\ UNCHANGED <<rest_w, rest_l, conn, attached>>

\* Variant: the thread exits when write() fails.
WorkerWrite_Exit ==
  /\ wpc = "write"
  /\ \/ lock' = "nobody" /\ wpc' = "loop"
     \/ lock' = lock /\ wpc' = "ended"
  /\ conn' \in {conn, FALSE}
  /\ UNCHANGED <<rest_w, rest_l, attached>>

\* write() under g_mutex, then unlock; EPIPE drops the connection.
WorkerWrite ==
  /\ wpc = "write"
  /\ lock' = "nobody" /\ wpc' = "loop"
  /\ conn' \in {conn, FALSE}
  /\ UNCHANGED <<rest_w, rest_l, attached>>

(* es_worker_step_listen *)

\* poll() and accept(): nobody, a client, or an error.
WorkerListen ==
  /\ wpc = "listen"
  /\ wpc' \in {"loop", "accepted", "ended"}
  /\ UNCHANGED <<rest_w, rest_l, lock, conn, attached>>

\* es_worker_wait_rts_ready
WorkerAccepted ==
  /\ wpc = "accepted" /\ Free
  /\ wpc' = IF ready THEN "decide" ELSE "rtswait"
  /\ UNCHANGED <<rest_w, rest_l, lock, conn, attached>>

WorkerWoken ==
  /\ wpc = "rtswait" /\ Free /\ ready
  /\ wpc' = "decide"
  /\ UNCHANGED <<rest_w, rest_l, lock, conn, attached>>

\* init_state is read under g_mutex, then eventLogStatus is asked (the RTS may also run
\* with another writer): should_stop and should_start.
WorkerDecide ==
  /\ wpc = "decide" /\ Free
  /\ \/ /\ attached => first                    \* running: stop and start
        /\ wpc' = IF attached THEN "pre_lock" ELSE "end"
        /\ seen' = {f \in {"first", "start"} : f = "first" => first}
     \/ /\ wpc' = "publish"                     \* not running: start
        /\ seen' = {f \in {"first", "start"} : f = "first" => first}
     \/ /\ attached /\ ~first                   \* running, started by a C main
        /\ wpc' = "publish" /\ seen' = {}
  /\ UNCHANGED <<rest_w, back, hooks, first, lock, conn, attached>>

\* es_hooks_handle_hook: the registry is locked for the whole run.
WorkerHookLock ==
  /\ wpc \in {"pre_lock", "post_lock"} /\ hooks = "nobody"
  /\ hooks' = "worker"
  /\ wpc' = IF wpc = "pre_lock" THEN "pre_run" ELSE "post_run"
  /\ UNCHANGED <<rest_w, listener, first, lock, conn, attached>>

WorkerHookUnlock ==
  /\ wpc \in {"pre_unlock", "post_unlock"}
  /\ hooks' = "nobody"
  /\ wpc' = IF wpc = "pre_unlock" THEN "end" ELSE IF "first" \in seen THEN "loop" ELSE "mark"
  /\ seen' = IF wpc' = "end" THEN seen ELSE {}
  /\ UNCHANGED <<rest_w, back, first, lock, conn, attached>>

\* Where the worker itself may call writer_write, and where it goes on afterwards: in
\* handlers, at the end of an eventlog and with its header.
AfterLog == [pre_run |-> "pre_unlock", end |-> "stop", header |-> "post_lock",
             post_run |-> "post_unlock"]

\* No handler logs, or nothing is left to be written.
WorkerQuiet ==
  /\ wpc \in {"pre_run", "end", "post_run"}
  /\ wpc' = AfterLog[wpc]
  /\ UNCHANGED <<rest_w, rest_l, lock, conn, attached>>

WorkerLogLock ==
  /\ wpc \in DOMAIN AfterLog /\ (wpc = "header" \/ attached) /\ Free
  /\ lock' = "worker" /\ back' = AfterLog[wpc] /\ wpc' = "log"
  /\ UNCHANGED <<rest_w, seen, hooks, first, conn, attached>>

\* The block is sent, queued without a byte for the pipe, or dropped.
WorkerLogUnlock ==
  /\ wpc = "log"
  /\ lock' = "nobody" /\ wpc' = back /\ back' = "none"
  /\ UNCHANGED <<rest_w, seen, hooks, first, conn, attached>>

\* es_worker_wake, called by the worker itself: see RtsWake and RtsWakeWrite.
WorkerLogWake ==
  /\ wpc = "log" /\ pipe[1] = "open"
  /\ wpc' = "log_wake"
  /\ UNCHANGED <<rest_w, rest_l, lock, conn, attached>>

WorkerLogWakeWrite ==
  /\ wpc = "log_wake"
  /\ IF \A i \in {0, 1} : pipe[i] = "open"
     THEN lock' = "nobody" /\ wpc' = back
     ELSE lock' = lock /\ wpc' = "ended"
  /\ back' = "none"
  /\ UNCHANGED <<rest_w, seen, hooks, first, conn, attached>>

\* endEventLogging ends with writer_stop, if the writer that it ends is ours.
WorkerStop ==
  /\ wpc = "stop" /\ (attached => Free)
  /\ attached' = FALSE /\ conn' = FALSE /\ wpc' = "publish"
  /\ UNCHANGED <<rest_w, rest_l, lock>>

\* The connection is published under g_mutex.
WorkerPublish ==
  /\ wpc = "publish" /\ Free
  /\ conn' = TRUE
  /\ wpc' = IF "start" \in seen THEN "start" ELSE IF "first" \in seen THEN "loop" ELSE "mark"
  /\ seen' = IF wpc' = "start" THEN seen ELSE {}
  /\ UNCHANGED <<rest_w, back, hooks, first, lock, attached>>

\* The call of startEventLogging that returns true, with writer_init.  Calls that return
\* false change nothing, and nothing bounds their number.
WorkerStart ==
  /\ wpc = "start" /\ Free
  /\ attached' = TRUE /\ wpc' = "header"
  /\ UNCHANGED <<rest_w, rest_l, lock, conn>>

WorkerMark ==
  /\ wpc = "mark" /\ Free
  /\ first' = TRUE /\ wpc' = "loop"
  /\ UNCHANGED <<rest_w, listener, hooks, lock, conn, attached>>

\* Cancellation inside a call: poll(), accept(), write() to the client or to the pipe,
\* whatever a handler or another writer calls.  pthread_cond_wait locks g_mutex again
\* first, and nobody unlocks it: there is no cleanup handler.
WorkerCancel ==
  /\ "worker" \in cancelled
  /\ \/ wpc \in {"poll", "listen", "write", "pre_run", "end", "post_run", "log", "log_wake"}
        /\ lock' = lock
     \/ wpc = "rtswait" /\ Free /\ lock' = "worker"
  /\ wpc' = "ended" /\ seen' = {} /\ back' = "none"
  /\ UNCHANGED <<rest_w, hooks, first, conn, attached>>

-----------------------------------------------------------------------------
(* The control thread *)

rest_c == <<mpc, config, init, socket, pipe, atexit, wpc, rpc, cancelled, listener, hooks,
            flags, conn, rts, counts>>

\* es_control_wait_ghc_rts_ready
ControlBoot ==
  /\ cpc = "boot" /\ Free
  /\ cpc' = IF ready THEN "loop" ELSE "rtswait"
  /\ UNCHANGED <<rest_c, lock>>

\* The head of the loop: pthread_testcancel.
ControlLoop ==
  /\ cpc = "loop"
  /\ cpc' = IF "control" \in cancelled THEN "ended" ELSE "step"
  /\ UNCHANGED <<rest_c, lock>>

ControlRead ==
  /\ cpc = "step" /\ Free
  /\ cpc' = IF conn THEN "poll" ELSE "connwait"
  /\ UNCHANGED <<rest_c, lock>>

\* A wait on a condition ends, for the one on connections perhaps without a reason.
ControlWoken ==
  /\ cpc = "connwait" \/ (cpc = "rtswait" /\ ready)
  /\ Free
  /\ cpc' = "loop"
  /\ UNCHANGED <<rest_c, lock>>

\* poll(), recv() and the chunk; an error ends the thread.
ControlPoll ==
  /\ cpc = "poll"
  /\ cpc' \in {"loop", "ended"}
  /\ UNCHANGED <<rest_c, lock>>

ControlCancel ==
  /\ "control" \in cancelled
  /\ \/ cpc = "poll" /\ lock' = lock
     \/ cpc \in {"rtswait", "connwait"} /\ Free /\ lock' = "control"
  /\ cpc' = "ended"
  /\ UNCHANGED rest_c

-----------------------------------------------------------------------------
(* An RTS thread in writer_write *)

rest_r == <<mpc, config, init, socket, pipe, atexit, wpc, cpc, cancelled, listener, hooks,
            flags, conn, rts, starts>>

RtsLock ==
  /\ rpc = "idle" /\ rts /\ attached /\ Free /\ writes < MaxWrites
  /\ writes' = writes + 1
  /\ lock' = "rts" /\ rpc' = "locked"
  /\ UNCHANGED rest_r

\* No byte is needed, or es_worker_wake finds no pipe.
RtsUnlock ==
  /\ rpc = "locked"
  /\ lock' = "nobody" /\ rpc' = "idle"
  /\ UNCHANGED <<rest_r, writes>>

\* es_worker_wake has read the descriptor of the pipe.
RtsWake ==
  /\ rpc = "locked" /\ pipe[1] = "open"
  /\ rpc' = "waking"
  /\ UNCHANGED <<rest_r, lock, writes>>

\* The byte is written; if an end of the pipe is closed by now (EPIPE, EBADF), the
\* thread exits with g_mutex.
RtsWakeWrite ==
  /\ rpc = "waking"
  /\ IF \A i \in {0, 1} : pipe[i] = "open"
     THEN lock' = "nobody" /\ rpc' = "idle"
     ELSE lock' = lock /\ rpc' = "ended"
  /\ UNCHANGED <<rest_r, writes>>

-----------------------------------------------------------------------------
InitStep ==
  \/ \E e \in Env : FromEnv(e)
  \/ FromEnvNoMemory \/ InitFails \/ WorkerInit \/ WorkerInitFails
  \/ UnixSocketFails \/ UnixBind \/ UnixBindFails \/ InetSocket
  \/ WorkerCreate \/ ControlCreate \/ ControlCreateFails
  \/ HsInit \/ Signal \/ SignalReady \/ Wait

ExitStep ==
  \/ RunHandler \/ CancelControl \/ Unlink
  \/ \E i \in {0, 1} : ClosePipe(i)
  \/ CancelWorker \/ Join

WorkerStep ==
  \/ WorkerLoop \/ WorkerRead \/ WorkerPoll \/ WorkerHup \/ WorkerWriteLock \/ WorkerWrite
  \/ WorkerListen \/ WorkerAccepted \/ WorkerWoken \/ WorkerDecide
  \/ WorkerHookLock \/ WorkerHookUnlock \/ WorkerQuiet \/ WorkerLogLock \/ WorkerLogUnlock
  \/ WorkerLogWake \/ WorkerLogWakeWrite \/ WorkerStop \/ WorkerPublish \/ WorkerMark

ControlStep == ControlBoot \/ ControlLoop \/ ControlRead \/ ControlWoken \/ ControlPoll

RtsStep == RtsUnlock \/ RtsWake \/ RtsWakeWrite

Next ==
  \/ InitStep \/ RegisterInvalid \/ HsExit \/ CallExit \/ ExitStep \/ Restart
  \/ WorkerStep \/ WorkerStart \/ WorkerCancel
  \/ ControlStep \/ ControlCancel
  \/ RtsLock \/ RtsStep

Spec == Init /\ [][Next]_vars

\* exit() goes on, and so do threads that can; a pending cancellation of a thread
\* that stays in a call is acted upon.  startEventLogging need not ever return true.
Fairness ==
  /\ WF_vars(ExitStep) /\ WF_vars(WorkerStep) /\ WF_vars(WorkerCancel)
  /\ WF_vars(ControlStep) /\ WF_vars(RtsStep)

FairSpec == Spec /\ Fairness

-----------------------------------------------------------------------------
(* Properties *)

ExitPlace == {"exit", "cancel_control", "unlink", "close0", "close1", "cancel_worker",
              "join", "exited", "crashed"}

TypeOK ==
  /\ mpc \in {"env", "init", "socket", "worker_create", "control_create", "hs_init",
              "signal", "ready", "wait", "run"} \cup ExitPlace
  /\ entry \in {"wrap", "start"}
  /\ status \in {"none", "ok", "noaddr", "nohost", "noport", "sys"}
  /\ addr \in Nat \cup {NoAddr, Inet} /\ wait \in BOOLEAN
  /\ init \in {"none", "ok", "error", "inuse"}
  /\ files \subseteq Nat /\ bound \in BOOLEAN /\ sockPath \in BOOLEAN /\ listen \in BOOLEAN
  /\ pipe \in [{0, 1} -> {"none", "open", "closed"}]
  /\ atexit \subseteq {"worker", "control"}
  /\ wpc \in {"none", "loop", "step", "poll", "hup", "write_lock", "write", "listen",
              "accepted", "rtswait", "decide", "pre_lock", "pre_run", "pre_unlock",
              "end", "stop", "publish", "start", "header", "post_lock", "post_run",
              "post_unlock", "mark", "log", "log_wake", "ended"}
  /\ cpc \in {"none", "boot", "rtswait", "loop", "step", "connwait", "poll", "ended"}
  /\ rpc \in {"idle", "locked", "waking", "ended"}
  /\ cancelled \subseteq {"worker", "control"}
  /\ seen \subseteq {"first", "start"}
  /\ back \in {"none", "pre_unlock", "stop", "post_lock", "post_unlock"}
  /\ lock \in {"nobody", "main", "worker", "control", "rts"}
  /\ hooks \in {"nobody", "worker", "lost"}
  /\ ready \in BOOLEAN /\ attached \in BOOLEAN /\ first \in BOOLEAN /\ conn \in BOOLEAN /\ rts \in BOOLEAN
  /\ writes \in Nat /\ starts \in Nat

\* Once exit() is through, the socket file that this process bound is gone, also when
\* eventlog_socket_init failed after that, if the path fits into sun_path.
FileRemoved == mpc = "exited" /\ bound /\ Fits(addr) => addr \notin files

\* A socket file that an earlier process left behind (it crashed, or its path was too
\* long) keeps the next one from binding only if the path does not fit.
RestartBinds == init = "inuse" => ~Fits(addr)

\* The worker never listens on a socket that is not there.
WorkerHasSocket == wpc # "none" => listen

\* exit() cancels a worker that was never created only after eventlog_socket_init
\* reported an error.
CancelsCreated == mpc = "cancel_worker" /\ wpc = "none" => init \in {"error", "inuse"}

\* After exit() the worker does not run any more: nothing of it is used when freed.
WorkerStopped == mpc = "exited" => wpc \in {"none", "ended"}

Ended(t) == \/ t = "worker" /\ wpc = "ended"
            \/ t = "control" /\ cpc = "ended"
            \/ t = "rts" /\ rpc = "ended"

\* A thread ends with g_mutex locked only while the process exits.
MutexLostOnlyAtExit == Ended(lock) => mpc \in ExitPlace

\* Places at which the worker can do nothing before it has locked g_mutex.
NeedsMutex ==
  \/ wpc \in {"step", "hup", "write_lock", "accepted", "rtswait", "decide", "publish", "header",
              "mark"}
  \/ wpc = "stop" /\ attached

\* What keeps a worker from ever coming to a cancellation point: a g_mutex that a thread took
\* with it when it ended, a registry that an invalid registration left locked, and
\* startEventLogging, which es_worker_step_listen calls until it returns true.
WorkerStuck ==
  \/ NeedsMutex /\ Ended(lock)
  \/ wpc \in {"pre_lock", "post_lock"} /\ hooks = "lost"
  \/ wpc = "start"


\* How many steps a cancelled worker in place p has before it at most: the longest way goes
\* through es_worker_step_listen to the next pthread_testcancel, with a writer_write at each
\* place that has one (where it goes on to place b).
StepsLeft(p, b) ==
  LET Rank(q) == CASE q = "post_unlock" -> 3 [] q = "post_lock" -> 7
                   [] q = "stop" -> 13 [] OTHER -> 17
  IN  CASE p = "ended" -> 0
        [] p = "loop" -> 1
        [] p \in {"hup", "write", "mark"} -> 2
        [] p = "write_lock" -> 3
        [] p = "poll" -> 4
        [] p = "post_run" -> 6
        [] p = "header" -> 10
        [] p = "start" -> 11
        [] p = "publish" -> 12
        [] p = "end" -> 16
        [] p = "pre_run" -> 20
        [] p = "pre_lock" -> 21
        [] p = "decide" -> 22
        [] p = "rtswait" -> 23
        [] p = "accepted" -> 24
        [] p = "listen" -> 25
        [] p = "step" -> 26
        [] p = "log" -> Rank(b) + 2
        [] p = "log_wake" -> Rank(b) + 1
        [] OTHER -> Rank(p)

\* Each step of a cancelled worker brings it nearer to its end: es_worker_loop tests for the
\* cancellation, and the loop in es_worker_step_listen that has no cancellation point is
\* left with the first successful call (an unsuccessful one is no step of the model).
CancelledWorkerEnds ==
  [][ "worker" \in cancelled /\ wpc' # wpc /\ starts' = starts
        => StepsLeft(wpc', back') < StepsLeft(wpc, back) ]_vars

\* The worker's next step, or its cancellation, waits for nobody.
WorkerCanMove ==
  \/ wpc \in {"loop", "poll", "write", "listen", "pre_run", "pre_unlock", "end",
              "post_run", "post_unlock", "log", "log_wake"}
  \/ wpc = "stop" /\ ~attached
  \/ wpc \in {"pre_lock", "post_lock"} /\ hooks = "nobody"
  \/ NeedsMutex /\ wpc # "rtswait" /\ Free
  \/ wpc = "rtswait" /\ Free /\ (ready \/ "worker" \in cancelled)

\* A thread that has g_mutex, and goes on to unlock it without waiting for another.
OwnerCanMove ==
  \/ lock = "worker" /\ wpc \in {"write", "log", "log_wake"}
  \/ lock = "rts" /\ rpc \in {"locked", "waking"}

\* While es_worker_cleanup joins the worker, it has ended, can go on, waits for a g_mutex
\* that will be unlocked, or is stuck.
JoinNotStuck ==
  mpc = "join" => wpc = "ended" \/ WorkerCanMove \/ OwnerCanMove \/ WorkerStuck

(* What a document says and the code does not do *)

\* eventlog_socket.h: TOOLONG is returned for an address that is invalid because the
\* path is too long, so an OK address fits.
TooLongReported == status = "ok" /\ addr # Inet => Fits(addr)
=============================================================================
