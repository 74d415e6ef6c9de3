-------------------------- MODULE LifecycleProofs --------------------------
(***************************************************************************)
(* The life of a process, for any paths and any number of processes and    *)
(* events: what exit() leaves behind, whom it cancels and how it waits for *)
(* the worker, and when g_mutex can be lost.                               *)
(***************************************************************************)
EXTENDS Lifecycle, TLAPS

Starting == {"env", "init", "socket", "worker_create", "control_create"}

\* How far the initialisation has come.
StartInv ==
  /\ mpc \in {"env", "init", "socket", "worker_create"} => wpc = "none"
  /\ mpc \in Starting => init = "none" /\ cpc = "none"
  /\ mpc \in {"env", "init"} => atexit = {}
  /\ mpc \in {"socket", "worker_create", "control_create"} => "worker" \in atexit
  /\ mpc \in {"env", "init", "socket"} => ~bound
  /\ mpc = "worker_create" => listen
  /\ mpc \in {"init", "socket"} => addr # NoAddr

\* What the result of eventlog_socket_init says of the worker and the handlers.
ResultInv ==
  /\ mpc = "control_create" \/ init = "ok" => wpc # "none"
  /\ init = "none" /\ mpc \notin Starting => atexit = {} /\ mpc \in {"run", "exit", "exited"}
  /\ mpc = "exited" => "worker" \notin atexit

\* A bound file is removed by a handler that is still to come or that has done so.
FileInv ==
  bound /\ Fits(addr) => sockPath /\ ("worker" \in atexit \/ mpc = "unlink" \/ addr \notin files)

\* So is a worker stopped.
WorkerInv ==
  wpc \notin {"none", "ended"} =>
    "worker" \in atexit \/ mpc \in {"unlink", "close0", "close1", "cancel_worker", "join"}

\* Who holds g_mutex between two steps.
LockInv ==
  /\ lock = "main" => mpc = "ready"
  /\ mpc = "ready" => lock = "main"
  /\ lock = "worker" => wpc \in {"write", "log", "log_wake", "ended"}
  /\ lock = "control" => cpc = "ended"
  /\ lock = "rts" => rpc \in {"locked", "waking", "ended"}
  /\ wpc \in {"write", "log", "log_wake"} => lock = "worker"
  /\ rpc \in {"locked", "waking"} => lock = "rts"

\* The worker has the registry locked exactly while it runs hooks, or it ended there.
HookInv ==
  /\ wpc \in {"pre_run", "pre_unlock", "post_run", "post_unlock"} => hooks = "worker"
  /\ wpc \in {"log", "log_wake"} =>
       back # "none" /\ (hooks = "worker" <=> back \in {"pre_unlock", "post_unlock"})
  /\ hooks = "worker" => wpc \in {"pre_run", "pre_unlock", "post_run", "post_unlock", "log",
                                 "log_wake", "ended"}

\* Threads are cancelled and the pipe is closed only by exit().
ExitInv ==
  /\ cancelled # {} => mpc \in ExitPlace
  /\ "worker" \in cancelled => wpc # "none"
  /\ mpc = "join" => "worker" \in cancelled
  /\ \A i \in {0, 1} : pipe[i] = "closed" => mpc \in ExitPlace
  /\ pipe[0] = "none" => pipe[1] # "open"
  /\ rpc = "waking" \/ wpc = "log_wake" => pipe[0] # "none" /\ pipe[1] # "none"

IInv == /\ TypeOK /\ StartInv /\ ResultInv /\ FileInv /\ WorkerInv /\ LockInv
        /\ HookInv /\ ExitInv
        /\ RestartBinds /\ WorkerHasSocket /\ MutexLostOnlyAtExit


\* Groups of variables, as the actions' UNCHANGED use them.
USE DEF config, socket, listener, threads, flags, shared, counts, rest_w, rest_l, rest_c, rest_r

\* The address is read.
LEMMA FromEnvIInv ==
  ASSUME IInv, NEW e \in Env, FromEnv(e)
  PROVE  IInv'
<1>1. TypeOK'
  BY PathAssumption DEF IInv, TypeOK, ExitPlace, FromEnv, EnvStatus, Env, NoAddr, Inet
<1>2. StartInv' /\ ResultInv' /\ FileInv' /\ WorkerInv'
  BY PathAssumption DEF IInv, TypeOK, Starting, StartInv, ResultInv, FileInv, WorkerInv,
     Fits, Free, FromEnv, EnvStatus, Env, NoAddr, Inet
<1>3. LockInv' /\ HookInv' /\ ExitInv' /\ MutexLostOnlyAtExit'
  BY PathAssumption DEF IInv, TypeOK, LockInv, HookInv, ExitInv, MutexLostOnlyAtExit, Ended,
     ExitPlace, Free, FromEnv, EnvStatus, Env, NoAddr, Inet
<1>4. RestartBinds' /\ WorkerHasSocket'
  BY PathAssumption DEF IInv, TypeOK, StartInv, Starting, RestartBinds, WorkerHasSocket,
     Fits, FromEnv, EnvStatus, Env, NoAddr, Inet
<1> QED
  BY <1>1, <1>2, <1>3, <1>4 DEF IInv

\* There is no memory for the address.
LEMMA FromEnvNoMemoryIInv ==
  ASSUME IInv, FromEnvNoMemory
  PROVE  IInv'
<1>1. TypeOK'
  BY DEF IInv, TypeOK, ExitPlace, FromEnvNoMemory
<1>2. StartInv' /\ ResultInv' /\ FileInv' /\ WorkerInv'
  BY DEF IInv, TypeOK, Starting, StartInv, ResultInv, FileInv, WorkerInv, Fits, Free,
     FromEnvNoMemory
<1>3. LockInv' /\ HookInv' /\ ExitInv' /\ MutexLostOnlyAtExit'
  BY DEF IInv, TypeOK, LockInv, HookInv, ExitInv, MutexLostOnlyAtExit, Ended, ExitPlace, Free,
     FromEnvNoMemory
<1>4. RestartBinds' /\ WorkerHasSocket'
  BY DEF IInv, TypeOK, StartInv, Starting, RestartBinds, WorkerHasSocket, Fits,
     FromEnvNoMemory
<1> QED
  BY <1>1, <1>2, <1>3, <1>4 DEF IInv

\* The RTS has no support, or there is no memory.
LEMMA InitFailsIInv ==
  ASSUME IInv, InitFails
  PROVE  IInv'
<1>1. TypeOK'
  BY DEF IInv, TypeOK, ExitPlace, InitFails, Return
<1>2. StartInv' /\ ResultInv' /\ FileInv' /\ WorkerInv'
  BY DEF IInv, TypeOK, Starting, StartInv, ResultInv, FileInv, WorkerInv, Fits, Free,
     InitFails, Return
<1>3. LockInv' /\ HookInv' /\ ExitInv' /\ MutexLostOnlyAtExit'
  BY DEF IInv, TypeOK, LockInv, HookInv, ExitInv, MutexLostOnlyAtExit, Ended, ExitPlace, Free,
     InitFails, Return
<1>4. RestartBinds' /\ WorkerHasSocket'
  BY DEF IInv, TypeOK, StartInv, Starting, RestartBinds, WorkerHasSocket, Fits, InitFails,
     Return
<1> QED
  BY <1>1, <1>2, <1>3, <1>4 DEF IInv

\* es_worker_init.
LEMMA WorkerInitIInv ==
  ASSUME IInv, WorkerInit
  PROVE  IInv'
<1>1. TypeOK'
  BY DEF IInv, TypeOK, ExitPlace, WorkerInit
<1>2. StartInv' /\ ResultInv' /\ FileInv' /\ WorkerInv'
  BY DEF IInv, TypeOK, Starting, StartInv, ResultInv, FileInv, WorkerInv, Fits, Free,
     WorkerInit
<1>3. LockInv' /\ HookInv' /\ ExitInv' /\ MutexLostOnlyAtExit'
  BY DEF IInv, TypeOK, LockInv, HookInv, ExitInv, MutexLostOnlyAtExit, Ended, ExitPlace, Free,
     WorkerInit
<1>4. RestartBinds' /\ WorkerHasSocket'
  BY DEF IInv, TypeOK, StartInv, Starting, RestartBinds, WorkerHasSocket, Fits, WorkerInit
<1> QED
  BY <1>1, <1>2, <1>3, <1>4 DEF IInv

\* It fails.
LEMMA WorkerInitFailsIInv ==
  ASSUME IInv, WorkerInitFails
  PROVE  IInv'
<1>1. TypeOK'
  BY DEF IInv, TypeOK, ExitPlace, WorkerInitFails, Return
<1>2. StartInv' /\ ResultInv' /\ FileInv' /\ WorkerInv'
  BY DEF IInv, TypeOK, Starting, StartInv, ResultInv, FileInv, WorkerInv, Fits, Free,
     WorkerInitFails, Return
<1>3. LockInv' /\ HookInv' /\ ExitInv' /\ MutexLostOnlyAtExit'
  BY DEF IInv, TypeOK, LockInv, HookInv, ExitInv, MutexLostOnlyAtExit, Ended, ExitPlace, Free,
     WorkerInitFails, Return
<1>4. RestartBinds' /\ WorkerHasSocket'
  BY DEF IInv, TypeOK, StartInv, Starting, RestartBinds, WorkerHasSocket, Fits,
     WorkerInitFails, Return
<1> QED
  BY <1>1, <1>2, <1>3, <1>4 DEF IInv

\* No Unix domain socket.
LEMMA UnixSocketFailsIInv ==
  ASSUME IInv, UnixSocketFails
  PROVE  IInv'
<1>1. TypeOK'
  BY DEF IInv, TypeOK, ExitPlace, UnixSocketFails, Return
<1>2. StartInv' /\ ResultInv' /\ FileInv' /\ WorkerInv'
  BY DEF IInv, TypeOK, Starting, StartInv, ResultInv, FileInv, WorkerInv, Fits, Free,
     UnixSocketFails, Return
<1>3. LockInv' /\ HookInv' /\ ExitInv' /\ MutexLostOnlyAtExit'
  BY DEF IInv, TypeOK, LockInv, HookInv, ExitInv, MutexLostOnlyAtExit, Ended, ExitPlace, Free,
     UnixSocketFails, Return
<1>4. RestartBinds' /\ WorkerHasSocket'
  BY DEF IInv, TypeOK, StartInv, Starting, RestartBinds, WorkerHasSocket, Fits,
     UnixSocketFails, Return
<1> QED
  BY <1>1, <1>2, <1>3, <1>4 DEF IInv

\* The path is bound, or in use.
LEMMA UnixBindIInv ==
  ASSUME IInv, UnixBind
  PROVE  IInv'
<1>a. addr # NoAddr /\ addr # Inet
  BY DEF IInv, StartInv, UnixBind
<1>b. addr \in Nat
  BY <1>a DEF IInv, TypeOK
<1>c. SunPath(addr) \in Nat
  BY <1>b, PathAssumption DEF SunPath, Fits
<1>d. files' \subseteq Nat
  BY <1>c DEF IInv, TypeOK, UnixBind
<1>e. bound' \in BOOLEAN
  BY Zenon DEF IInv, TypeOK, UnixBind
<1>1. TypeOK'
  BY <1>a, <1>b, <1>c, <1>d, <1>e, PathAssumption DEF IInv, TypeOK, ExitPlace, UnixBind,
     Return, Fits, SunPath, NoAddr, Inet
<1>2. StartInv' /\ ResultInv' /\ FileInv' /\ WorkerInv'
  BY PathAssumption DEF IInv, TypeOK, Starting, StartInv, ResultInv, FileInv, WorkerInv,
     Fits, Free, UnixBind, Return, Fits, SunPath, NoAddr, Inet
<1>3. LockInv' /\ HookInv' /\ ExitInv' /\ MutexLostOnlyAtExit'
  BY PathAssumption DEF IInv, TypeOK, LockInv, HookInv, ExitInv, MutexLostOnlyAtExit, Ended,
     ExitPlace, Free, UnixBind, Return, Fits, SunPath, NoAddr, Inet
<1>4. RestartBinds' /\ WorkerHasSocket'
  BY PathAssumption DEF IInv, TypeOK, StartInv, Starting, RestartBinds, WorkerHasSocket,
     Fits, UnixBind, Return, Fits, SunPath, NoAddr, Inet
<1> QED
  BY <1>1, <1>2, <1>3, <1>4 DEF IInv

\* bind() fails.
LEMMA UnixBindFailsIInv ==
  ASSUME IInv, UnixBindFails
  PROVE  IInv'
<1>1. TypeOK'
  BY PathAssumption DEF IInv, TypeOK, ExitPlace, UnixBindFails, Return
<1>2. StartInv' /\ ResultInv' /\ FileInv' /\ WorkerInv'
  BY PathAssumption DEF IInv, TypeOK, Starting, StartInv, ResultInv, FileInv, WorkerInv,
     Fits, Free, UnixBindFails, Return
<1>3. LockInv' /\ HookInv' /\ ExitInv' /\ MutexLostOnlyAtExit'
  BY PathAssumption DEF IInv, TypeOK, LockInv, HookInv, ExitInv, MutexLostOnlyAtExit, Ended,
     ExitPlace, Free, UnixBindFails, Return
<1>4. RestartBinds' /\ WorkerHasSocket'
  BY PathAssumption DEF IInv, TypeOK, StartInv, Starting, RestartBinds, WorkerHasSocket,
     Fits, UnixBindFails, Return
<1> QED
  BY <1>1, <1>2, <1>3, <1>4 DEF IInv

\* A TCP socket, or none.
LEMMA InetSocketIInv ==
  ASSUME IInv, InetSocket
  PROVE  IInv'
<1>1. TypeOK'
  BY DEF IInv, TypeOK, ExitPlace, InetSocket, Return
<1>2. StartInv' /\ ResultInv' /\ FileInv' /\ WorkerInv'
  BY DEF IInv, TypeOK, Starting, StartInv, ResultInv, FileInv, WorkerInv, Fits, Free,
     InetSocket, Return
<1>3. LockInv' /\ HookInv' /\ ExitInv' /\ MutexLostOnlyAtExit'
  BY DEF IInv, TypeOK, LockInv, HookInv, ExitInv, MutexLostOnlyAtExit, Ended, ExitPlace, Free,
     InetSocket, Return
<1>4. RestartBinds' /\ WorkerHasSocket'
  BY DEF IInv, TypeOK, StartInv, Starting, RestartBinds, WorkerHasSocket, Fits, InetSocket,
     Return
<1> QED
  BY <1>1, <1>2, <1>3, <1>4 DEF IInv

\* The worker is created, or not.
LEMMA WorkerCreateIInv ==
  ASSUME IInv, WorkerCreate
  PROVE  IInv'
<1>1. TypeOK'
  BY DEF IInv, TypeOK, ExitPlace, WorkerCreate, Return
<1>2. StartInv' /\ ResultInv' /\ FileInv' /\ WorkerInv'
  BY DEF IInv, TypeOK, Starting, StartInv, ResultInv, FileInv, WorkerInv, Fits, Free,
     WorkerCreate, Return
<1>3. LockInv' /\ HookInv' /\ ExitInv' /\ MutexLostOnlyAtExit'
  BY DEF IInv, TypeOK, StartInv, LockInv, HookInv, ExitInv, MutexLostOnlyAtExit, Ended, ExitPlace,
     Free, WorkerCreate, Return
<1>4. RestartBinds' /\ WorkerHasSocket'
  BY DEF IInv, TypeOK, StartInv, Starting, RestartBinds, WorkerHasSocket, Fits,
     WorkerCreate, Return
<1> QED
  BY <1>1, <1>2, <1>3, <1>4 DEF IInv

\* The control thread is created.
LEMMA ControlCreateIInv ==
  ASSUME IInv, ControlCreate
  PROVE  IInv'
<1>1. TypeOK'
  BY DEF IInv, TypeOK, ExitPlace, ControlCreate, Return
<1>2. StartInv' /\ ResultInv' /\ FileInv' /\ WorkerInv'
  BY DEF IInv, TypeOK, Starting, StartInv, ResultInv, FileInv, WorkerInv, Fits, Free,
     ControlCreate, Return
<1>3. LockInv' /\ HookInv' /\ ExitInv' /\ MutexLostOnlyAtExit'
  BY DEF IInv, TypeOK, LockInv, HookInv, ExitInv, MutexLostOnlyAtExit, Ended, ExitPlace, Free,
     ControlCreate, Return
<1>4. RestartBinds' /\ WorkerHasSocket'
  BY DEF IInv, TypeOK, StartInv, Starting, RestartBinds, WorkerHasSocket, Fits,
     ControlCreate, Return
<1> QED
  BY <1>1, <1>2, <1>3, <1>4 DEF IInv

\* It is not.
LEMMA ControlCreateFailsIInv ==
  ASSUME IInv, ControlCreateFails
  PROVE  IInv'
<1>1. TypeOK'
  BY DEF IInv, TypeOK, ExitPlace, ControlCreateFails, Return
<1>2. StartInv' /\ ResultInv' /\ FileInv' /\ WorkerInv'
  BY DEF IInv, TypeOK, Starting, StartInv, ResultInv, FileInv, WorkerInv, Fits, Free,
     ControlCreateFails, Return
<1>3. LockInv' /\ HookInv' /\ ExitInv' /\ MutexLostOnlyAtExit'
  BY DEF IInv, TypeOK, LockInv, HookInv, ExitInv, MutexLostOnlyAtExit, Ended, ExitPlace, Free,
     ControlCreateFails, Return
<1>4. RestartBinds' /\ WorkerHasSocket'
  BY DEF IInv, TypeOK, StartInv, Starting, RestartBinds, WorkerHasSocket, Fits,
     ControlCreateFails, Return
<1> QED
  BY <1>1, <1>2, <1>3, <1>4 DEF IInv

\* The RTS starts.
LEMMA HsInitIInv ==
  ASSUME IInv, HsInit
  PROVE  IInv'
<1>1. TypeOK'
  BY DEF IInv, TypeOK, ExitPlace, HsInit
<1>2. StartInv' /\ ResultInv' /\ FileInv' /\ WorkerInv'
  BY DEF IInv, TypeOK, Starting, StartInv, ResultInv, FileInv, WorkerInv, Fits, Free, HsInit
<1>3. LockInv' /\ HookInv' /\ ExitInv' /\ MutexLostOnlyAtExit'
  BY DEF IInv, TypeOK, LockInv, HookInv, ExitInv, MutexLostOnlyAtExit, Ended, ExitPlace, Free, HsInit
<1>4. RestartBinds' /\ WorkerHasSocket'
  BY DEF IInv, TypeOK, StartInv, Starting, RestartBinds, WorkerHasSocket, Fits, HsInit
<1> QED
  BY <1>1, <1>2, <1>3, <1>4 DEF IInv

\* The signal.
LEMMA SignalIInv ==
  ASSUME IInv, Signal
  PROVE  IInv'
<1>1. TypeOK'
  BY DEF IInv, TypeOK, ExitPlace, Signal
<1>2. StartInv' /\ ResultInv' /\ FileInv' /\ WorkerInv'
  BY DEF IInv, TypeOK, Starting, StartInv, ResultInv, FileInv, WorkerInv, Fits, Free, Signal
<1>3. LockInv' /\ HookInv' /\ ExitInv' /\ MutexLostOnlyAtExit'
  BY DEF IInv, TypeOK, LockInv, HookInv, ExitInv, MutexLostOnlyAtExit, Ended, ExitPlace, Free, Signal
<1>4. RestartBinds' /\ WorkerHasSocket'
  BY DEF IInv, TypeOK, StartInv, Starting, RestartBinds, WorkerHasSocket, Fits, Signal
<1> QED
  BY <1>1, <1>2, <1>3, <1>4 DEF IInv

\* The signal, with g_mutex.
LEMMA SignalReadyIInv ==
  ASSUME IInv, SignalReady
  PROVE  IInv'
<1>1. TypeOK'
  BY DEF IInv, TypeOK, ExitPlace, SignalReady
<1>2. StartInv' /\ ResultInv' /\ FileInv' /\ WorkerInv'
  BY DEF IInv, TypeOK, Starting, StartInv, ResultInv, FileInv, WorkerInv, Fits, Free,
     SignalReady
<1>3. LockInv' /\ HookInv' /\ ExitInv' /\ MutexLostOnlyAtExit'
  BY DEF IInv, TypeOK, LockInv, HookInv, ExitInv, MutexLostOnlyAtExit, Ended, ExitPlace,
     Free, SignalReady
<1>4. RestartBinds' /\ WorkerHasSocket'
  BY DEF IInv, TypeOK, StartInv, Starting, RestartBinds, WorkerHasSocket, Fits,
     SignalReady
<1> QED
  BY <1>1, <1>2, <1>3, <1>4 DEF IInv

\* The wait ends.
LEMMA WaitIInv ==
  ASSUME IInv, Wait
  PROVE  IInv'
<1>1. TypeOK'
  BY DEF IInv, TypeOK, ExitPlace, Wait
<1>2. StartInv' /\ ResultInv' /\ FileInv' /\ WorkerInv'
  BY DEF IInv, TypeOK, Starting, StartInv, ResultInv, FileInv, WorkerInv, Fits, Free, Wait
<1>3. LockInv' /\ HookInv' /\ ExitInv' /\ MutexLostOnlyAtExit'
  BY DEF IInv, TypeOK, LockInv, HookInv, ExitInv, MutexLostOnlyAtExit, Ended, ExitPlace, Free, Wait
<1>4. RestartBinds' /\ WorkerHasSocket'
  BY DEF IInv, TypeOK, StartInv, Starting, RestartBinds, WorkerHasSocket, Fits, Wait
<1> QED
  BY <1>1, <1>2, <1>3, <1>4 DEF IInv

\* The registry is left locked.
LEMMA RegisterInvalidIInv ==
  ASSUME IInv, RegisterInvalid
  PROVE  IInv'
<1>1. TypeOK'
  BY DEF IInv, TypeOK, ExitPlace, RegisterInvalid
<1>2. StartInv' /\ ResultInv' /\ FileInv' /\ WorkerInv'
  BY DEF IInv, TypeOK, Starting, StartInv, ResultInv, FileInv, WorkerInv, Fits, Free,
     RegisterInvalid
<1>3. LockInv' /\ HookInv' /\ ExitInv' /\ MutexLostOnlyAtExit'
  BY DEF IInv, TypeOK, LockInv, HookInv, ExitInv, MutexLostOnlyAtExit, Ended, ExitPlace,
     Free, RegisterInvalid
<1>4. RestartBinds' /\ WorkerHasSocket'
  BY DEF IInv, TypeOK, StartInv, Starting, RestartBinds, WorkerHasSocket, Fits,
     RegisterInvalid
<1> QED
  BY <1>1, <1>2, <1>3, <1>4 DEF IInv

\* The RTS stops.
LEMMA HsExitIInv ==
  ASSUME IInv, HsExit
  PROVE  IInv'
<1>a. conn' \in BOOLEAN /\ rts' \in BOOLEAN /\ attached' \in BOOLEAN
  BY Zenon DEF HsExit
<1>b. /\ mpc' = "exit"
      /\ UNCHANGED <<config, init, socket, pipe, atexit, threads, lock, hooks, ready, first,
                     counts>>
  BY Zenon DEF HsExit
<1>1. TypeOK'
  BY <1>a, <1>b DEF IInv, TypeOK, ExitPlace
<1>2. StartInv' /\ ResultInv' /\ FileInv' /\ WorkerInv'
  BY DEF IInv, TypeOK, Starting, StartInv, ResultInv, FileInv, WorkerInv, Fits, Free, HsExit
<1>3. LockInv' /\ HookInv' /\ ExitInv' /\ MutexLostOnlyAtExit'
  BY DEF IInv, TypeOK, LockInv, HookInv, ExitInv, MutexLostOnlyAtExit, Ended, ExitPlace, Free, HsExit
<1>4. RestartBinds' /\ WorkerHasSocket'
  BY DEF IInv, TypeOK, StartInv, Starting, RestartBinds, WorkerHasSocket, Fits, HsExit
<1> QED
  BY <1>1, <1>2, <1>3, <1>4 DEF IInv

\* exit() is called.
LEMMA CallExitIInv ==
  ASSUME IInv, CallExit
  PROVE  IInv'
<1>1. TypeOK'
  BY DEF IInv, TypeOK, ExitPlace, CallExit
<1>2. StartInv' /\ ResultInv' /\ FileInv' /\ WorkerInv'
  BY DEF IInv, TypeOK, Starting, StartInv, ResultInv, FileInv, WorkerInv, Fits, Free,
     CallExit
<1>3. LockInv' /\ HookInv' /\ ExitInv' /\ MutexLostOnlyAtExit'
  BY DEF IInv, TypeOK, LockInv, HookInv, ExitInv, MutexLostOnlyAtExit, Ended, ExitPlace, Free,
     CallExit
<1>4. RestartBinds' /\ WorkerHasSocket'
  BY DEF IInv, TypeOK, StartInv, Starting, RestartBinds, WorkerHasSocket, Fits, CallExit
<1> QED
  BY <1>1, <1>2, <1>3, <1>4 DEF IInv

\* The next handler.
LEMMA RunHandlerIInv ==
  ASSUME IInv, RunHandler
  PROVE  IInv'
<1>1. TypeOK'
  BY DEF IInv, TypeOK, ExitPlace, RunHandler
<1>2. StartInv' /\ ResultInv' /\ FileInv' /\ WorkerInv'
  BY DEF IInv, TypeOK, Starting, StartInv, ResultInv, FileInv, WorkerInv, Fits, Free,
     RunHandler
<1>3. LockInv' /\ HookInv' /\ ExitInv' /\ MutexLostOnlyAtExit'
  BY DEF IInv, TypeOK, LockInv, HookInv, ExitInv, MutexLostOnlyAtExit, Ended, ExitPlace, Free,
     RunHandler
<1>4. RestartBinds' /\ WorkerHasSocket'
  BY DEF IInv, TypeOK, StartInv, Starting, RestartBinds, WorkerHasSocket, Fits, RunHandler
<1> QED
  BY <1>1, <1>2, <1>3, <1>4 DEF IInv

\* The control thread is cancelled.
LEMMA CancelControlIInv ==
  ASSUME IInv, CancelControl
  PROVE  IInv'
<1>a. cancelled' \subseteq {"worker", "control"}
  BY DEF IInv, TypeOK, CancelControl
<1>b. mpc' \in ExitPlace
  BY DEF CancelControl, ExitPlace
<1>1. TypeOK'
  BY <1>a, <1>b DEF IInv, TypeOK, ExitPlace, CancelControl
<1>2. StartInv' /\ ResultInv' /\ FileInv' /\ WorkerInv'
  BY DEF IInv, TypeOK, Starting, StartInv, ResultInv, FileInv, WorkerInv, Fits, Free,
     CancelControl
<1>3. LockInv' /\ HookInv' /\ ExitInv' /\ MutexLostOnlyAtExit'
  BY DEF IInv, TypeOK, LockInv, HookInv, ExitInv, MutexLostOnlyAtExit, Ended, ExitPlace, Free,
     CancelControl
<1>4. RestartBinds' /\ WorkerHasSocket'
  BY DEF IInv, TypeOK, StartInv, Starting, RestartBinds, WorkerHasSocket, Fits,
     CancelControl
<1> QED
  BY <1>1, <1>2, <1>3, <1>4 DEF IInv

\* The socket file is removed.
LEMMA UnlinkIInv ==
  ASSUME IInv, Unlink
  PROVE  IInv'
<1>1. TypeOK'
  BY DEF IInv, TypeOK, ExitPlace, Unlink
<1>2. StartInv' /\ ResultInv' /\ FileInv' /\ WorkerInv'
  BY DEF IInv, TypeOK, Starting, StartInv, ResultInv, FileInv, WorkerInv, Fits, Free, Unlink
<1>3. LockInv' /\ HookInv' /\ ExitInv' /\ MutexLostOnlyAtExit'
  BY DEF IInv, TypeOK, LockInv, HookInv, ExitInv, MutexLostOnlyAtExit, Ended, ExitPlace, Free, Unlink
<1>4. RestartBinds' /\ WorkerHasSocket'
  BY DEF IInv, TypeOK, StartInv, Starting, RestartBinds, WorkerHasSocket, Fits, Unlink
<1> QED
  BY <1>1, <1>2, <1>3, <1>4 DEF IInv

\* An end of the pipe is closed.
LEMMA ClosePipeIInv ==
  ASSUME IInv, NEW i \in {0, 1}, ClosePipe(i)
  PROVE  IInv'
<1>1. TypeOK'
  BY DEF IInv, TypeOK, ExitPlace, ClosePipe
<1>2. StartInv' /\ ResultInv' /\ FileInv' /\ WorkerInv'
  BY DEF IInv, TypeOK, Starting, StartInv, ResultInv, FileInv, WorkerInv, Fits, Free,
     ClosePipe
<1>3. LockInv' /\ HookInv' /\ ExitInv' /\ MutexLostOnlyAtExit'
  BY DEF IInv, TypeOK, LockInv, HookInv, ExitInv, MutexLostOnlyAtExit, Ended, ExitPlace, Free,
     ClosePipe
<1>4. RestartBinds' /\ WorkerHasSocket'
  BY DEF IInv, TypeOK, StartInv, Starting, RestartBinds, WorkerHasSocket, Fits, ClosePipe
<1> QED
  BY <1>1, <1>2, <1>3, <1>4 DEF IInv

\* The worker is cancelled.
LEMMA CancelWorkerIInv ==
  ASSUME IInv, CancelWorker
  PROVE  IInv'
<1>a. cancelled' \subseteq {"worker", "control"}
  BY DEF IInv, TypeOK, CancelWorker
<1>b. mpc' \in ExitPlace
  BY DEF CancelWorker, ExitPlace
<1>1. TypeOK'
  BY <1>a, <1>b DEF IInv, TypeOK, ExitPlace, CancelWorker
<1>2. StartInv' /\ ResultInv' /\ FileInv' /\ WorkerInv'
  BY DEF IInv, TypeOK, Starting, StartInv, ResultInv, FileInv, WorkerInv, Fits, Free,
     CancelWorker
<1>3. LockInv' /\ HookInv' /\ ExitInv' /\ MutexLostOnlyAtExit'
  BY DEF IInv, TypeOK, LockInv, HookInv, ExitInv, MutexLostOnlyAtExit, Ended, ExitPlace, Free,
     CancelWorker
<1>4. RestartBinds' /\ WorkerHasSocket'
  BY DEF IInv, TypeOK, StartInv, Starting, RestartBinds, WorkerHasSocket, Fits, CancelWorker
<1> QED
  BY <1>1, <1>2, <1>3, <1>4 DEF IInv

\* The worker has ended.
LEMMA JoinIInv ==
  ASSUME IInv, Join
  PROVE  IInv'
<1>1. TypeOK'
  BY DEF IInv, TypeOK, ExitPlace, Join
<1>2. StartInv' /\ ResultInv' /\ FileInv' /\ WorkerInv'
  BY DEF IInv, TypeOK, Starting, StartInv, ResultInv, FileInv, WorkerInv, Fits, Free, Join
<1>3. LockInv' /\ HookInv' /\ ExitInv' /\ MutexLostOnlyAtExit'
  BY DEF IInv, TypeOK, LockInv, HookInv, ExitInv, MutexLostOnlyAtExit, Ended, ExitPlace, Free, Join
<1>4. RestartBinds' /\ WorkerHasSocket'
  BY DEF IInv, TypeOK, StartInv, Starting, RestartBinds, WorkerHasSocket, Fits, Join
<1> QED
  BY <1>1, <1>2, <1>3, <1>4 DEF IInv

\* The next process: all but the files is as in Init.
LEMMA RestartIInv ==
  ASSUME IInv, Restart
  PROVE  IInv'
<1>a. /\ rts' \in BOOLEAN /\ wait' \in BOOLEAN /\ bound' \in BOOLEAN /\ sockPath' \in BOOLEAN
      /\ listen' \in BOOLEAN /\ ready' \in BOOLEAN /\ attached' \in BOOLEAN /\ conn' \in BOOLEAN
      /\ first' \in BOOLEAN
  BY Zenon DEF Restart, Process
<1>b. pipe' \in [{0, 1} -> {"none", "open", "closed"}]
  BY DEF Restart, Process
<1>c. /\ mpc' = "env" /\ entry' \in {"wrap", "start"} /\ status' = "none"
      /\ addr' = NoAddr /\ init' = "none" /\ atexit' = {} /\ wpc' = "none"
      /\ cpc' = "none" /\ rpc' = "idle" /\ cancelled' = {} /\ lock' = "nobody"
      /\ hooks' = "nobody" /\ seen' = {} /\ back' = "none" /\ writes' = 0 /\ files' = files /\ starts' = starts + 1
  BY Zenon DEF Restart, Process
<1>1. TypeOK'
  BY <1>a, <1>b, <1>c DEF IInv, TypeOK
<1>2. StartInv' /\ ResultInv' /\ FileInv' /\ WorkerInv'
  BY DEF IInv, TypeOK, Starting, StartInv, ResultInv, FileInv, WorkerInv, Fits, Free,
     Restart, Process, NoAddr, Inet
<1>3. LockInv' /\ HookInv' /\ ExitInv' /\ MutexLostOnlyAtExit'
  BY DEF IInv, TypeOK, LockInv, HookInv, ExitInv, MutexLostOnlyAtExit, Ended, ExitPlace, Free,
     Restart, Process, NoAddr, Inet
<1>4. RestartBinds' /\ WorkerHasSocket'
  BY DEF IInv, TypeOK, StartInv, Starting, RestartBinds, WorkerHasSocket, Fits, Restart,
     Process, NoAddr, Inet
<1> QED
  BY <1>1, <1>2, <1>3, <1>4 DEF IInv

\* The worker: the head of its loop.
LEMMA WorkerLoopIInv ==
  ASSUME IInv, WorkerLoop
  PROVE  IInv'
<1>1. TypeOK'
  BY DEF IInv, TypeOK, ExitPlace, WorkerLoop
<1>2. StartInv' /\ ResultInv' /\ FileInv' /\ WorkerInv'
  BY DEF IInv, TypeOK, Starting, StartInv, ResultInv, FileInv, WorkerInv, Fits, Free,
     WorkerLoop
<1>3. LockInv' /\ HookInv' /\ ExitInv' /\ MutexLostOnlyAtExit'
  BY DEF IInv, TypeOK, LockInv, HookInv, ExitInv, MutexLostOnlyAtExit, Ended, ExitPlace, Free,
     WorkerLoop
<1>4. RestartBinds' /\ WorkerHasSocket'
  BY DEF IInv, TypeOK, StartInv, Starting, RestartBinds, WorkerHasSocket, Fits, WorkerLoop
<1> QED
  BY <1>1, <1>2, <1>3, <1>4 DEF IInv

\* The worker: it reads the connection.
LEMMA WorkerReadIInv ==
  ASSUME IInv, WorkerRead
  PROVE  IInv'
<1>1. TypeOK'
  BY DEF IInv, TypeOK, ExitPlace, WorkerRead
<1>2. StartInv' /\ ResultInv' /\ FileInv' /\ WorkerInv'
  BY DEF IInv, TypeOK, Starting, StartInv, ResultInv, FileInv, WorkerInv, Fits, Free,
     WorkerRead
<1>3. LockInv' /\ HookInv' /\ ExitInv' /\ MutexLostOnlyAtExit'
  BY DEF IInv, TypeOK, LockInv, HookInv, ExitInv, MutexLostOnlyAtExit, Ended, ExitPlace, Free,
     WorkerRead
<1>4. RestartBinds' /\ WorkerHasSocket'
  BY DEF IInv, TypeOK, StartInv, Starting, RestartBinds, WorkerHasSocket, Fits, WorkerRead
<1> QED
  BY <1>1, <1>2, <1>3, <1>4 DEF IInv

\* The worker: it polls.
LEMMA WorkerPollIInv ==
  ASSUME IInv, WorkerPoll
  PROVE  IInv'
<1>1. TypeOK'
  BY DEF IInv, TypeOK, ExitPlace, WorkerPoll
<1>2. StartInv' /\ ResultInv' /\ FileInv' /\ WorkerInv'
  BY DEF IInv, TypeOK, Starting, StartInv, ResultInv, FileInv, WorkerInv, Fits, Free,
     WorkerPoll
<1>3. LockInv' /\ HookInv' /\ ExitInv' /\ MutexLostOnlyAtExit'
  BY DEF IInv, TypeOK, LockInv, HookInv, ExitInv, MutexLostOnlyAtExit, Ended, ExitPlace, Free,
     WorkerPoll
<1>4. RestartBinds' /\ WorkerHasSocket'
  BY DEF IInv, TypeOK, StartInv, Starting, RestartBinds, WorkerHasSocket, Fits, WorkerPoll
<1> QED
  BY <1>1, <1>2, <1>3, <1>4 DEF IInv

\* The worker: the client is gone.
LEMMA WorkerHupIInv ==
  ASSUME IInv, WorkerHup
  PROVE  IInv'
<1>a. conn' \in BOOLEAN
  BY Zenon DEF WorkerHup
<1>1. TypeOK'
  BY <1>a DEF IInv, TypeOK, ExitPlace, WorkerHup
<1>2. StartInv' /\ ResultInv' /\ FileInv' /\ WorkerInv'
  BY DEF IInv, TypeOK, Starting, StartInv, ResultInv, FileInv, WorkerInv, Fits, Free,
     WorkerHup
<1>3. LockInv' /\ HookInv' /\ ExitInv' /\ MutexLostOnlyAtExit'
  BY DEF IInv, TypeOK, LockInv, HookInv, ExitInv, MutexLostOnlyAtExit, Ended, ExitPlace, Free,
     WorkerHup
<1>4. RestartBinds' /\ WorkerHasSocket'
  BY DEF IInv, TypeOK, StartInv, Starting, RestartBinds, WorkerHasSocket, Fits, WorkerHup
<1> QED
  BY <1>1, <1>2, <1>3, <1>4 DEF IInv

\* The worker: it locks g_mutex to write.
LEMMA WorkerWriteLockIInv ==
  ASSUME IInv, WorkerWriteLock
  PROVE  IInv'
<1>1. TypeOK'
  BY DEF IInv, TypeOK, ExitPlace, WorkerWriteLock
<1>2. StartInv' /\ ResultInv' /\ FileInv' /\ WorkerInv'
  BY DEF IInv, TypeOK, Starting, StartInv, ResultInv, FileInv, WorkerInv, Fits, Free,
     WorkerWriteLock
<1>3. LockInv' /\ HookInv' /\ ExitInv' /\ MutexLostOnlyAtExit'
  BY DEF IInv, TypeOK, LockInv, HookInv, ExitInv, MutexLostOnlyAtExit, Ended, ExitPlace, Free,
     WorkerWriteLock
<1>4. RestartBinds' /\ WorkerHasSocket'
  BY DEF IInv, TypeOK, StartInv, Starting, RestartBinds, WorkerHasSocket, Fits,
     WorkerWriteLock
<1> QED
  BY <1>1, <1>2, <1>3, <1>4 DEF IInv

\* The worker: it writes.
LEMMA WorkerWriteIInv ==
  ASSUME IInv, WorkerWrite
  PROVE  IInv'
<1>a. conn' \in BOOLEAN
  BY Zenon DEF IInv, TypeOK, WorkerWrite
<1>1. TypeOK'
  BY <1>a DEF IInv, TypeOK, ExitPlace, WorkerWrite
<1>2. StartInv' /\ ResultInv' /\ FileInv' /\ WorkerInv'
  BY DEF IInv, TypeOK, Starting, StartInv, ResultInv, FileInv, WorkerInv, Fits, Free,
     WorkerWrite
<1>3. LockInv' /\ HookInv' /\ ExitInv' /\ MutexLostOnlyAtExit'
  BY DEF IInv, TypeOK, LockInv, HookInv, ExitInv, MutexLostOnlyAtExit, Ended, ExitPlace, Free,
     WorkerWrite
<1>4. RestartBinds' /\ WorkerHasSocket'
  BY DEF IInv, TypeOK, StartInv, Starting, RestartBinds, WorkerHasSocket, Fits, WorkerWrite
<1> QED
  BY <1>1, <1>2, <1>3, <1>4 DEF IInv

\* The worker: it listens.
LEMMA WorkerListenIInv ==
  ASSUME IInv, WorkerListen
  PROVE  IInv'
<1>1. TypeOK'
  BY DEF IInv, TypeOK, ExitPlace, WorkerListen
<1>2. StartInv' /\ ResultInv' /\ FileInv' /\ WorkerInv'
  BY DEF IInv, TypeOK, Starting, StartInv, ResultInv, FileInv, WorkerInv, Fits, Free,
     WorkerListen
<1>3. LockInv' /\ HookInv' /\ ExitInv' /\ MutexLostOnlyAtExit'
  BY DEF IInv, TypeOK, LockInv, HookInv, ExitInv, MutexLostOnlyAtExit, Ended, ExitPlace, Free,
     WorkerListen
<1>4. RestartBinds' /\ WorkerHasSocket'
  BY DEF IInv, TypeOK, StartInv, Starting, RestartBinds, WorkerHasSocket, Fits, WorkerListen
<1> QED
  BY <1>1, <1>2, <1>3, <1>4 DEF IInv

\* The worker: it has a client.
LEMMA WorkerAcceptedIInv ==
  ASSUME IInv, WorkerAccepted
  PROVE  IInv'
<1>1. TypeOK'
  BY DEF IInv, TypeOK, ExitPlace, WorkerAccepted
<1>2. StartInv' /\ ResultInv' /\ FileInv' /\ WorkerInv'
  BY DEF IInv, TypeOK, Starting, StartInv, ResultInv, FileInv, WorkerInv, Fits, Free,
     WorkerAccepted
<1>3. LockInv' /\ HookInv' /\ ExitInv' /\ MutexLostOnlyAtExit'
  BY DEF IInv, TypeOK, LockInv, HookInv, ExitInv, MutexLostOnlyAtExit, Ended, ExitPlace, Free,
     WorkerAccepted
<1>4. RestartBinds' /\ WorkerHasSocket'
  BY DEF IInv, TypeOK, StartInv, Starting, RestartBinds, WorkerHasSocket, Fits,
     WorkerAccepted
<1> QED
  BY <1>1, <1>2, <1>3, <1>4 DEF IInv

\* The worker: the RTS is ready.
LEMMA WorkerWokenIInv ==
  ASSUME IInv, WorkerWoken
  PROVE  IInv'
<1>1. TypeOK'
  BY DEF IInv, TypeOK, ExitPlace, WorkerWoken
<1>2. StartInv' /\ ResultInv' /\ FileInv' /\ WorkerInv'
  BY DEF IInv, TypeOK, Starting, StartInv, ResultInv, FileInv, WorkerInv, Fits, Free,
     WorkerWoken
<1>3. LockInv' /\ HookInv' /\ ExitInv' /\ MutexLostOnlyAtExit'
  BY DEF IInv, TypeOK, LockInv, HookInv, ExitInv, MutexLostOnlyAtExit, Ended, ExitPlace, Free,
     WorkerWoken
<1>4. RestartBinds' /\ WorkerHasSocket'
  BY DEF IInv, TypeOK, StartInv, Starting, RestartBinds, WorkerHasSocket, Fits, WorkerWoken
<1> QED
  BY <1>1, <1>2, <1>3, <1>4 DEF IInv

\* The worker: it decides what to do.
LEMMA WorkerDecideIInv ==
  ASSUME IInv, WorkerDecide
  PROVE  IInv'
<1>1. TypeOK'
  BY DEF IInv, TypeOK, ExitPlace, WorkerDecide
<1>2. StartInv' /\ ResultInv' /\ FileInv' /\ WorkerInv'
  BY DEF IInv, TypeOK, Starting, StartInv, ResultInv, FileInv, WorkerInv, Fits, Free,
     WorkerDecide
<1>3. LockInv' /\ HookInv' /\ ExitInv' /\ MutexLostOnlyAtExit'
  BY DEF IInv, TypeOK, LockInv, HookInv, ExitInv, MutexLostOnlyAtExit, Ended, ExitPlace,
     Free, WorkerDecide
<1>4. RestartBinds' /\ WorkerHasSocket'
  BY DEF IInv, TypeOK, StartInv, Starting, RestartBinds, WorkerHasSocket, Fits,
     WorkerDecide
<1> QED
  BY <1>1, <1>2, <1>3, <1>4 DEF IInv

\* The worker: it locks the registry.
LEMMA WorkerHookLockIInv ==
  ASSUME IInv, WorkerHookLock
  PROVE  IInv'
<1>1. TypeOK'
  BY DEF IInv, TypeOK, ExitPlace, WorkerHookLock
<1>2. StartInv' /\ ResultInv' /\ FileInv' /\ WorkerInv'
  BY DEF IInv, TypeOK, Starting, StartInv, ResultInv, FileInv, WorkerInv, Fits, Free,
     WorkerHookLock
<1>3. LockInv' /\ HookInv' /\ ExitInv' /\ MutexLostOnlyAtExit'
  BY DEF IInv, TypeOK, LockInv, HookInv, ExitInv, MutexLostOnlyAtExit, Ended, ExitPlace,
     Free, WorkerHookLock
<1>4. RestartBinds' /\ WorkerHasSocket'
  BY DEF IInv, TypeOK, StartInv, Starting, RestartBinds, WorkerHasSocket, Fits,
     WorkerHookLock
<1> QED
  BY <1>1, <1>2, <1>3, <1>4 DEF IInv

\* The worker: it unlocks the registry.
LEMMA WorkerHookUnlockIInv ==
  ASSUME IInv, WorkerHookUnlock
  PROVE  IInv'
<1>1. TypeOK'
  BY DEF IInv, TypeOK, ExitPlace, WorkerHookUnlock
<1>2. StartInv' /\ ResultInv' /\ FileInv' /\ WorkerInv'
  BY DEF IInv, TypeOK, Starting, StartInv, ResultInv, FileInv, WorkerInv, Fits, Free,
     WorkerHookUnlock
<1>3. LockInv' /\ HookInv' /\ ExitInv' /\ MutexLostOnlyAtExit'
  BY DEF IInv, TypeOK, LockInv, HookInv, ExitInv, MutexLostOnlyAtExit, Ended, ExitPlace,
     Free, WorkerHookUnlock
<1>4. RestartBinds' /\ WorkerHasSocket'
  BY DEF IInv, TypeOK, StartInv, Starting, RestartBinds, WorkerHasSocket, Fits,
     WorkerHookUnlock
<1> QED
  BY <1>1, <1>2, <1>3, <1>4 DEF IInv

\* The worker: nothing is logged.
LEMMA WorkerQuietIInv ==
  ASSUME IInv, WorkerQuiet
  PROVE  IInv'
<1>1. TypeOK'
  BY DEF IInv, TypeOK, ExitPlace, WorkerQuiet, AfterLog
<1>2. StartInv' /\ ResultInv' /\ FileInv' /\ WorkerInv'
  BY DEF IInv, TypeOK, Starting, StartInv, ResultInv, FileInv, WorkerInv, Fits, Free,
     WorkerQuiet, AfterLog
<1>3. LockInv' /\ HookInv' /\ ExitInv' /\ MutexLostOnlyAtExit'
  BY DEF IInv, TypeOK, LockInv, HookInv, ExitInv, MutexLostOnlyAtExit, Ended, ExitPlace,
     Free, WorkerQuiet, AfterLog
<1>4. RestartBinds' /\ WorkerHasSocket'
  BY DEF IInv, TypeOK, StartInv, Starting, RestartBinds, WorkerHasSocket, Fits,
     WorkerQuiet, AfterLog
<1> QED
  BY <1>1, <1>2, <1>3, <1>4 DEF IInv

\* The worker: it is in writer_write.
LEMMA WorkerLogLockIInv ==
  ASSUME IInv, WorkerLogLock
  PROVE  IInv'
<1>1. TypeOK'
  BY DEF IInv, TypeOK, ExitPlace, WorkerLogLock, AfterLog
<1>2. StartInv' /\ ResultInv' /\ FileInv' /\ WorkerInv'
  BY DEF IInv, TypeOK, Starting, StartInv, ResultInv, FileInv, WorkerInv, Fits, Free,
     WorkerLogLock, AfterLog
<1>3. LockInv' /\ HookInv' /\ ExitInv' /\ MutexLostOnlyAtExit'
  BY DEF IInv, TypeOK, LockInv, HookInv, ExitInv, MutexLostOnlyAtExit, Ended, ExitPlace,
     Free, WorkerLogLock, AfterLog
<1>4. RestartBinds' /\ WorkerHasSocket'
  BY DEF IInv, TypeOK, StartInv, Starting, RestartBinds, WorkerHasSocket, Fits,
     WorkerLogLock, AfterLog
<1> QED
  BY <1>1, <1>2, <1>3, <1>4 DEF IInv

\* The worker: writer_write returns.
LEMMA WorkerLogUnlockIInv ==
  ASSUME IInv, WorkerLogUnlock
  PROVE  IInv'
<1>1. TypeOK'
  BY DEF IInv, TypeOK, ExitPlace, WorkerLogUnlock
<1>2. StartInv' /\ ResultInv' /\ FileInv' /\ WorkerInv'
  BY DEF IInv, TypeOK, Starting, StartInv, ResultInv, FileInv, WorkerInv, HookInv, Fits,
     Free, WorkerLogUnlock
<1>3. LockInv' /\ HookInv' /\ ExitInv' /\ MutexLostOnlyAtExit'
  BY DEF IInv, TypeOK, LockInv, HookInv, ExitInv, MutexLostOnlyAtExit, Ended, ExitPlace,
     Free, WorkerLogUnlock
<1>4. RestartBinds' /\ WorkerHasSocket'
  BY DEF IInv, TypeOK, StartInv, Starting, RestartBinds, WorkerHasSocket, Fits,
     WorkerLogUnlock
<1> QED
  BY <1>1, <1>2, <1>3, <1>4 DEF IInv

\* The worker: it has read the descriptor of the pipe.
LEMMA WorkerLogWakeIInv ==
  ASSUME IInv, WorkerLogWake
  PROVE  IInv'
<1>1. TypeOK'
  BY DEF IInv, TypeOK, ExitPlace, WorkerLogWake
<1>2. StartInv' /\ ResultInv' /\ FileInv' /\ WorkerInv'
  BY DEF IInv, TypeOK, Starting, StartInv, ResultInv, FileInv, WorkerInv, Fits, Free,
     WorkerLogWake
<1>3. LockInv' /\ HookInv' /\ ExitInv' /\ MutexLostOnlyAtExit'
  BY DEF IInv, TypeOK, LockInv, HookInv, ExitInv, MutexLostOnlyAtExit, Ended, ExitPlace,
     Free, WorkerLogWake
<1>4. RestartBinds' /\ WorkerHasSocket'
  BY DEF IInv, TypeOK, StartInv, Starting, RestartBinds, WorkerHasSocket, Fits,
     WorkerLogWake
<1> QED
  BY <1>1, <1>2, <1>3, <1>4 DEF IInv

\* The worker: it wakes itself.
LEMMA WorkerLogWakeWriteIInv ==
  ASSUME IInv, WorkerLogWakeWrite
  PROVE  IInv'
<1>1. TypeOK'
  BY DEF IInv, TypeOK, ExitPlace, WorkerLogWakeWrite
<1>2. StartInv' /\ ResultInv' /\ FileInv' /\ WorkerInv'
  BY DEF IInv, TypeOK, Starting, StartInv, ResultInv, FileInv, WorkerInv, HookInv, Fits,
     Free, WorkerLogWakeWrite
<1>3. LockInv' /\ HookInv' /\ ExitInv' /\ MutexLostOnlyAtExit'
  BY DEF IInv, TypeOK, LockInv, HookInv, ExitInv, MutexLostOnlyAtExit, Ended, ExitPlace,
     Free, WorkerLogWakeWrite
<1>4. RestartBinds' /\ WorkerHasSocket'
  BY DEF IInv, TypeOK, StartInv, Starting, RestartBinds, WorkerHasSocket, Fits,
     WorkerLogWakeWrite
<1> QED
  BY <1>1, <1>2, <1>3, <1>4 DEF IInv

\* The worker: endEventLogging is through.
LEMMA WorkerStopIInv ==
  ASSUME IInv, WorkerStop
  PROVE  IInv'
<1>a. conn' \in BOOLEAN /\ attached' \in BOOLEAN
  BY Zenon DEF WorkerStop
<1>1. TypeOK'
  BY <1>a DEF IInv, TypeOK, ExitPlace, WorkerStop
<1>2. StartInv' /\ ResultInv' /\ FileInv' /\ WorkerInv'
  BY DEF IInv, TypeOK, Starting, StartInv, ResultInv, FileInv, WorkerInv, Fits, Free,
     WorkerStop
<1>3. LockInv' /\ HookInv' /\ ExitInv' /\ MutexLostOnlyAtExit'
  BY DEF IInv, TypeOK, LockInv, HookInv, ExitInv, MutexLostOnlyAtExit, Ended, ExitPlace,
     Free, WorkerStop
<1>4. RestartBinds' /\ WorkerHasSocket'
  BY DEF IInv, TypeOK, StartInv, Starting, RestartBinds, WorkerHasSocket, Fits,
     WorkerStop
<1> QED
  BY <1>1, <1>2, <1>3, <1>4 DEF IInv

\* The worker: it publishes the connection.
LEMMA WorkerPublishIInv ==
  ASSUME IInv, WorkerPublish
  PROVE  IInv'
<1>1. TypeOK'
  BY DEF IInv, TypeOK, ExitPlace, WorkerPublish
<1>2. StartInv' /\ ResultInv' /\ FileInv' /\ WorkerInv'
  BY DEF IInv, TypeOK, Starting, StartInv, ResultInv, FileInv, WorkerInv, Fits, Free,
     WorkerPublish
<1>3. LockInv' /\ HookInv' /\ ExitInv' /\ MutexLostOnlyAtExit'
  BY DEF IInv, TypeOK, LockInv, HookInv, ExitInv, MutexLostOnlyAtExit, Ended, ExitPlace, Free,
     WorkerPublish
<1>4. RestartBinds' /\ WorkerHasSocket'
  BY DEF IInv, TypeOK, StartInv, Starting, RestartBinds, WorkerHasSocket, Fits,
     WorkerPublish
<1> QED
  BY <1>1, <1>2, <1>3, <1>4 DEF IInv

\* The worker: startEventLogging returns true.
LEMMA WorkerStartIInv ==
  ASSUME IInv, WorkerStart
  PROVE  IInv'
<1>1. TypeOK'
  BY DEF IInv, TypeOK, ExitPlace, WorkerStart
<1>2. StartInv' /\ ResultInv' /\ FileInv' /\ WorkerInv'
  BY DEF IInv, TypeOK, Starting, StartInv, ResultInv, FileInv, WorkerInv, Fits, Free,
     WorkerStart
<1>3. LockInv' /\ HookInv' /\ ExitInv' /\ MutexLostOnlyAtExit'
  BY DEF IInv, TypeOK, LockInv, HookInv, ExitInv, MutexLostOnlyAtExit, Ended, ExitPlace,
     Free, WorkerStart
<1>4. RestartBinds' /\ WorkerHasSocket'
  BY DEF IInv, TypeOK, StartInv, Starting, RestartBinds, WorkerHasSocket, Fits,
     WorkerStart
<1> QED
  BY <1>1, <1>2, <1>3, <1>4 DEF IInv

\* The worker: it had its first connection.
LEMMA WorkerMarkIInv ==
  ASSUME IInv, WorkerMark
  PROVE  IInv'
<1>1. TypeOK'
  BY DEF IInv, TypeOK, ExitPlace, WorkerMark
<1>2. StartInv' /\ ResultInv' /\ FileInv' /\ WorkerInv'
  BY DEF IInv, TypeOK, Starting, StartInv, ResultInv, FileInv, WorkerInv, Fits, Free,
     WorkerMark
<1>3. LockInv' /\ HookInv' /\ ExitInv' /\ MutexLostOnlyAtExit'
  BY DEF IInv, TypeOK, LockInv, HookInv, ExitInv, MutexLostOnlyAtExit, Ended, ExitPlace,
     Free, WorkerMark
<1>4. RestartBinds' /\ WorkerHasSocket'
  BY DEF IInv, TypeOK, StartInv, Starting, RestartBinds, WorkerHasSocket, Fits,
     WorkerMark
<1> QED
  BY <1>1, <1>2, <1>3, <1>4 DEF IInv

\* The worker: it is cancelled inside a call.
LEMMA WorkerCancelIInv ==
  ASSUME IInv, WorkerCancel
  PROVE  IInv'
<1>1. TypeOK'
  BY DEF IInv, TypeOK, ExitPlace, WorkerCancel
<1>2. StartInv' /\ ResultInv' /\ FileInv' /\ WorkerInv'
  BY DEF IInv, TypeOK, Starting, StartInv, ResultInv, FileInv, WorkerInv, Fits, Free,
     WorkerCancel
<1>3. LockInv' /\ HookInv' /\ ExitInv' /\ MutexLostOnlyAtExit'
  BY DEF IInv, TypeOK, LockInv, HookInv, ExitInv, MutexLostOnlyAtExit, Ended, ExitPlace, Free,
     WorkerCancel
<1>4. RestartBinds' /\ WorkerHasSocket'
  BY DEF IInv, TypeOK, StartInv, Starting, RestartBinds, WorkerHasSocket, Fits, WorkerCancel
<1> QED
  BY <1>1, <1>2, <1>3, <1>4 DEF IInv

\* The control thread: it waits for the RTS.
LEMMA ControlBootIInv ==
  ASSUME IInv, ControlBoot
  PROVE  IInv'
<1>1. TypeOK'
  BY DEF IInv, TypeOK, ExitPlace, ControlBoot
<1>2. StartInv' /\ ResultInv' /\ FileInv' /\ WorkerInv'
  BY DEF IInv, TypeOK, Starting, StartInv, ResultInv, FileInv, WorkerInv, Fits, Free,
     ControlBoot
<1>3. LockInv' /\ HookInv' /\ ExitInv' /\ MutexLostOnlyAtExit'
  BY DEF IInv, TypeOK, LockInv, HookInv, ExitInv, MutexLostOnlyAtExit, Ended, ExitPlace, Free,
     ControlBoot
<1>4. RestartBinds' /\ WorkerHasSocket'
  BY DEF IInv, TypeOK, StartInv, Starting, RestartBinds, WorkerHasSocket, Fits, ControlBoot
<1> QED
  BY <1>1, <1>2, <1>3, <1>4 DEF IInv

\* The control thread: the head of its loop.
LEMMA ControlLoopIInv ==
  ASSUME IInv, ControlLoop
  PROVE  IInv'
<1>1. TypeOK'
  BY DEF IInv, TypeOK, ExitPlace, ControlLoop
<1>2. StartInv' /\ ResultInv' /\ FileInv' /\ WorkerInv'
  BY DEF IInv, TypeOK, Starting, StartInv, ResultInv, FileInv, WorkerInv, Fits, Free,
     ControlLoop
<1>3. LockInv' /\ HookInv' /\ ExitInv' /\ MutexLostOnlyAtExit'
  BY DEF IInv, TypeOK, LockInv, HookInv, ExitInv, MutexLostOnlyAtExit, Ended, ExitPlace, Free,
     ControlLoop
<1>4. RestartBinds' /\ WorkerHasSocket'
  BY DEF IInv, TypeOK, StartInv, Starting, RestartBinds, WorkerHasSocket, Fits, ControlLoop
<1> QED
  BY <1>1, <1>2, <1>3, <1>4 DEF IInv

\* The control thread: it reads the connection.
LEMMA ControlReadIInv ==
  ASSUME IInv, ControlRead
  PROVE  IInv'
<1>1. TypeOK'
  BY DEF IInv, TypeOK, ExitPlace, ControlRead
<1>2. StartInv' /\ ResultInv' /\ FileInv' /\ WorkerInv'
  BY DEF IInv, TypeOK, Starting, StartInv, ResultInv, FileInv, WorkerInv, Fits, Free,
     ControlRead
<1>3. LockInv' /\ HookInv' /\ ExitInv' /\ MutexLostOnlyAtExit'
  BY DEF IInv, TypeOK, LockInv, HookInv, ExitInv, MutexLostOnlyAtExit, Ended, ExitPlace, Free,
     ControlRead
<1>4. RestartBinds' /\ WorkerHasSocket'
  BY DEF IInv, TypeOK, StartInv, Starting, RestartBinds, WorkerHasSocket, Fits, ControlRead
<1> QED
  BY <1>1, <1>2, <1>3, <1>4 DEF IInv

\* The control thread: it wakes up.
LEMMA ControlWokenIInv ==
  ASSUME IInv, ControlWoken
  PROVE  IInv'
<1>1. TypeOK'
  BY DEF IInv, TypeOK, ExitPlace, ControlWoken
<1>2. StartInv' /\ ResultInv' /\ FileInv' /\ WorkerInv'
  BY DEF IInv, TypeOK, Starting, StartInv, ResultInv, FileInv, WorkerInv, Fits, Free,
     ControlWoken
<1>3. LockInv' /\ HookInv' /\ ExitInv' /\ MutexLostOnlyAtExit'
  BY DEF IInv, TypeOK, LockInv, HookInv, ExitInv, MutexLostOnlyAtExit, Ended, ExitPlace, Free,
     ControlWoken
<1>4. RestartBinds' /\ WorkerHasSocket'
  BY DEF IInv, TypeOK, StartInv, Starting, RestartBinds, WorkerHasSocket, Fits, ControlWoken
<1> QED
  BY <1>1, <1>2, <1>3, <1>4 DEF IInv

\* The control thread: it polls.
LEMMA ControlPollIInv ==
  ASSUME IInv, ControlPoll
  PROVE  IInv'
<1>1. TypeOK'
  BY DEF IInv, TypeOK, ExitPlace, ControlPoll
<1>2. StartInv' /\ ResultInv' /\ FileInv' /\ WorkerInv'
  BY DEF IInv, TypeOK, Starting, StartInv, ResultInv, FileInv, WorkerInv, Fits, Free,
     ControlPoll
<1>3. LockInv' /\ HookInv' /\ ExitInv' /\ MutexLostOnlyAtExit'
  BY DEF IInv, TypeOK, LockInv, HookInv, ExitInv, MutexLostOnlyAtExit, Ended, ExitPlace, Free,
     ControlPoll
<1>4. RestartBinds' /\ WorkerHasSocket'
  BY DEF IInv, TypeOK, StartInv, Starting, RestartBinds, WorkerHasSocket, Fits, ControlPoll
<1> QED
  BY <1>1, <1>2, <1>3, <1>4 DEF IInv

\* The control thread: it is cancelled inside a call.
LEMMA ControlCancelIInv ==
  ASSUME IInv, ControlCancel
  PROVE  IInv'
<1>1. TypeOK'
  BY DEF IInv, TypeOK, ExitPlace, ControlCancel
<1>2. StartInv' /\ ResultInv' /\ FileInv' /\ WorkerInv'
  BY DEF IInv, TypeOK, Starting, StartInv, ResultInv, FileInv, WorkerInv, Fits, Free,
     ControlCancel
<1>3. LockInv' /\ HookInv' /\ ExitInv' /\ MutexLostOnlyAtExit'
  BY DEF IInv, TypeOK, LockInv, HookInv, ExitInv, MutexLostOnlyAtExit, Ended, ExitPlace, Free,
     ControlCancel
<1>4. RestartBinds' /\ WorkerHasSocket'
  BY DEF IInv, TypeOK, StartInv, Starting, RestartBinds, WorkerHasSocket, Fits,
     ControlCancel
<1> QED
  BY <1>1, <1>2, <1>3, <1>4 DEF IInv

\* The RTS thread: it locks g_mutex.
LEMMA RtsLockIInv ==
  ASSUME IInv, RtsLock
  PROVE  IInv'
<1>1. TypeOK'
  BY DEF IInv, TypeOK, ExitPlace, RtsLock
<1>2. StartInv' /\ ResultInv' /\ FileInv' /\ WorkerInv'
  BY DEF IInv, TypeOK, Starting, StartInv, ResultInv, FileInv, WorkerInv, Fits, Free,
     RtsLock
<1>3. LockInv' /\ HookInv' /\ ExitInv' /\ MutexLostOnlyAtExit'
  BY DEF IInv, TypeOK, LockInv, HookInv, ExitInv, MutexLostOnlyAtExit, Ended, ExitPlace, Free,
     RtsLock
<1>4. RestartBinds' /\ WorkerHasSocket'
  BY DEF IInv, TypeOK, StartInv, Starting, RestartBinds, WorkerHasSocket, Fits, RtsLock
<1> QED
  BY <1>1, <1>2, <1>3, <1>4 DEF IInv

\* The RTS thread: it unlocks g_mutex.
LEMMA RtsUnlockIInv ==
  ASSUME IInv, RtsUnlock
  PROVE  IInv'
<1>1. TypeOK'
  BY DEF IInv, TypeOK, ExitPlace, RtsUnlock
<1>2. StartInv' /\ ResultInv' /\ FileInv' /\ WorkerInv'
  BY DEF IInv, TypeOK, Starting, StartInv, ResultInv, FileInv, WorkerInv, Fits, Free,
     RtsUnlock
<1>3. LockInv' /\ HookInv' /\ ExitInv' /\ MutexLostOnlyAtExit'
  BY DEF IInv, TypeOK, LockInv, HookInv, ExitInv, MutexLostOnlyAtExit, Ended, ExitPlace, Free,
     RtsUnlock
<1>4. RestartBinds' /\ WorkerHasSocket'
  BY DEF IInv, TypeOK, StartInv, Starting, RestartBinds, WorkerHasSocket, Fits, RtsUnlock
<1> QED
  BY <1>1, <1>2, <1>3, <1>4 DEF IInv

\* The RTS thread: it has read the descriptor.
LEMMA RtsWakeIInv ==
  ASSUME IInv, RtsWake
  PROVE  IInv'
<1>1. TypeOK'
  BY DEF IInv, TypeOK, ExitPlace, RtsWake
<1>2. StartInv' /\ ResultInv' /\ FileInv' /\ WorkerInv'
  BY DEF IInv, TypeOK, Starting, StartInv, ResultInv, FileInv, WorkerInv, Fits, Free,
     RtsWake
<1>3. LockInv' /\ HookInv' /\ ExitInv' /\ MutexLostOnlyAtExit'
  BY DEF IInv, TypeOK, LockInv, HookInv, ExitInv, MutexLostOnlyAtExit, Ended, ExitPlace, Free,
     RtsWake
<1>4. RestartBinds' /\ WorkerHasSocket'
  BY DEF IInv, TypeOK, StartInv, Starting, RestartBinds, WorkerHasSocket, Fits, RtsWake
<1> QED
  BY <1>1, <1>2, <1>3, <1>4 DEF IInv

\* The RTS thread: it wakes the worker.
LEMMA RtsWakeWriteIInv ==
  ASSUME IInv, RtsWakeWrite
  PROVE  IInv'
<1>1. TypeOK'
  BY DEF IInv, TypeOK, ExitPlace, RtsWakeWrite
<1>2. StartInv' /\ ResultInv' /\ FileInv' /\ WorkerInv'
  BY DEF IInv, TypeOK, Starting, StartInv, ResultInv, FileInv, WorkerInv, Fits, Free,
     RtsWakeWrite
<1>3. LockInv' /\ HookInv' /\ ExitInv' /\ MutexLostOnlyAtExit'
  BY DEF IInv, TypeOK, LockInv, HookInv, ExitInv, MutexLostOnlyAtExit, Ended, ExitPlace, Free,
     RtsWakeWrite
<1>4. RestartBinds' /\ WorkerHasSocket'
  BY DEF IInv, TypeOK, StartInv, Starting, RestartBinds, WorkerHasSocket, Fits, RtsWakeWrite
<1> QED
  BY <1>1, <1>2, <1>3, <1>4 DEF IInv

LEMMA InitIInv == Init => IInv
<1> SUFFICES ASSUME Init
             PROVE  IInv
  OBVIOUS
<1>1. rts \in BOOLEAN
  BY Zenon DEF Init
<1>2. pipe \in [{0, 1} -> {"none", "open", "closed"}] /\ \A i \in {0, 1} : pipe[i] = "none"
  BY DEF Init
<1>3. /\ mpc = "env" /\ entry \in {"wrap", "start"} /\ status = "none" /\ addr = NoAddr
      /\ wait = FALSE /\ init = "none" /\ files = {} /\ bound = FALSE /\ sockPath = FALSE
      /\ listen = FALSE /\ atexit = {} /\ wpc = "none" /\ cpc = "none" /\ rpc = "idle"
      /\ cancelled = {} /\ seen = {} /\ back = "none" /\ lock = "nobody"
      /\ hooks = "nobody" /\ ready = FALSE /\ attached = FALSE /\ first = FALSE
      /\ conn = FALSE /\ writes = 0 /\ starts = 1
  BY Zenon DEF Init
<1>4. TypeOK
  BY <1>1, <1>2, <1>3 DEF TypeOK
<1>5. StartInv /\ ResultInv /\ FileInv /\ WorkerInv
  BY <1>3 DEF Starting, StartInv, ResultInv, FileInv, WorkerInv
<1>6. LockInv /\ HookInv /\ ExitInv /\ RestartBinds /\ WorkerHasSocket /\ MutexLostOnlyAtExit
  BY <1>2, <1>3 DEF LockInv, HookInv, ExitInv, RestartBinds, WorkerHasSocket, MutexLostOnlyAtExit,
     Ended
<1> QED
  BY <1>4, <1>5, <1>6 DEF IInv

\* A step that changes nothing.
LEMMA StutterIInv ==
  ASSUME IInv, UNCHANGED vars
  PROVE  IInv'
<1>1. TypeOK'
  BY DEF IInv, TypeOK, vars
<1>2. StartInv' /\ ResultInv' /\ FileInv' /\ WorkerInv'
  BY DEF IInv, StartInv, ResultInv, FileInv, WorkerInv, vars
<1>3. LockInv' /\ HookInv' /\ ExitInv' /\ RestartBinds' /\ WorkerHasSocket' /\ MutexLostOnlyAtExit'
  BY DEF IInv, LockInv, HookInv, ExitInv, RestartBinds, WorkerHasSocket, MutexLostOnlyAtExit, Ended,
         vars
<1> QED
  BY <1>1, <1>2, <1>3 DEF IInv

LEMMA NextIInv == IInv /\ [Next]_vars => IInv'
<1> SUFFICES ASSUME IInv, [Next]_vars
             PROVE  IInv'
  OBVIOUS
<1>1. CASE InitStep
  BY <1>1, FromEnvIInv, FromEnvNoMemoryIInv, InitFailsIInv, WorkerInitIInv,
     WorkerInitFailsIInv,
     UnixSocketFailsIInv, UnixBindIInv, UnixBindFailsIInv, InetSocketIInv, WorkerCreateIInv,
     ControlCreateIInv, ControlCreateFailsIInv, HsInitIInv, SignalIInv,
     SignalReadyIInv, WaitIInv DEF InitStep
<1>2. CASE RegisterInvalid \/ HsExit \/ CallExit \/ ExitStep \/ Restart
  BY <1>2, RegisterInvalidIInv, HsExitIInv, CallExitIInv, RunHandlerIInv, CancelControlIInv, UnlinkIInv,
     ClosePipeIInv, CancelWorkerIInv, JoinIInv, RestartIInv DEF ExitStep
<1>3. CASE WorkerStep \/ WorkerStart \/ WorkerCancel
  BY <1>3, WorkerLoopIInv, WorkerReadIInv, WorkerPollIInv, WorkerHupIInv, WorkerWriteLockIInv,
     WorkerWriteIInv, WorkerListenIInv, WorkerAcceptedIInv, WorkerWokenIInv, WorkerDecideIInv,
     WorkerHookLockIInv, WorkerHookUnlockIInv, WorkerQuietIInv, WorkerLogLockIInv,
     WorkerLogUnlockIInv, WorkerLogWakeIInv, WorkerLogWakeWriteIInv, WorkerStopIInv,
     WorkerPublishIInv, WorkerStartIInv, WorkerMarkIInv, WorkerCancelIInv DEF WorkerStep
<1>4. CASE ControlStep \/ ControlCancel
  BY <1>4, ControlBootIInv, ControlLoopIInv, ControlReadIInv, ControlWokenIInv,
     ControlPollIInv,
     ControlCancelIInv DEF ControlStep
<1>5. CASE RtsLock \/ RtsStep
  BY <1>5, RtsLockIInv, RtsUnlockIInv, RtsWakeIInv, RtsWakeWriteIInv DEF RtsStep
<1>6. CASE UNCHANGED vars
  BY <1>6, StutterIInv
<1> QED
  BY <1>1, <1>2, <1>3, <1>4, <1>5, <1>6 DEF Next

LEMMA SpecIInv == Spec => []IInv
BY InitIInv, NextIInv, PTL DEF Spec

\* The state of a process is well typed, for all paths.
THEOREM TypeCorrect == Spec => []TypeOK
BY SpecIInv, PTL DEF IInv

\* es_worker_cleanup removes the socket file that es_worker_socket_init_unix bound.
THEOREM SocketFileRemoved == Spec => []FileRemoved
<1>1. IInv => FileRemoved
  BY DEF IInv, FileInv, ResultInv, FileRemoved
<1> QED
  BY <1>1, SpecIInv, PTL

\* The unlink in es_worker_socket_init_unix makes way for a path that fits, whatever
\* files any number of crashed processes left.
THEOREM StaleFilesRemoved == Spec => []RestartBinds
BY SpecIInv, PTL DEF IInv

\* es_worker_start creates the thread only after a socket was bound.
THEOREM SocketBeforeWorker == Spec => []WorkerHasSocket
BY SpecIInv, PTL DEF IInv

\* es_worker_cleanup cancels an id that was never set only after a failed init.
THEOREM OnlyCreatedCancelled == Spec => []CancelsCreated
<1>1. IInv => CancelsCreated
  BY DEF IInv, TypeOK, ResultInv, Starting, CancelsCreated
<1> QED
  BY <1>1, SpecIInv, PTL

\* es_worker_cleanup joins the worker, wherever it was when it was cancelled.
THEOREM WorkerJoined == Spec => []WorkerStopped
<1>1. IInv => WorkerStopped
  BY DEF IInv, ResultInv, WorkerInv, WorkerStopped
<1> QED
  BY <1>1, SpecIInv, PTL

\* No thread ends with g_mutex before exit() is called.
THEOREM MutexKept == Spec => []MutexLostOnlyAtExit
BY SpecIInv, PTL DEF IInv

\* What the steps of other threads leave alone.
LEMMA OtherSteps ==
  ASSUME TypeOK, [Next]_vars
  PROVE  \/ WorkerStep \/ WorkerStart \/ WorkerCancel \/ WorkerCreate \/ Restart
         \/ UNCHANGED <<wpc, back>>
<1>1. CASE InitStep
  BY <1>1 DEF InitStep, FromEnv, FromEnvNoMemory, InitFails, WorkerInit, WorkerInitFails,
     UnixSocketFails, UnixBind, UnixBindFails, InetSocket, ControlCreate,
     ControlCreateFails, HsInit, Signal, SignalReady, Wait
<1>2. CASE RegisterInvalid \/ HsExit \/ CallExit \/ ExitStep
  BY <1>2 DEF RegisterInvalid, HsExit, CallExit, ExitStep, RunHandler, CancelControl, Unlink,
     ClosePipe, CancelWorker, Join
<1>3. CASE ControlStep \/ ControlCancel
  BY <1>3 DEF ControlStep, ControlCancel, ControlBoot, ControlLoop, ControlRead,
     ControlWoken, ControlPoll
<1>4. CASE RtsLock \/ RtsStep
  BY <1>4 DEF RtsStep, RtsLock, RtsUnlock, RtsWake, RtsWakeWrite
<1>5. CASE UNCHANGED vars
  BY <1>5 DEF vars
<1> QED
  BY <1>1, <1>2, <1>3, <1>4, <1>5 DEF Next

\* The places between which a step of es_worker_step and its callees moves the worker.
LEMMA WorkerMoves ==
  ASSUME IInv, WorkerStep \/ WorkerStart \/ WorkerCancel
  PROVE  \/ wpc = "loop" /\ wpc' = IF "worker" \in cancelled THEN "ended" ELSE "step"
         \/ wpc = "step" /\ wpc' \in {"poll", "listen"}
         \/ wpc = "poll" /\ wpc' \in {"loop", "hup", "write_lock"}
         \/ wpc = "write_lock" /\ wpc' = "write"
         \/ wpc \in {"hup", "write", "mark"} /\ wpc' = "loop"
         \/ wpc = "listen" /\ wpc' \in {"loop", "accepted", "ended"}
         \/ wpc = "accepted" /\ wpc' \in {"decide", "rtswait"}
         \/ wpc = "rtswait" /\ wpc' = "decide"
         \/ wpc = "decide" /\ wpc' \in {"pre_lock", "end", "publish"}
         \/ wpc = "pre_lock" /\ wpc' = "pre_run"
         \/ wpc = "post_lock" /\ wpc' = "post_run"
         \/ wpc = "pre_unlock" /\ wpc' = "end"
         \/ wpc = "post_unlock" /\ wpc' \in {"loop", "mark"}
         \/ wpc = "publish" /\ wpc' \in {"start", "loop", "mark"}
         \/ wpc = "start" /\ wpc' = "header"
         \/ wpc = "stop" /\ wpc' = "publish"
         \/ wpc = "pre_run" /\ (wpc' = "pre_unlock" \/ (wpc' = "log" /\ back' = "pre_unlock"))
         \/ wpc = "end" /\ (wpc' = "stop" \/ (wpc' = "log" /\ back' = "stop"))
         \/ wpc = "header" /\ wpc' = "log" /\ back' = "post_lock"
         \/ wpc = "post_run" /\ (wpc' = "post_unlock" \/ (wpc' = "log" /\ back' = "post_unlock"))
         \/ wpc = "log" /\ wpc' = "log_wake" /\ back' = back
         \/ wpc \in {"log", "log_wake"} /\ wpc' = back
         \/ wpc = "log_wake" /\ wpc' = "ended"
         \/ /\ wpc \in {"poll", "listen", "write", "pre_run", "end", "post_run", "log",
                        "log_wake", "rtswait"}
            /\ wpc' = "ended"
<1>1. CASE WorkerLoop
  BY <1>1, Zenon DEF WorkerLoop
<1>2. CASE WorkerRead \/ WorkerPoll \/ WorkerHup \/ WorkerWriteLock \/ WorkerWrite
  <2>1. \/ wpc = "step" /\ wpc' \in {"poll", "listen"}
        \/ wpc = "poll" /\ wpc' \in {"loop", "hup", "write_lock"}
        \/ wpc = "write_lock" /\ wpc' = "write"
        \/ wpc \in {"hup", "write"} /\ wpc' = "loop"
    BY <1>2, Zenon DEF WorkerRead, WorkerPoll, WorkerHup, WorkerWriteLock, WorkerWrite
  <2> QED
    BY <2>1
<1>3. CASE WorkerListen \/ WorkerAccepted \/ WorkerWoken \/ WorkerDecide
  <2>1. \/ wpc = "listen" /\ wpc' \in {"loop", "accepted", "ended"}
        \/ wpc = "accepted" /\ wpc' \in {"decide", "rtswait"}
        \/ wpc = "rtswait" /\ wpc' = "decide"
        \/ wpc = "decide" /\ wpc' \in {"pre_lock", "end", "publish"}
    BY <1>3, Zenon DEF WorkerListen, WorkerAccepted, WorkerWoken, WorkerDecide
  <2> QED
    BY <2>1
<1>4. CASE WorkerHookLock \/ WorkerHookUnlock
  BY <1>4 DEF WorkerHookLock, WorkerHookUnlock
<1>5. CASE WorkerQuiet \/ WorkerLogLock
  BY <1>5 DEF WorkerQuiet, WorkerLogLock, AfterLog
<1>6. CASE WorkerLogUnlock \/ WorkerLogWake \/ WorkerLogWakeWrite
  BY <1>6 DEF WorkerLogUnlock, WorkerLogWake, WorkerLogWakeWrite
<1>7. CASE WorkerStop \/ WorkerPublish \/ WorkerStart \/ WorkerMark
  BY <1>7 DEF WorkerStop, WorkerPublish, WorkerStart, WorkerMark
<1>8. CASE WorkerCancel
  BY <1>8 DEF WorkerCancel
<1> QED
  BY <1>1, <1>2, <1>3, <1>4, <1>5, <1>6, <1>7, <1>8 DEF WorkerStep

\* After pthread_cancel, the worker takes at most 26 steps, failed calls of
\* startEventLogging not counted, then it has ended.
THEOREM CancelledWorker == Spec => CancelledWorkerEnds
<1>1. ASSUME IInv, [Next]_vars, "worker" \in cancelled, wpc' # wpc, starts' = starts
      PROVE  StepsLeft(wpc', back') < StepsLeft(wpc, back)
  <2>1. CASE WorkerStep \/ WorkerStart \/ WorkerCancel
    <3>1. wpc \in {"log", "log_wake"} =>
            back \in {"pre_unlock", "stop", "post_lock", "post_unlock"}
      BY <1>1 DEF IInv, TypeOK, HookInv
    <3> QED
      BY <1>1, <2>1, <3>1, WorkerMoves DEF StepsLeft
  <2>2. CASE WorkerCreate
    BY <1>1, <2>2 DEF IInv, ExitInv, ExitPlace, WorkerCreate
  <2>3. CASE Restart
    BY <1>1, <2>3 DEF IInv, TypeOK, Restart
  <2> QED
    BY <1>1, <2>1, <2>2, <2>3, OtherSteps DEF IInv
<1>2. IInv /\ [Next]_vars =>
        [ "worker" \in cancelled /\ wpc' # wpc /\ starts' = starts
            => StepsLeft(wpc', back') < StepsLeft(wpc, back) ]_vars
  BY <1>1
<1> QED
  BY <1>2, SpecIInv, PTL DEF Spec, CancelledWorkerEnds

\* Joining the worker blocks for ever only on a g_mutex that a thread took with it when it
\* ended, on a registry that an invalid registration left locked, or in the retry loop of
\* startEventLogging: with CancelledWorker, what ExitCompletes rests on.
THEOREM JoinReturns == Spec => []JoinNotStuck
<1>1. ASSUME IInv, mpc = "join"
      PROVE  wpc = "ended" \/ WorkerCanMove \/ OwnerCanMove \/ WorkerStuck
  <2>1. wpc # "none" /\ "worker" \in cancelled
    BY <1>1 DEF IInv, ExitInv
  <2>2. Free \/ Ended(lock) \/ OwnerCanMove
    BY <1>1 DEF IInv, TypeOK, LockInv, Free, Ended, OwnerCanMove
  <2>3. wpc \in {"pre_lock", "post_lock"} => hooks \in {"nobody", "lost"}
    BY <1>1 DEF IInv, TypeOK, HookInv
  <2> QED
    BY <1>1, <2>1, <2>2, <2>3 DEF IInv, TypeOK, WorkerCanMove, WorkerStuck, NeedsMutex
<1>2. IInv => JoinNotStuck
  BY <1>1 DEF JoinNotStuck
<1> QED
  BY <1>2, SpecIInv, PTL

\* A g_mutex that a thread had when it ended is not unlocked in this process: nobody else
\* unlocks it, and the thread does not come back.
THEOREM MutexLostForEver ==
  Spec => [][Ended(lock) /\ starts' = starts => Ended(lock)' /\ lock' = lock]_vars
<1>1. ASSUME IInv, [Next]_vars, Ended(lock), starts' = starts
      PROVE  Ended(lock)' /\ lock' = lock
  <2>1. ~Free /\ wpc \notin {"write", "log", "log_wake"} /\ mpc # "ready" /\ rpc \notin {"locked", "waking"}
    BY <1>1 DEF IInv, LockInv, Ended, Free
  <2>2. ~Restart
    BY <1>1 DEF IInv, TypeOK, Restart
  <2>3. UNCHANGED lock
    <3>1. CASE InitStep \/ RegisterInvalid \/ HsExit \/ CallExit \/ ExitStep
      BY <2>1, <3>1 DEF InitStep, FromEnv, FromEnvNoMemory, InitFails, WorkerInit, WorkerInitFails,
         UnixSocketFails, UnixBind, UnixBindFails, InetSocket, WorkerCreate, ControlCreate,
         ControlCreateFails, HsInit, Signal, SignalReady, Wait,
         RegisterInvalid, HsExit, CallExit, ExitStep, RunHandler,
         CancelControl, Unlink, ClosePipe, CancelWorker, Join
    <3>2. CASE WorkerStep \/ WorkerStart \/ WorkerCancel
      BY <2>1, <3>2 DEF WorkerStep, WorkerStart, WorkerCancel, WorkerLoop, WorkerRead, WorkerPoll,
         WorkerHup, WorkerWriteLock, WorkerWrite, WorkerListen, WorkerAccepted, WorkerWoken,
         WorkerDecide, WorkerHookLock, WorkerHookUnlock, WorkerQuiet, WorkerLogLock,
         WorkerLogUnlock, WorkerLogWake, WorkerLogWakeWrite, WorkerStop, WorkerPublish,
         WorkerMark
    <3>3. CASE ControlStep \/ ControlCancel
      BY <2>1, <3>3 DEF ControlStep, ControlCancel, ControlBoot, ControlLoop, ControlRead,
         ControlWoken, ControlPoll
    <3>4. CASE RtsLock \/ RtsStep
      BY <2>1, <3>4 DEF RtsStep, RtsLock, RtsUnlock, RtsWake, RtsWakeWrite
    <3> QED
      BY <1>1, <2>2, <3>1, <3>2, <3>3, <3>4 DEF Next, vars
  <2>4. wpc = "ended" => wpc' = "ended"
    <3>1. ASSUME wpc = "ended", wpc' # wpc
          PROVE  FALSE
      <4>1. WorkerStep \/ WorkerStart \/ WorkerCancel \/ WorkerCreate
        BY <1>1, <2>2, <3>1, OtherSteps DEF IInv
      <4>2. ~WorkerCreate
        BY <1>1, <3>1 DEF IInv, StartInv, WorkerCreate
      <4> QED
        BY <1>1, <3>1, <4>1, <4>2, WorkerMoves
    <3> QED
      BY <3>1
  <2>5. cpc = "ended" => cpc' = "ended"
    <3>1. CASE InitStep \/ RegisterInvalid \/ HsExit \/ CallExit \/ ExitStep
      <4>1. ~ControlCreate \/ cpc # "ended"
        BY <1>1 DEF ControlCreate, IInv, StartInv, Starting
      <4> QED
        BY <3>1, <4>1 DEF InitStep, FromEnv, FromEnvNoMemory, InitFails, WorkerInit,
           WorkerInitFails, UnixSocketFails, UnixBind, UnixBindFails, InetSocket,
           WorkerCreate, ControlCreateFails, HsInit, Signal, SignalReady, Wait,
         RegisterInvalid, HsExit, CallExit,
           ExitStep, RunHandler, CancelControl, Unlink, ClosePipe, CancelWorker, Join
    <3>2. CASE WorkerStep \/ WorkerStart \/ WorkerCancel
      BY <3>2 DEF WorkerStep, WorkerStart, WorkerCancel, WorkerLoop, WorkerRead, WorkerPoll,
         WorkerHup, WorkerWriteLock, WorkerWrite, WorkerListen, WorkerAccepted, WorkerWoken,
         WorkerDecide, WorkerHookLock, WorkerHookUnlock, WorkerQuiet, WorkerLogLock,
         WorkerLogUnlock, WorkerLogWake, WorkerLogWakeWrite, WorkerStop, WorkerPublish,
         WorkerMark
    <3>3. CASE ControlStep \/ ControlCancel
      BY <3>3 DEF ControlStep, ControlCancel, ControlBoot, ControlLoop, ControlRead,
         ControlWoken, ControlPoll
    <3>4. CASE RtsLock \/ RtsStep
      BY <3>4 DEF RtsStep, RtsLock, RtsUnlock, RtsWake, RtsWakeWrite
    <3> QED
      BY <1>1, <2>2, <3>1, <3>2, <3>3, <3>4 DEF Next, vars
  <2>6. rpc = "ended" => rpc' = "ended"
    <3>1. CASE InitStep \/ RegisterInvalid \/ HsExit \/ CallExit \/ ExitStep
      BY <3>1 DEF InitStep, FromEnv, FromEnvNoMemory, InitFails, WorkerInit, WorkerInitFails,
         UnixSocketFails, UnixBind, UnixBindFails, InetSocket, WorkerCreate, ControlCreate,
         ControlCreateFails, HsInit, Signal, SignalReady, Wait,
         RegisterInvalid, HsExit, CallExit, ExitStep, RunHandler,
         CancelControl, Unlink, ClosePipe, CancelWorker, Join
    <3>2. CASE WorkerStep \/ WorkerStart \/ WorkerCancel \/ ControlStep \/ ControlCancel
      BY <3>2 DEF WorkerStep, WorkerStart, WorkerCancel, WorkerLoop, WorkerRead, WorkerPoll,
         WorkerHup, WorkerWriteLock, WorkerWrite, WorkerListen, WorkerAccepted, WorkerWoken,
         WorkerDecide, WorkerHookLock, WorkerHookUnlock, WorkerQuiet, WorkerLogLock,
         WorkerLogUnlock, WorkerLogWake, WorkerLogWakeWrite, WorkerStop, WorkerPublish,
         WorkerMark, ControlStep, ControlCancel, ControlBoot, ControlLoop, ControlRead,
         ControlWoken, ControlPoll
    <3>3. CASE RtsLock \/ RtsStep
      BY <3>3 DEF RtsStep, RtsLock, RtsUnlock, RtsWake, RtsWakeWrite
    <3> QED
      BY <1>1, <2>2, <3>1, <3>2, <3>3 DEF Next, vars
  <2> QED
    BY <1>1, <2>3, <2>4, <2>5, <2>6 DEF Ended
<1>2. IInv /\ [Next]_vars =>
        [Ended(lock) /\ starts' = starts => Ended(lock)' /\ lock' = lock]_vars
  BY <1>1
<1> QED
  BY <1>2, SpecIInv, PTL DEF Spec
=============================================================================
