------------------------------- MODULE Hooks -------------------------------
(***************************************************************************)
(* The hook handlers (hooks.c) and the two mutexes around them: handlers   *)
(* run with g_hook_handler_registry_mutex held, and the first run for a    *)
(* writer that was attached in a C main also with g_mutex held, inside     *)
(* eventlog_socket_signal_ghc_rts_ready.  A handler may write to the       *)
(* eventlog (PLUGINS.md); then its thread enters writer_write, which locks *)
(* g_mutex.                                                                *)
(*                                                                         *)
(* Threads: users that register handlers, the main thread that signals     *)
(* the RTS, the worker that restarts event logging for each client, and an *)
(* RTS thread that writes.  Module EventlogSocket has what the last two    *)
(* do besides taking the mutexes.                                          *)
(***************************************************************************)
EXTENDS Integers, Sequences

CONSTANTS
  User, Main, Worker, Rts, \* threads
  Nobody,                  \* no owner of a mutex
  Handler,                 \* pairs of a hook handler and its data
  Logging,                 \* the handlers that write to the eventlog
  MaxRegister, MaxSignal, MaxClient \* bounds on the calls and the clients

Thread == User \cup {Main, Worker, Rts}

ASSUME ThreadAssumption ==
  /\ Main \notin User /\ Worker \notin User /\ Rts \notin User
  /\ Main # Worker /\ Main # Rts /\ Worker # Rts
  /\ Nobody \notin Thread
ASSUME HandlerAssumption == Logging \subseteq Handler
ASSUME BoundAssumption   == MaxRegister \in Nat /\ MaxSignal \in Nat /\ MaxClient \in Nat

VARIABLES
  handlers,  \* g_hook_handler_registry: the handlers of each hook, in order
  hookLock,  \* owner of g_hook_handler_registry_mutex
  gLock,     \* owner of g_mutex
  pc,        \* where each thread is
  hook,      \* the hook that a thread runs the handlers of
  called,    \* the handlers it called in this run
  attached, ready, had, \* three flags of g_init_state
  registers, signals, clients,
  expected   \* auxiliary: the handlers that were registered when the run began

locks  == <<hookLock, gLock>>
flags  == <<attached, ready, had>>
counts == <<registers, signals, clients>>
running == <<hook, called, expected>>
vars   == <<handlers, locks, pc, running, flags, counts>>

Hook == {"post-start", "pre-end"}

Init ==
  /\ handlers = [k \in Hook |-> <<>>]
  /\ hookLock = Nobody /\ gLock = Nobody
  /\ pc = [t \in Thread |-> "idle"]
  /\ hook = [t \in Thread |-> "post-start"]
  /\ called = [t \in Thread |-> <<>>] /\ expected = [t \in Thread |-> <<>>]
  /\ attached \in BOOLEAN /\ ready = FALSE /\ had = FALSE
  /\ registers = 0 /\ signals = 0 /\ clients = 0

Goto(t, place) == pc' = [pc EXCEPT ![t] = place]

-----------------------------------------------------------------------------
(* es_hooks_register_hook *)

RegisterCall(u) ==
  /\ pc[u] = "idle" /\ registers < MaxRegister
  /\ registers' = registers + 1
  /\ Goto(u, "register")
  /\ UNCHANGED <<handlers, locks, running, flags, signals, clients>>

\* Variant: the list is changed without the mutex.
Register_NoLock(u, k, h) ==
  /\ pc[u] = "register"
  /\ handlers' = [handlers EXCEPT ![k] = Append(@, h)]
  /\ Goto(u, "idle")
  /\ UNCHANGED <<locks, running, flags, counts>>

\* The critical section: the entry is appended.  (A NULL handler is refused before.)
Register(u, k, h) ==
  /\ pc[u] = "register" /\ hookLock = Nobody
  /\ handlers' = [handlers EXCEPT ![k] = Append(@, h)]
  /\ Goto(u, "idle")
  /\ UNCHANGED <<locks, running, flags, counts>>

\* malloc fails: the mutex is released and the list is as before.
RegisterNoMemory(u) ==
  /\ pc[u] = "register" /\ hookLock = Nobody
  /\ Goto(u, "idle")
  /\ UNCHANGED <<handlers, locks, running, flags, counts>>

\* A value that is no hook: EINVAL is returned with the mutex still locked.
RegisterInvalid(u) ==
  /\ pc[u] = "register" /\ hookLock = Nobody
  /\ hookLock' = u
  /\ Goto(u, "idle")
  /\ UNCHANGED <<handlers, gLock, running, flags, counts>>

-----------------------------------------------------------------------------
(* es_hooks_handle_hook *)

HookLock(t) ==
  /\ pc[t] = "hook" /\ hookLock = Nobody
  /\ hookLock' = t
  /\ called' = [called EXCEPT ![t] = <<>>]
  /\ expected' = [expected EXCEPT ![t] = handlers[hook[t]]]
  /\ Goto(t, "handlers")
  /\ UNCHANGED <<handlers, gLock, hook, flags, counts>>

NextHandler(t) == handlers[hook[t]][Len(called[t]) + 1]

\* The handler at the cursor is called.  It returns at once, or writes an event.
HandlerCall(t) ==
  /\ pc[t] = "handlers" /\ Len(called[t]) < Len(handlers[hook[t]])
  /\ called' = [called EXCEPT ![t] = Append(@, NextHandler(t))]
  /\ Goto(t, IF NextHandler(t) \in Logging THEN "logging" ELSE "handlers")
  /\ UNCHANGED <<handlers, locks, hook, expected, flags, counts>>

\* writer_write, called by the handler's thread when the RTS flushes its buffer.
HandlerWrite(t) ==
  /\ pc[t] = "logging" /\ gLock = Nobody
  /\ Goto(t, "handlers")
  /\ UNCHANGED <<handlers, locks, running, flags, counts>>

\* Variant: the registry mutex is not released.
HookUnlock_Keep(t) ==
  /\ pc[t] = "handlers" /\ Len(called[t]) = Len(handlers[hook[t]])
  /\ Goto(t, IF t = Main THEN "broadcast"
             ELSE IF hook[t] = "pre-end" THEN "end" ELSE "mark")
  /\ UNCHANGED <<handlers, locks, running, flags, counts>>

HookUnlock(t) ==
  /\ pc[t] = "handlers" /\ Len(called[t]) = Len(handlers[hook[t]])
  /\ hookLock' = Nobody
  /\ Goto(t, IF t = Main THEN "broadcast"
             ELSE IF hook[t] = "pre-end" THEN "end" ELSE "mark")
  /\ UNCHANGED <<handlers, gLock, running, flags, counts>>

-----------------------------------------------------------------------------
(* eventlog_socket_signal_ghc_rts_ready *)

SignalCall ==
  /\ pc[Main] = "idle" /\ signals < MaxSignal
  /\ signals' = signals + 1
  /\ Goto(Main, "signal")
  /\ UNCHANGED <<handlers, locks, running, flags, registers, clients>>

\* g_mutex is locked; the hooks run if the writer is attached already.
SignalLock ==
  /\ pc[Main] = "signal" /\ gLock = Nobody
  /\ gLock' = IF ready THEN Nobody ELSE Main
  /\ hook' = [hook EXCEPT ![Main] = "post-start"]
  /\ Goto(Main, IF ready THEN "idle" ELSE IF attached THEN "hook" ELSE "broadcast")
  /\ UNCHANGED <<handlers, hookLock, called, expected, flags, counts>>

SignalReady ==
  /\ pc[Main] = "broadcast"
  /\ ready' = TRUE
  /\ gLock' = Nobody
  /\ Goto(Main, "idle")
  /\ UNCHANGED <<handlers, hookLock, running, attached, had, counts>>

-----------------------------------------------------------------------------
(* The worker's part: es_worker_step_listen from the accepted client on *)

Accept ==
  /\ pc[Worker] = "idle" /\ clients < MaxClient
  /\ clients' = clients + 1
  /\ Goto(Worker, "waitrts")
  /\ UNCHANGED <<handlers, locks, running, flags, registers, signals>>

\* Variant: the worker does not wait until the RTS is ready.
ReadInitState_NoWait ==
  /\ pc[Worker] = "waitrts" /\ gLock = Nobody
  /\ hook' = [hook EXCEPT ![Worker] = IF attached /\ had THEN "pre-end" ELSE "post-start"]
  /\ Goto(Worker, IF attached THEN IF had THEN "hook" ELSE "mark" ELSE "start")
  /\ UNCHANGED <<handlers, locks, called, expected, flags, counts>>

\* es_worker_wait_rts_ready and the decision to restart event logging.
ReadInitState ==
  /\ pc[Worker] = "waitrts" /\ gLock = Nobody
  /\ ready
  /\ hook' = [hook EXCEPT ![Worker] = IF attached /\ had THEN "pre-end" ELSE "post-start"]
  /\ Goto(Worker, IF attached THEN IF had THEN "hook" ELSE "mark" ELSE "start")
  /\ UNCHANGED <<handlers, locks, called, expected, flags, counts>>

\* endEventLogging: writer_stop.
WorkerEnd ==
  /\ pc[Worker] = "end" /\ gLock = Nobody
  /\ attached' = FALSE
  /\ Goto(Worker, "start")
  /\ UNCHANGED <<handlers, locks, running, ready, had, counts>>

\* startEventLogging: writer_init.
WorkerStart ==
  /\ pc[Worker] = "start" /\ gLock = Nobody
  /\ attached' = TRUE
  /\ hook' = [hook EXCEPT ![Worker] = "post-start"]
  /\ Goto(Worker, "hook")
  /\ UNCHANGED <<handlers, locks, called, expected, ready, had, counts>>

\* HAD_FIRST_CONNECTION is set under the mutex, if it is not set yet.
WorkerMark ==
  /\ pc[Worker] = "mark" /\ (had \/ gLock = Nobody)
  /\ had' = TRUE
  /\ Goto(Worker, "idle")
  /\ UNCHANGED <<handlers, locks, running, attached, ready, counts>>

-----------------------------------------------------------------------------
(* An RTS thread that writes to the eventlog *)

WriteCall ==
  /\ pc[Rts] = "idle"
  /\ Goto(Rts, "write")
  /\ UNCHANGED <<handlers, locks, running, flags, counts>>

writer_write ==
  /\ pc[Rts] = "write" /\ gLock = Nobody
  /\ Goto(Rts, "idle")
  /\ UNCHANGED <<handlers, locks, running, flags, counts>>

-----------------------------------------------------------------------------
HookStep(t) == HookLock(t) \/ HandlerCall(t) \/ HandlerWrite(t) \/ HookUnlock(t)

UserStep(u) ==
  \/ \E k \in Hook, h \in Handler : Register(u, k, h)
  \/ RegisterNoMemory(u) \/ RegisterInvalid(u)

MainStep == SignalLock \/ SignalReady \/ HookStep(Main)

WorkerStep == ReadInitState \/ WorkerEnd \/ WorkerStart \/ WorkerMark \/ HookStep(Worker)

Next ==
  \/ \E u \in User : RegisterCall(u) \/ UserStep(u)
  \/ SignalCall \/ MainStep
  \/ Accept \/ WorkerStep
  \/ WriteCall \/ writer_write

Spec == Init /\ [][Next]_vars

\* Every thread that is inside the library runs on; nobody has to call it.
Fairness ==
  /\ \A u \in User : WF_vars(UserStep(u))
  /\ WF_vars(MainStep) /\ WF_vars(WorkerStep) /\ WF_vars(writer_write)

FairSpec == Spec /\ Fairness

-----------------------------------------------------------------------------
(* Properties *)

Place == {"idle", "register", "signal", "hook", "handlers", "logging", "broadcast",
          "waitrts", "end", "start", "mark", "write"}

TypeOK ==
  /\ handlers \in [Hook -> Seq(Handler)]
  /\ hookLock \in Thread \cup {Nobody} /\ gLock \in {Main, Nobody}
  /\ pc \in [Thread -> Place] /\ hook \in [Thread -> Hook]
  /\ called \in [Thread -> Seq(Handler)] /\ expected \in [Thread -> Seq(Handler)]
  /\ attached \in BOOLEAN /\ ready \in BOOLEAN /\ had \in BOOLEAN
  /\ registers \in Nat /\ signals \in Nat /\ clients \in Nat

\* While handlers run, the ones called so far are the first ones of those that were
\* registered when the run began, each once and in the order of registration.
CalledInOrder ==
  \A t \in {Main, Worker} :
    pc[t] \in {"handlers", "logging"} =>
      /\ Len(called[t]) <= Len(expected[t])
      /\ called[t] = SubSeq(expected[t], 1, Len(called[t]))

\* A thread that is past a run of the hooks called all of them: the signal that the
\* RTS is ready, and the writer's end, come after every handler.
AllCalled ==
  /\ pc[Worker] = "end" => called[Worker] = expected[Worker]
  /\ pc[Main] = "broadcast" /\ attached => called[Main] = expected[Main]

\* eventlog_socket.h: if the writer is attached in a C main, the library "waits to
\* call this hook for the first time until the GHC RTS is initialised".  The
\* worker runs no hook before the main thread's signal is complete, so the two
\* never run handlers at the same time.
WorkerHooksAfterSignal ==
  pc[Worker] \in {"hook", "handlers", "logging"} =>
    ready /\ pc[Main] \notin {"hook", "handlers", "logging"}

\* Thread t waits for a mutex that s holds.
Waits(t, s) ==
  \/ pc[t] \in {"register", "hook"} /\ hookLock = s
  \/ /\ pc[t] \in {"signal", "waitrts", "logging", "end", "start", "write"}
     /\ gLock = s
  \/ pc[t] = "mark" /\ ~had /\ gLock = s

\* The registry mutex is lost: a caller passed a value that is no hook.
Lost == hookLock \in User

\* The main thread waits for the g_mutex that it holds itself.
SelfLock == Waits(Main, Main)

\* The main thread locks g_mutex and then the registry mutex, a handler in the
\* worker the other way round; still no two threads ever wait for each other, and
\* unless the registry mutex was lost or the main thread waits for itself, nobody
\* waits for a thread that waits: whoever holds a mutex runs.
NoCircularWait ==
  /\ \A t, s \in Thread : t # s => ~(Waits(t, s) /\ Waits(s, t))
  /\ \A t, s, r \in Thread : Waits(t, s) /\ Waits(s, r) => Lost \/ SelfLock

\* A thread inside the library gets out of it again, unless the registry mutex was
\* lost or a handler wrote an event while the main thread held g_mutex.
CallsReturn ==
  \A t \in Thread : pc[t] \notin {"idle", "waitrts"} ~> pc[t] = "idle" \/ Lost \/ SelfLock

(* What a document says and the code does not do *)

\* PLUGINS.md advises handlers of the post-start hook to call flushEventLog, and
\* eventlog_socket.h promises a status: the signal that the RTS is ready returns,
\* as long as the registry mutex is not lost.
SignalReturns == pc[Main] = "signal" ~> pc[Main] = "idle" \/ Lost
=============================================================================
