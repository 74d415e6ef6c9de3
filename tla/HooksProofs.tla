---------------------------- MODULE HooksProofs ----------------------------
(***************************************************************************)
(* The hooks, for any users, handlers and numbers of calls: a run calls    *)
(* every handler once and in order, the worker's runs follow the signal    *)
(* that the RTS is ready, and for that reason the two lock orders never    *)
(* meet in a deadlock.  The two ways in which a mutex is lost all the same *)
(* lose it for ever.                                                       *)
(***************************************************************************)
EXTENDS Hooks, SequenceTheorems, TLAPS

Runner == {Main, Worker}
InRun  == {"handlers", "logging"}

\* Where each kind of thread may be.
PlaceInv ==
  /\ \A u \in User : pc[u] \in {"idle", "register"}
  /\ pc[Main] \in {"idle", "signal", "hook", "handlers", "logging", "broadcast"}
  /\ pc[Worker] \in {"idle", "waitrts", "hook", "handlers", "logging", "end", "start", "mark"}
  /\ pc[Rts] \in {"idle", "write"}

\* Who holds the mutexes, by place; a user holds the registry mutex only for good.
LockInv ==
  /\ gLock = Main <=> pc[Main] \in {"hook", "handlers", "logging", "broadcast"}
  /\ \A t \in Runner : hookLock = t <=> pc[t] \in InRun
  /\ hookLock # Rts

\* The main thread holds g_mutex only until it marks the RTS as ready, and the worker
\* is past its wait only after that.
ReadyInv ==
  /\ gLock = Main => ~ready
  /\ pc[Worker] \in {"hook", "handlers", "logging", "end", "start", "mark"} => ready

\* The list does not change during a run.
ListInv ==
  \A t \in Runner : pc[t] \in InRun => expected[t] = handlers[hook[t]]

IInv == TypeOK /\ PlaceInv /\ LockInv /\ ReadyInv /\ ListInv /\ CalledInOrder /\ AllCalled

\* A thread that goes somewhere leaves the places of the others.
LEMMA GotoPlace ==
  ASSUME TypeOK, NEW t \in Thread, NEW place \in Place, Goto(t, place)
  PROVE  /\ pc' \in [Thread -> Place]
         /\ pc'[t] = place /\ \A s \in Thread : s # t => pc'[s] = pc[s]
BY DEF TypeOK, Goto

\* Extending a prefix by the next element gives a prefix.
LEMMA PrefixAppend ==
  ASSUME NEW S, NEW e \in Seq(S), NEW c \in Seq(S), Len(c) < Len(e),
         c = SubSeq(e, 1, Len(c))
  PROVE  Append(c, e[Len(c) + 1]) = SubSeq(e, 1, Len(c) + 1)
<1> DEFINE n == Len(c)
<1>1. n \in Nat /\ n + 1 \in 1..Len(e) /\ Len(e) \in Nat
  OBVIOUS
<1>2. e[n + 1] \in S
  BY <1>1
<1> DEFINE a == Append(c, e[n + 1])
           b == SubSeq(e, 1, n + 1)
<1>3. a \in Seq(S) /\ Len(a) = n + 1 /\ a[n + 1] = e[n + 1]
      /\ \A i \in 1..n : a[i] = c[i]
  BY <1>2, AppendProperties
<1>4. b \in Seq(S) /\ Len(b) = n + 1 /\ \A i \in 1..(n + 1) : b[i] = e[i]
  BY <1>1
<1>5. \A i \in 1..n : c[i] = e[i]
  <2>1. \A i \in 1..n : SubSeq(e, 1, n)[i] = e[i]
    BY <1>1
  <2> QED
    BY <2>1
<1>6. \A i \in 1..(n + 1) : a[i] = b[i]
  BY <1>1, <1>3, <1>4, <1>5
<1> HIDE DEF a, b
<1>7. a = b
  BY <1>1, <1>3, <1>4, <1>6, SeqEqual
<1> QED
  BY <1>7 DEF a, b

\* A prefix of full length is the whole sequence.
LEMMA PrefixWhole ==
  ASSUME NEW S, NEW e \in Seq(S), NEW c \in Seq(S), Len(c) = Len(e),
         c = SubSeq(e, 1, Len(c))
  PROVE  c = e
BY SubSeqFull

LEMMA InitIInv == Init => IInv
<1> SUFFICES ASSUME Init
             PROVE  IInv
  OBVIOUS
<1>1. <<>> \in Seq(Handler)
  OBVIOUS
<1>2. TypeOK
  BY <1>1 DEF Init, TypeOK, Hook, Place
<1>3. pc[Main] = "idle" /\ pc[Worker] = "idle" /\ pc[Rts] = "idle"
      /\ \A u \in User : pc[u] = "idle"
  BY DEF Init, Thread
<1>4. PlaceInv /\ ListInv /\ CalledInOrder /\ AllCalled
  BY <1>3 DEF PlaceInv, ListInv, Runner, InRun, CalledInOrder, AllCalled
<1>5. LockInv /\ ReadyInv
  BY <1>3, ThreadAssumption DEF Init, LockInv, ReadyInv, Runner, InRun, Thread
<1> QED
  BY <1>2, <1>4, <1>5 DEF IInv

\* A registration begins.
LEMMA RegisterCallIInv ==
  ASSUME IInv, NEW u \in User, RegisterCall(u)
  PROVE  IInv'
<1>1. u \in Thread /\ "register" \in Place
  BY DEF Thread, Place
<1>2. Goto(u, "register")
  BY DEF RegisterCall, flags, counts, running, locks
<1>3. /\ pc' \in [Thread -> Place]
      /\ pc'[u] = "register" /\ \A s \in Thread : s # u => pc'[s] = pc[s]
  BY <1>1, <1>2, GotoPlace DEF IInv
<1>4. TypeOK'
  BY <1>3 DEF IInv, TypeOK, Hook, Thread, RegisterCall, flags, counts, running, locks
<1>5. Main \in Thread /\ Worker \in Thread /\ Rts \in Thread /\ User \subseteq Thread
  BY DEF Thread
<1>6. PlaceInv'
  BY <1>3, <1>5, ThreadAssumption DEF IInv, PlaceInv, RegisterCall, flags, counts, running,
     locks
<1>7. LockInv' /\ ReadyInv'
  BY <1>3, <1>5, ThreadAssumption
  DEF IInv, PlaceInv, LockInv, ReadyInv, Runner, InRun, Thread, RegisterCall, flags, counts,
     running, locks
<1>8. ListInv' /\ CalledInOrder' /\ AllCalled'
  BY <1>3, <1>5, ThreadAssumption
  DEF IInv, PlaceInv, LockInv, ListInv, CalledInOrder, AllCalled, Runner, InRun,
     RegisterCall, flags, counts, running, locks
<1> QED
  BY <1>4, <1>6, <1>7, <1>8 DEF IInv

\* A registration without memory.
LEMMA RegisterNoMemoryIInv ==
  ASSUME IInv, NEW u \in User, RegisterNoMemory(u)
  PROVE  IInv'
<1>1. u \in Thread /\ "idle" \in Place
  BY DEF Thread, Place
<1>2. Goto(u, "idle")
  BY DEF RegisterNoMemory, flags, counts, running, locks
<1>3. /\ pc' \in [Thread -> Place]
      /\ pc'[u] = "idle" /\ \A s \in Thread : s # u => pc'[s] = pc[s]
  BY <1>1, <1>2, GotoPlace DEF IInv
<1>4. TypeOK'
  BY <1>3 DEF IInv, TypeOK, Hook, Thread, RegisterNoMemory, flags, counts, running, locks
<1>5. Main \in Thread /\ Worker \in Thread /\ Rts \in Thread /\ User \subseteq Thread
  BY DEF Thread
<1>6. PlaceInv'
  BY <1>3, <1>5, ThreadAssumption DEF IInv, PlaceInv, RegisterNoMemory, flags, counts,
     running, locks
<1>7. LockInv' /\ ReadyInv'
  BY <1>3, <1>5, ThreadAssumption
  DEF IInv, PlaceInv, LockInv, ReadyInv, Runner, InRun, Thread, RegisterNoMemory, flags,
     counts, running, locks
<1>8. ListInv' /\ CalledInOrder' /\ AllCalled'
  BY <1>3, <1>5, ThreadAssumption
  DEF IInv, PlaceInv, LockInv, ListInv, CalledInOrder, AllCalled, Runner, InRun,
     RegisterNoMemory, flags, counts, running, locks
<1> QED
  BY <1>4, <1>6, <1>7, <1>8 DEF IInv

\* A registration for no hook.
LEMMA RegisterInvalidIInv ==
  ASSUME IInv, NEW u \in User, RegisterInvalid(u)
  PROVE  IInv'
<1>1. u \in Thread /\ "idle" \in Place
  BY DEF Thread, Place
<1>2. Goto(u, "idle")
  BY DEF RegisterInvalid, flags, counts, running, locks
<1>3. /\ pc' \in [Thread -> Place]
      /\ pc'[u] = "idle" /\ \A s \in Thread : s # u => pc'[s] = pc[s]
  BY <1>1, <1>2, GotoPlace DEF IInv
<1>4. TypeOK'
  BY <1>3 DEF IInv, TypeOK, Hook, Thread, RegisterInvalid, flags, counts, running, locks
<1>5. Main \in Thread /\ Worker \in Thread /\ Rts \in Thread /\ User \subseteq Thread
  BY DEF Thread
<1>6. PlaceInv'
  BY <1>3, <1>5, ThreadAssumption DEF IInv, PlaceInv, RegisterInvalid, flags, counts,
     running, locks
<1>7. LockInv' /\ ReadyInv'
  BY <1>3, <1>5, ThreadAssumption
  DEF IInv, PlaceInv, LockInv, ReadyInv, Runner, InRun, Thread, RegisterInvalid, flags,
     counts, running, locks
<1>8. ListInv' /\ CalledInOrder' /\ AllCalled'
  BY <1>3, <1>5, ThreadAssumption
  DEF IInv, PlaceInv, LockInv, ListInv, CalledInOrder, AllCalled, Runner, InRun,
     RegisterInvalid, flags, counts, running, locks
<1> QED
  BY <1>4, <1>6, <1>7, <1>8 DEF IInv

\* The signal is called.
LEMMA SignalCallIInv ==
  ASSUME IInv, SignalCall
  PROVE  IInv'
<1>1. Main \in Thread /\ "signal" \in Place
  BY DEF Thread, Place
<1>2. Goto(Main, "signal")
  BY DEF SignalCall, flags, counts, running, locks
<1>3. /\ pc' \in [Thread -> Place]
      /\ pc'[Main] = "signal" /\ \A s \in Thread : s # Main => pc'[s] = pc[s]
  BY <1>1, <1>2, GotoPlace DEF IInv
<1>4. TypeOK'
  BY <1>3 DEF IInv, TypeOK, Hook, Thread, SignalCall, flags, counts, running, locks
<1>5. Main \in Thread /\ Worker \in Thread /\ Rts \in Thread /\ User \subseteq Thread
  BY DEF Thread
<1>6. PlaceInv'
  BY <1>3, <1>5, ThreadAssumption DEF IInv, PlaceInv, SignalCall, flags, counts, running,
     locks
<1>7. LockInv' /\ ReadyInv'
  BY <1>3, <1>5, ThreadAssumption
  DEF IInv, PlaceInv, LockInv, ReadyInv, Runner, InRun, Thread, SignalCall, flags, counts,
     running, locks
<1>8. ListInv' /\ CalledInOrder' /\ AllCalled'
  BY <1>3, <1>5, ThreadAssumption
  DEF IInv, PlaceInv, LockInv, ListInv, CalledInOrder, AllCalled, Runner, InRun, SignalCall,
     flags, counts, running, locks
<1> QED
  BY <1>4, <1>6, <1>7, <1>8 DEF IInv

\* The RTS is marked as ready.
LEMMA SignalReadyIInv ==
  ASSUME IInv, SignalReady
  PROVE  IInv'
<1>1. Main \in Thread /\ "idle" \in Place
  BY DEF Thread, Place
<1>2. Goto(Main, "idle")
  BY DEF SignalReady, flags, counts, running, locks
<1>3. /\ pc' \in [Thread -> Place]
      /\ pc'[Main] = "idle" /\ \A s \in Thread : s # Main => pc'[s] = pc[s]
  BY <1>1, <1>2, GotoPlace DEF IInv
<1>4. TypeOK'
  BY <1>3 DEF IInv, TypeOK, Hook, Thread, SignalReady, flags, counts, running, locks
<1>5. Main \in Thread /\ Worker \in Thread /\ Rts \in Thread /\ User \subseteq Thread
  BY DEF Thread
<1>6. PlaceInv'
  BY <1>3, <1>5, ThreadAssumption DEF IInv, PlaceInv, SignalReady, flags, counts, running,
     locks
<1>7. LockInv' /\ ReadyInv'
  BY <1>3, <1>5, ThreadAssumption
  DEF IInv, PlaceInv, LockInv, ReadyInv, Runner, InRun, Thread, SignalReady, flags, counts,
     running, locks
<1>8. ListInv' /\ CalledInOrder' /\ AllCalled'
  BY <1>3, <1>5, ThreadAssumption
  DEF IInv, PlaceInv, LockInv, ListInv, CalledInOrder, AllCalled, Runner, InRun,
     SignalReady, flags, counts, running, locks
<1> QED
  BY <1>4, <1>6, <1>7, <1>8 DEF IInv

\* A client is accepted.
LEMMA AcceptIInv ==
  ASSUME IInv, Accept
  PROVE  IInv'
<1>1. Worker \in Thread /\ "waitrts" \in Place
  BY DEF Thread, Place
<1>2. Goto(Worker, "waitrts")
  BY DEF Accept, flags, counts, running, locks
<1>3. /\ pc' \in [Thread -> Place]
      /\ pc'[Worker] = "waitrts" /\ \A s \in Thread : s # Worker => pc'[s] = pc[s]
  BY <1>1, <1>2, GotoPlace DEF IInv
<1>4. TypeOK'
  BY <1>3 DEF IInv, TypeOK, Hook, Thread, Accept, flags, counts, running, locks
<1>5. Main \in Thread /\ Worker \in Thread /\ Rts \in Thread /\ User \subseteq Thread
  BY DEF Thread
<1>6. PlaceInv'
  BY <1>3, <1>5, ThreadAssumption DEF IInv, PlaceInv, Accept, flags, counts, running, locks
<1>7. LockInv' /\ ReadyInv'
  BY <1>3, <1>5, ThreadAssumption
  DEF IInv, PlaceInv, LockInv, ReadyInv, Runner, InRun, Thread, Accept, flags, counts,
     running, locks
<1>8. ListInv' /\ CalledInOrder' /\ AllCalled'
  BY <1>3, <1>5, ThreadAssumption
  DEF IInv, PlaceInv, LockInv, ListInv, CalledInOrder, AllCalled, Runner, InRun, Accept,
     flags, counts, running, locks
<1> QED
  BY <1>4, <1>6, <1>7, <1>8 DEF IInv

\* Event logging ends.
LEMMA WorkerEndIInv ==
  ASSUME IInv, WorkerEnd
  PROVE  IInv'
<1>1. Worker \in Thread /\ "start" \in Place
  BY DEF Thread, Place
<1>2. Goto(Worker, "start")
  BY DEF WorkerEnd, flags, counts, running, locks
<1>3. /\ pc' \in [Thread -> Place]
      /\ pc'[Worker] = "start" /\ \A s \in Thread : s # Worker => pc'[s] = pc[s]
  BY <1>1, <1>2, GotoPlace DEF IInv
<1>4. TypeOK'
  BY <1>3 DEF IInv, TypeOK, Hook, Thread, WorkerEnd, flags, counts, running, locks
<1>5. Main \in Thread /\ Worker \in Thread /\ Rts \in Thread /\ User \subseteq Thread
  BY DEF Thread
<1>6. PlaceInv'
  BY <1>3, <1>5, ThreadAssumption DEF IInv, PlaceInv, WorkerEnd, flags, counts, running,
     locks
<1>7. LockInv' /\ ReadyInv'
  BY <1>3, <1>5, ThreadAssumption
  DEF IInv, PlaceInv, LockInv, ReadyInv, Runner, InRun, Thread, WorkerEnd, flags, counts,
     running, locks
<1>8. ListInv' /\ CalledInOrder' /\ AllCalled'
  BY <1>3, <1>5, ThreadAssumption
  DEF IInv, PlaceInv, LockInv, ListInv, CalledInOrder, AllCalled, Runner, InRun, WorkerEnd,
     flags, counts, running, locks
<1> QED
  BY <1>4, <1>6, <1>7, <1>8 DEF IInv

\* Event logging starts.
LEMMA WorkerStartIInv ==
  ASSUME IInv, WorkerStart
  PROVE  IInv'
<1>1. Worker \in Thread /\ "hook" \in Place
  BY DEF Thread, Place
<1>2. Goto(Worker, "hook")
  BY DEF WorkerStart, flags, counts, running, locks
<1>3. /\ pc' \in [Thread -> Place]
      /\ pc'[Worker] = "hook" /\ \A s \in Thread : s # Worker => pc'[s] = pc[s]
  BY <1>1, <1>2, GotoPlace DEF IInv
<1>4. TypeOK'
  BY <1>3 DEF IInv, TypeOK, Hook, Thread, WorkerStart, flags, counts, running, locks
<1>5. Main \in Thread /\ Worker \in Thread /\ Rts \in Thread /\ User \subseteq Thread
  BY DEF Thread
<1>6. PlaceInv'
  BY <1>3, <1>5, ThreadAssumption DEF IInv, PlaceInv, WorkerStart, flags, counts, running,
     locks
<1>7. LockInv' /\ ReadyInv'
  BY <1>3, <1>5, ThreadAssumption
  DEF IInv, PlaceInv, LockInv, ReadyInv, Runner, InRun, Thread, WorkerStart, flags, counts,
     running, locks
<1>8. ListInv' /\ CalledInOrder' /\ AllCalled'
  BY <1>3, <1>5, ThreadAssumption
  DEF IInv, PlaceInv, LockInv, ListInv, CalledInOrder, AllCalled, Runner, InRun,
     WorkerStart, flags, counts, running, locks
<1> QED
  BY <1>4, <1>6, <1>7, <1>8 DEF IInv

\* The first connection is recorded.
LEMMA WorkerMarkIInv ==
  ASSUME IInv, WorkerMark
  PROVE  IInv'
<1>1. Worker \in Thread /\ "idle" \in Place
  BY DEF Thread, Place
<1>2. Goto(Worker, "idle")
  BY DEF WorkerMark, flags, counts, running, locks
<1>3. /\ pc' \in [Thread -> Place]
      /\ pc'[Worker] = "idle" /\ \A s \in Thread : s # Worker => pc'[s] = pc[s]
  BY <1>1, <1>2, GotoPlace DEF IInv
<1>4. TypeOK'
  BY <1>3 DEF IInv, TypeOK, Hook, Thread, WorkerMark, flags, counts, running, locks
<1>5. Main \in Thread /\ Worker \in Thread /\ Rts \in Thread /\ User \subseteq Thread
  BY DEF Thread
<1>6. PlaceInv'
  BY <1>3, <1>5, ThreadAssumption DEF IInv, PlaceInv, WorkerMark, flags, counts, running,
     locks
<1>7. LockInv' /\ ReadyInv'
  BY <1>3, <1>5, ThreadAssumption
  DEF IInv, PlaceInv, LockInv, ReadyInv, Runner, InRun, Thread, WorkerMark, flags, counts,
     running, locks
<1>8. ListInv' /\ CalledInOrder' /\ AllCalled'
  BY <1>3, <1>5, ThreadAssumption
  DEF IInv, PlaceInv, LockInv, ListInv, CalledInOrder, AllCalled, Runner, InRun, WorkerMark,
     flags, counts, running, locks
<1> QED
  BY <1>4, <1>6, <1>7, <1>8 DEF IInv

\* The RTS has events to write.
LEMMA WriteCallIInv ==
  ASSUME IInv, WriteCall
  PROVE  IInv'
<1>1. Rts \in Thread /\ "write" \in Place
  BY DEF Thread, Place
<1>2. Goto(Rts, "write")
  BY DEF WriteCall, flags, counts, running, locks
<1>3. /\ pc' \in [Thread -> Place]
      /\ pc'[Rts] = "write" /\ \A s \in Thread : s # Rts => pc'[s] = pc[s]
  BY <1>1, <1>2, GotoPlace DEF IInv
<1>4. TypeOK'
  BY <1>3 DEF IInv, TypeOK, Hook, Thread, WriteCall, flags, counts, running, locks
<1>5. Main \in Thread /\ Worker \in Thread /\ Rts \in Thread /\ User \subseteq Thread
  BY DEF Thread
<1>6. PlaceInv'
  BY <1>3, <1>5, ThreadAssumption DEF IInv, PlaceInv, WriteCall, flags, counts, running,
     locks
<1>7. LockInv' /\ ReadyInv'
  BY <1>3, <1>5, ThreadAssumption
  DEF IInv, PlaceInv, LockInv, ReadyInv, Runner, InRun, Thread, WriteCall, flags, counts,
     running, locks
<1>8. ListInv' /\ CalledInOrder' /\ AllCalled'
  BY <1>3, <1>5, ThreadAssumption
  DEF IInv, PlaceInv, LockInv, ListInv, CalledInOrder, AllCalled, Runner, InRun, WriteCall,
     flags, counts, running, locks
<1> QED
  BY <1>4, <1>6, <1>7, <1>8 DEF IInv

\* The RTS writes.
LEMMA WriteIInv ==
  ASSUME IInv, writer_write
  PROVE  IInv'
<1>1. Rts \in Thread /\ "idle" \in Place
  BY DEF Thread, Place
<1>2. Goto(Rts, "idle")
  BY DEF writer_write, flags, counts, running, locks
<1>3. /\ pc' \in [Thread -> Place]
      /\ pc'[Rts] = "idle" /\ \A s \in Thread : s # Rts => pc'[s] = pc[s]
  BY <1>1, <1>2, GotoPlace DEF IInv
<1>4. TypeOK'
  BY <1>3 DEF IInv, TypeOK, Hook, Thread, writer_write, flags, counts, running, locks
<1>5. Main \in Thread /\ Worker \in Thread /\ Rts \in Thread /\ User \subseteq Thread
  BY DEF Thread
<1>6. PlaceInv'
  BY <1>3, <1>5, ThreadAssumption DEF IInv, PlaceInv, writer_write, flags, counts, running,
     locks
<1>7. LockInv' /\ ReadyInv'
  BY <1>3, <1>5, ThreadAssumption
  DEF IInv, PlaceInv, LockInv, ReadyInv, Runner, InRun, Thread, writer_write, flags, counts,
     running, locks
<1>8. ListInv' /\ CalledInOrder' /\ AllCalled'
  BY <1>3, <1>5, ThreadAssumption
  DEF IInv, PlaceInv, LockInv, ListInv, CalledInOrder, AllCalled, Runner, InRun,
     writer_write, flags, counts, running, locks
<1> QED
  BY <1>4, <1>6, <1>7, <1>8 DEF IInv

\* The signal locks g_mutex.
LEMMA SignalLockIInv ==
  ASSUME IInv, SignalLock
  PROVE  IInv'
<1> DEFINE place == IF ready THEN "idle" ELSE IF attached THEN "hook" ELSE "broadcast"
<1>1. Main \in Thread /\ place \in Place
  BY DEF Thread, Place
<1>2. Goto(Main, place)
  BY DEF SignalLock
<1> HIDE DEF place
<1>3. /\ pc' \in [Thread -> Place]
      /\ pc'[Main] = place /\ \A s \in Thread : s # Main => pc'[s] = pc[s]
  BY <1>1, <1>2, GotoPlace DEF IInv
<1>4. Main \in Thread /\ Worker \in Thread /\ Rts \in Thread /\ User \subseteq Thread
  BY DEF Thread
<1>5. TypeOK'
  BY <1>3, <1>4 DEF IInv, TypeOK, Hook, Thread, SignalLock, flags, counts, running, locks
<1>6. PlaceInv'
  BY <1>3, <1>4, ThreadAssumption DEF IInv, PlaceInv, place, SignalLock, flags, counts,
     running, locks
<1>7. LockInv' /\ ReadyInv'
  BY <1>3, <1>4, ThreadAssumption
  DEF IInv, PlaceInv, LockInv, ReadyInv, Runner, InRun, Thread, place, SignalLock, flags,
     counts, running, locks
<1>8. ListInv' /\ CalledInOrder' /\ AllCalled'
  BY <1>3, <1>4, ThreadAssumption
  DEF IInv, PlaceInv, LockInv, ListInv, CalledInOrder, AllCalled, Runner, InRun, place,
     SignalLock, flags, counts, running, locks
<1> QED
  BY <1>5, <1>6, <1>7, <1>8 DEF IInv

\* The worker decides whether event logging restarts.
LEMMA ReadInitStateIInv ==
  ASSUME IInv, ReadInitState
  PROVE  IInv'
<1> DEFINE place == IF attached THEN IF had THEN "hook" ELSE "mark" ELSE "start"
<1>1. Worker \in Thread /\ place \in Place
  BY DEF Thread, Place
<1>2. Goto(Worker, place)
  BY DEF ReadInitState
<1> HIDE DEF place
<1>3. /\ pc' \in [Thread -> Place]
      /\ pc'[Worker] = place /\ \A s \in Thread : s # Worker => pc'[s] = pc[s]
  BY <1>1, <1>2, GotoPlace DEF IInv
<1>4. Main \in Thread /\ Worker \in Thread /\ Rts \in Thread /\ User \subseteq Thread
  BY DEF Thread
<1>5. TypeOK'
  BY <1>3, <1>4 DEF IInv, TypeOK, Hook, Thread, ReadInitState, flags, counts, running, locks
<1>6. PlaceInv'
  BY <1>3, <1>4, ThreadAssumption DEF IInv, PlaceInv, place, ReadInitState, flags, counts,
     running, locks
<1>7. LockInv' /\ ReadyInv'
  BY <1>3, <1>4, ThreadAssumption
  DEF IInv, PlaceInv, LockInv, ReadyInv, Runner, InRun, Thread, place, ReadInitState, flags,
     counts, running, locks
<1>8. ListInv' /\ CalledInOrder' /\ AllCalled'
  BY <1>3, <1>4, ThreadAssumption
  DEF IInv, PlaceInv, LockInv, ListInv, CalledInOrder, AllCalled, Runner, InRun, place,
     ReadInitState, flags, counts, running, locks
<1> QED
  BY <1>5, <1>6, <1>7, <1>8 DEF IInv

\* A handler is appended: no run is under way, because it would hold the mutex.
LEMMA RegisterIInv ==
  ASSUME IInv, NEW u \in User, NEW k \in Hook, NEW h \in Handler, Register(u, k, h)
  PROVE  IInv'
<1> DEFINE place == "idle"
<1>1. u \in Thread /\ place \in Place
  BY DEF Thread, Place
<1>2. Goto(u, place)
  BY DEF Register
<1> HIDE DEF place
<1>3. /\ pc' \in [Thread -> Place]
      /\ pc'[u] = place /\ \A s \in Thread : s # u => pc'[s] = pc[s]
  BY <1>1, <1>2, GotoPlace DEF IInv
<1>4. Main \in Thread /\ Worker \in Thread /\ Rts \in Thread /\ User \subseteq Thread
  BY DEF Thread
<1>a. handlers' \in [Hook -> Seq(Handler)]
  <2>1. handlers \in [Hook -> Seq(Handler)]
    BY DEF IInv, TypeOK
  <2>2. Append(handlers[k], h) \in Seq(Handler)
    BY <2>1, AppendProperties
  <2> QED
    BY <2>1, <2>2 DEF Register
<1>b. \A t \in Runner : pc'[t] = pc[t] /\ pc[t] \notin InRun
  BY <1>3, <1>4, ThreadAssumption DEF IInv, LockInv, Runner, Register, Thread
<1>5. TypeOK'
  BY <1>3, <1>4, <1>a DEF IInv, TypeOK, Hook, Thread, Register, flags, counts, running,
     locks
<1>6. PlaceInv'
  BY <1>3, <1>4, ThreadAssumption DEF IInv, PlaceInv, place, Register, flags, counts,
     running, locks
<1>7. LockInv' /\ ReadyInv'
  BY <1>3, <1>4, ThreadAssumption
  DEF IInv, PlaceInv, LockInv, ReadyInv, Runner, InRun, Thread, place, Register, flags,
     counts, running, locks
<1>8. ListInv' /\ CalledInOrder' /\ AllCalled'
  BY <1>3, <1>4, <1>b, ThreadAssumption
  DEF IInv, PlaceInv, LockInv, ListInv, CalledInOrder, AllCalled, Runner, InRun, place,
     Register, flags, counts, running, locks
<1> QED
  BY <1>5, <1>6, <1>7, <1>8 DEF IInv

\* A run begins.
LEMMA HookLockIInv ==
  ASSUME IInv, NEW t \in Runner, HookLock(t)
  PROVE  IInv'
<1> DEFINE place == "handlers"
<1>1. t \in Thread /\ place \in Place
  BY DEF Thread, Place, Runner
<1>2. Goto(t, place)
  BY DEF HookLock
<1> HIDE DEF place
<1>3. /\ pc' \in [Thread -> Place]
      /\ pc'[t] = place /\ \A s \in Thread : s # t => pc'[s] = pc[s]
  BY <1>1, <1>2, GotoPlace DEF IInv
<1>4. Main \in Thread /\ Worker \in Thread /\ Rts \in Thread /\ User \subseteq Thread
  BY DEF Thread
<1>a. handlers[hook[t]] \in Seq(Handler) /\ <<>> \in Seq(Handler)
  BY <1>1 DEF IInv, TypeOK
<1>b. /\ called'[t] = <<>> /\ expected'[t] = handlers[hook[t]]
      /\ \A s \in Runner : s # t => called'[s] = called[s] /\ expected'[s] = expected[s]
  BY <1>1 DEF IInv, TypeOK, HookLock, Runner, Thread
<1>c. called' \in [Thread -> Seq(Handler)] /\ expected' \in [Thread -> Seq(Handler)]
  BY <1>1, <1>a DEF IInv, TypeOK, HookLock
<1>d. Len(<<>>) <= Len(handlers[hook[t]]) /\ SubSeq(handlers[hook[t]], 1, Len(<<>>)) = <<>>
  BY <1>a
<1>e. t = Main \/ t = Worker
  BY DEF Runner
<1>5. TypeOK'
  BY <1>3, <1>4, <1>1, <1>c DEF IInv, TypeOK, Hook, Thread, HookLock, flags, counts,
     running, locks
<1>6. PlaceInv'
  BY <1>3, <1>4, ThreadAssumption DEF IInv, PlaceInv, place, HookLock, flags, counts,
     running, locks
<1>7. LockInv' /\ ReadyInv'
  BY <1>3, <1>4, <1>e, ThreadAssumption
  DEF IInv, PlaceInv, LockInv, ReadyInv, Runner, InRun, Thread, place, HookLock, flags,
     counts, running, locks
<1>8. ListInv'
  BY <1>3, <1>4, <1>b, <1>d, <1>e, ThreadAssumption DEF IInv, ListInv, Runner, InRun, place,
     HookLock, flags, counts, running, locks
<1>9. CalledInOrder'
  <2> SUFFICES ASSUME NEW s \in Runner, pc'[s] \in InRun
               PROVE  /\ Len(called'[s]) <= Len(expected'[s])
                      /\ called'[s] = SubSeq(expected'[s], 1, Len(called'[s]))
    BY DEF CalledInOrder, Runner, InRun
  <2>1. CASE s = t
    BY <2>1, <1>3, <1>4, <1>b, <1>d, <1>e DEF HookLock
  <2>2. CASE s # t
    <3>1. pc'[s] = pc[s] /\ called'[s] = called[s] /\ expected'[s] = expected[s]
      BY <2>2, <1>3, <1>4, <1>b, <1>d, <1>e DEF Runner, HookLock
    <3> QED
      BY <3>1 DEF IInv, CalledInOrder, Runner, InRun
  <2> QED
    BY <2>1, <2>2
<1>10. AllCalled'
  BY <1>3, <1>4, <1>b, <1>d, <1>e, ThreadAssumption DEF IInv, PlaceInv, AllCalled, Runner,
     place, HookLock, flags, counts, running, locks
<1> QED
  BY <1>5, <1>6, <1>7, <1>8, <1>9, <1>10 DEF IInv

\* The next handler is called.
LEMMA HandlerCallIInv ==
  ASSUME IInv, NEW t \in Runner, HandlerCall(t)
  PROVE  IInv'
<1> DEFINE place == IF NextHandler(t) \in Logging THEN "logging" ELSE "handlers"
<1>1. t \in Thread /\ place \in Place
  BY DEF Thread, Place, Runner
<1>2. Goto(t, place)
  BY DEF HandlerCall
<1> HIDE DEF place
<1>3. /\ pc' \in [Thread -> Place]
      /\ pc'[t] = place /\ \A s \in Thread : s # t => pc'[s] = pc[s]
  BY <1>1, <1>2, GotoPlace DEF IInv
<1>4. Main \in Thread /\ Worker \in Thread /\ Rts \in Thread /\ User \subseteq Thread
      /\ (t = Main \/ t = Worker)
  BY DEF Thread, Runner
<1>a. /\ expected[t] = handlers[hook[t]] /\ expected[t] \in Seq(Handler)
      /\ called[t] \in Seq(Handler) /\ Len(called[t]) < Len(expected[t])
      /\ called[t] = SubSeq(expected[t], 1, Len(called[t]))
  BY <1>1, <1>4 DEF IInv, TypeOK, ListInv, CalledInOrder, InRun, HandlerCall
<1> DEFINE n == Len(called[t])
           new == Append(called[t], expected[t][n + 1])
<1>b. new = SubSeq(expected[t], 1, n + 1)
  BY <1>a, PrefixAppend
<1>c. n \in Nat /\ n + 1 \in 1..Len(expected[t]) /\ expected[t][n + 1] \in Handler
  BY <1>a
<1>d. new \in Seq(Handler) /\ Len(new) = n + 1
  BY <1>a, <1>c, AppendProperties
<1>e. called' = [called EXCEPT ![t] = new]
  BY <1>a DEF HandlerCall, NextHandler
<1> HIDE DEF new
<1>f. called'[t] = new /\ \A s \in Runner : s # t => called'[s] = called[s]
  BY <1>1, <1>4, <1>e DEF IInv, TypeOK, Runner
<1>g. called' \in [Thread -> Seq(Handler)]
  BY <1>1, <1>d, <1>e DEF IInv, TypeOK
<1>h. Len(new) <= Len(expected[t]) /\ new = SubSeq(expected[t], 1, Len(new))
  BY <1>a, <1>b, <1>c, <1>d
<1>5. TypeOK'
  BY <1>3, <1>4, <1>g DEF IInv, TypeOK, Hook, Thread, HandlerCall, flags, counts, running,
     locks
<1>6. PlaceInv'
  BY <1>3, <1>4, ThreadAssumption DEF IInv, PlaceInv, place, HandlerCall, flags, counts,
     running, locks
<1>7. LockInv' /\ ReadyInv'
  BY <1>3, <1>4, ThreadAssumption
  DEF IInv, PlaceInv, LockInv, ReadyInv, Runner, InRun, Thread, place, HandlerCall, flags,
     counts, running, locks
<1>8. ListInv'
  BY <1>3, <1>4, <1>a, <1>f, <1>h, ThreadAssumption DEF IInv, ListInv, Runner, InRun, place,
     HandlerCall, flags, counts, running, locks
<1>9. CalledInOrder'
  <2> SUFFICES ASSUME NEW s \in Runner, pc'[s] \in InRun
               PROVE  /\ Len(called'[s]) <= Len(expected'[s])
                      /\ called'[s] = SubSeq(expected'[s], 1, Len(called'[s]))
    BY DEF CalledInOrder, Runner, InRun
  <2>1. CASE s = t
    BY <2>1, <1>3, <1>4, <1>a, <1>f, <1>h DEF HandlerCall
  <2>2. CASE s # t
    <3>1. pc'[s] = pc[s] /\ called'[s] = called[s] /\ expected'[s] = expected[s]
      BY <2>2, <1>3, <1>4, <1>a, <1>f, <1>h DEF Runner, HandlerCall
    <3> QED
      BY <3>1 DEF IInv, CalledInOrder, Runner, InRun
  <2> QED
    BY <2>1, <2>2
<1>10. AllCalled'
  BY <1>3, <1>4, <1>a, <1>f, <1>h, ThreadAssumption DEF IInv, PlaceInv, AllCalled, Runner,
     place, HandlerCall, flags, counts, running, locks
<1> QED
  BY <1>5, <1>6, <1>7, <1>8, <1>9, <1>10 DEF IInv

\* A handler writes an event: only a thread without g_mutex gets here.
LEMMA HandlerWriteIInv ==
  ASSUME IInv, NEW t \in Runner, HandlerWrite(t)
  PROVE  IInv'
<1> DEFINE place == "handlers"
<1>1. t \in Thread /\ place \in Place
  BY DEF Thread, Place, Runner
<1>2. Goto(t, place)
  BY DEF HandlerWrite
<1> HIDE DEF place
<1>3. /\ pc' \in [Thread -> Place]
      /\ pc'[t] = place /\ \A s \in Thread : s # t => pc'[s] = pc[s]
  BY <1>1, <1>2, GotoPlace DEF IInv
<1>4. Main \in Thread /\ Worker \in Thread /\ Rts \in Thread /\ User \subseteq Thread
      /\ (t = Main \/ t = Worker)
  BY DEF Thread, Runner
<1>5. TypeOK'
  BY <1>3, <1>4 DEF IInv, TypeOK, Hook, Thread, HandlerWrite, flags, counts, running, locks
<1>6. PlaceInv'
  BY <1>3, <1>4, ThreadAssumption DEF IInv, PlaceInv, place, HandlerWrite, flags, counts,
     running, locks
<1>7. LockInv' /\ ReadyInv'
  BY <1>3, <1>4, ThreadAssumption
  DEF IInv, PlaceInv, LockInv, ReadyInv, Runner, InRun, Thread, place, HandlerWrite, flags,
     counts, running, locks
<1>8. ListInv' /\ CalledInOrder' /\ AllCalled'
  BY <1>3, <1>4, ThreadAssumption
  DEF IInv, PlaceInv, LockInv, ListInv, CalledInOrder, AllCalled, Runner, InRun, place,
     HandlerWrite, flags, counts, running, locks
<1> QED
  BY <1>5, <1>6, <1>7, <1>8 DEF IInv

\* A run ends: what was called is all that was expected.
LEMMA HookUnlockIInv ==
  ASSUME IInv, NEW t \in Runner, HookUnlock(t)
  PROVE  IInv'
<1> DEFINE place == IF t = Main THEN "broadcast"
                    ELSE IF hook[t] = "pre-end" THEN "end" ELSE "mark"
<1>1. t \in Thread /\ place \in Place
  BY DEF Thread, Place, Runner
<1>2. Goto(t, place)
  BY DEF HookUnlock
<1> HIDE DEF place
<1>3. /\ pc' \in [Thread -> Place]
      /\ pc'[t] = place /\ \A s \in Thread : s # t => pc'[s] = pc[s]
  BY <1>1, <1>2, GotoPlace DEF IInv
<1>4. Main \in Thread /\ Worker \in Thread /\ Rts \in Thread /\ User \subseteq Thread
      /\ (t = Main \/ t = Worker)
  BY DEF Thread, Runner
<1>a. called[t] = expected[t]
  <2>1. /\ expected[t] = handlers[hook[t]] /\ expected[t] \in Seq(Handler)
        /\ called[t] \in Seq(Handler) /\ Len(called[t]) = Len(expected[t])
        /\ called[t] = SubSeq(expected[t], 1, Len(called[t]))
    BY <1>1, <1>4 DEF IInv, TypeOK, ListInv, CalledInOrder, InRun, HookUnlock
  <2> QED
    BY <2>1, PrefixWhole
<1>5. TypeOK'
  BY <1>3, <1>4 DEF IInv, TypeOK, Hook, Thread, HookUnlock, flags, counts, running, locks
<1>6. PlaceInv'
  BY <1>3, <1>4, ThreadAssumption DEF IInv, PlaceInv, place, HookUnlock, flags, counts,
     running, locks
<1>7. LockInv' /\ ReadyInv'
  BY <1>3, <1>4, ThreadAssumption
  DEF IInv, PlaceInv, LockInv, ReadyInv, Runner, InRun, Thread, place, HookUnlock, flags,
     counts, running, locks
<1>8. ListInv' /\ CalledInOrder' /\ AllCalled'
  BY <1>3, <1>4, <1>a, ThreadAssumption
  DEF IInv, PlaceInv, LockInv, ListInv, CalledInOrder, AllCalled, Runner, InRun, place,
     HookUnlock, flags, counts, running, locks
<1> QED
  BY <1>5, <1>6, <1>7, <1>8 DEF IInv

\* A step that changes nothing.
LEMMA StutterIInv ==
  ASSUME IInv, UNCHANGED vars
  PROVE  IInv'
BY DEF IInv, vars, locks, flags, counts, running, TypeOK, PlaceInv, LockInv, ReadyInv,
   ListInv,
       CalledInOrder, AllCalled

LEMMA NextIInv == IInv /\ [Next]_vars => IInv'
<1> SUFFICES ASSUME IInv, [Next]_vars
             PROVE  IInv'
  OBVIOUS
<1>1. ASSUME NEW u \in User, RegisterCall(u) \/ UserStep(u)
      PROVE  IInv'
  BY <1>1, RegisterCallIInv, RegisterIInv, RegisterNoMemoryIInv, RegisterInvalidIInv DEF
     UserStep
<1>2. ASSUME NEW t \in Runner, HookStep(t)
      PROVE  IInv'
  BY <1>2, HookLockIInv, HandlerCallIInv, HandlerWriteIInv, HookUnlockIInv DEF HookStep
<1>3. CASE SignalCall \/ MainStep
  BY <1>2, <1>3, SignalCallIInv, SignalLockIInv, SignalReadyIInv DEF MainStep, Runner
<1>4. CASE Accept \/ WorkerStep
  BY <1>2, <1>4, AcceptIInv, ReadInitStateIInv, WorkerEndIInv, WorkerStartIInv,
     WorkerMarkIInv
  DEF WorkerStep, Runner
<1>5. CASE WriteCall \/ writer_write
  BY <1>5, WriteCallIInv, WriteIInv
<1>6. CASE UNCHANGED vars
  BY <1>6, StutterIInv
<1> QED
  BY <1>1, <1>3, <1>4, <1>5, <1>6 DEF Next

LEMMA SpecIInv == Spec => []IInv
BY InitIInv, NextIInv, PTL DEF Spec

\* Who waits for whom: a thread that waits for g_mutex and holds the registry mutex is
\* the worker, after the signal, and then the main thread does not hold g_mutex.
LEMMA NoTwoWait ==
  ASSUME IInv, NEW t \in Thread, NEW s \in Thread, t # s, Waits(t, s), Waits(s, t)
  PROVE  FALSE
<1> DEFINE WaitsHook(a, b) == pc[a] \in {"register", "hook"} /\ hookLock = b
           WaitsG(a, b) == /\ pc[a] \in {"signal", "waitrts", "logging", "end", "start", "write", "mark"}
                           /\ gLock = b
<1>1. /\ WaitsHook(t, s) \/ WaitsG(t, s)
      /\ WaitsHook(s, t) \/ WaitsG(s, t)
  BY DEF Waits
<1>2. ASSUME NEW a \in Thread, NEW b \in Thread, a # b, WaitsHook(a, b), WaitsG(b, a)
      PROVE  FALSE
  <2>1. a = Main /\ ~ready
    BY <1>2, ThreadAssumption DEF IInv, TypeOK, ReadyInv
  <2>2. b = Worker
    BY <1>2, <2>1 DEF IInv, LockInv, PlaceInv, Thread
  <2>3. pc[Worker] = "logging"
    BY <1>2, <2>2 DEF IInv, LockInv, Runner, InRun
  <2> QED
    BY <2>1, <2>3 DEF IInv, ReadyInv
<1> QED
  BY <1>1, <1>2

\* Whom others wait for: a thread that holds a mutex waits itself only when the registry
\* mutex was lost, or as the main thread in a handler that writes an event.
LEMMA OwnerRuns ==
  ASSUME IInv, ~Lost, ~SelfLock,
         NEW t \in Thread, NEW s \in Thread, NEW r \in Thread, Waits(t, s), Waits(s, r)
  PROVE  FALSE
<1>1. hookLock = s \/ gLock = s
  BY DEF Waits
<1>2. s \in {Main, Worker}
  BY <1>1, ThreadAssumption DEF IInv, TypeOK, LockInv, Lost, Thread
<1>3. CASE s = Main
  <2>1. pc[Main] \in {"hook", "handlers", "logging", "broadcast"} /\ gLock = Main
    BY <1>1, <1>3, ThreadAssumption DEF IInv, LockInv, Runner, InRun
  <2>2. pc[Main] # "logging"
    BY <2>1 DEF SelfLock, Waits
  <2>3. pc[Main] = "hook" /\ hookLock = r
    BY <1>3, <2>1, <2>2 DEF Waits
  <2>4. r = Worker
    BY <2>3, ThreadAssumption DEF IInv, LockInv, Lost, Thread, Runner, InRun
  <2>5. pc[Worker] \in InRun /\ ~ready
    BY <2>1, <2>3, <2>4 DEF IInv, LockInv, ReadyInv, Runner
  <2> QED
    BY <2>5 DEF IInv, ReadyInv, InRun
<1>4. CASE s = Worker
  <2>1. gLock # Worker /\ hookLock = Worker
    BY <1>1, <1>4, ThreadAssumption DEF IInv, TypeOK, Thread
  <2>2. pc[Worker] \in InRun /\ ready
    BY <2>1 DEF IInv, LockInv, ReadyInv, Runner, InRun
  <2>3. gLock = r /\ r # Nobody
    BY <1>4, <2>2, ThreadAssumption DEF Waits, InRun
  <2> QED
    BY <2>2, <2>3 DEF IInv, TypeOK, ReadyInv
<1> QED
  BY <1>2, <1>3, <1>4

\* Together: no deadlock.
LEMMA IInvNoCircularWait == IInv => NoCircularWait
BY NoTwoWait, OwnerRuns DEF NoCircularWait

\* hooks.c: the state of the registry, the mutexes and the runs is well typed.
THEOREM TypeCorrect == Spec => []TypeOK
BY SpecIInv, PTL DEF IInv

\* es_hooks_handle_hook calls the handlers registered when the run began, each once
\* and in order, for any number of handlers and of registering threads.
THEOREM HandlersInOrder == Spec => []CalledInOrder
BY SpecIInv, PTL DEF IInv

\* Both runs are complete before what follows them: the ready mark, and writer_stop.
THEOREM HandlersComplete == Spec => []AllCalled
BY SpecIInv, PTL DEF IInv

\* es_worker_wait_rts_ready keeps the worker's hooks behind the main thread's.
THEOREM HooksAfterSignal == Spec => []WorkerHooksAfterSignal
<1>1. IInv => WorkerHooksAfterSignal
  BY DEF IInv, LockInv, ReadyInv, PlaceInv, WorkerHooksAfterSignal
<1> QED
  BY <1>1, SpecIInv, PTL

\* The two lock orders (g_mutex first in eventlog_socket_signal_ghc_rts_ready, the
\* registry mutex first in a handler of the worker) never block threads on each
\* other: whoever is waited for runs, but for the two cases named below.
THEOREM NoDeadlock == Spec => []NoCircularWait
BY IInvNoCircularWait, SpecIInv, PTL

\* A caller that passed a value that is no hook holds the registry mutex for ever: no
\* handler is registered or called any more.
THEOREM LostForEver == Spec => [](Lost => []Lost)
<1>1. IInv /\ Lost /\ [Next]_vars => Lost'
  <2> SUFFICES ASSUME IInv, Lost, [Next]_vars
               PROVE  Lost'
    OBVIOUS
  <2>1. hookLock # Nobody /\ \A t \in Runner : hookLock # t /\ pc[t] \notin InRun
    BY ThreadAssumption DEF Lost, IInv, LockInv, Runner, Thread
  <2>2. UNCHANGED hookLock
    <3>1. ASSUME NEW u \in User, RegisterCall(u) \/ UserStep(u)
          PROVE  UNCHANGED hookLock
      BY <2>1, <3>1 DEF UserStep, RegisterCall, Register, RegisterNoMemory,
         RegisterInvalid, locks
    <3>2. ASSUME NEW t \in Runner, HookStep(t)
          PROVE  UNCHANGED hookLock
      BY <2>1, <3>2 DEF HookStep, HookLock, HandlerCall, HandlerWrite, HookUnlock, InRun,
         locks
    <3> QED
      BY <3>1, <3>2 DEF Next, MainStep, WorkerStep, SignalCall, SignalLock, SignalReady,
         Accept, ReadInitState, WorkerEnd, WorkerStart, WorkerMark, WriteCall,
         writer_write, Runner, locks, vars
  <2> QED
    BY <2>2 DEF Lost
<1> QED
  BY <1>1, SpecIInv, PTL DEF Spec

\* A handler that writes an event while eventlog_socket_signal_ghc_rts_ready runs it blocks
\* the main thread, and g_mutex, for ever.
THEOREM SelfLockForEver == Spec => [](SelfLock => []SelfLock)
<1>1. IInv /\ SelfLock /\ [Next]_vars => SelfLock'
  <2> SUFFICES ASSUME IInv, SelfLock, [Next]_vars
               PROVE  SelfLock'
    OBVIOUS
  <2>1. gLock = Main /\ gLock # Nobody /\ pc[Main] = "logging"
    <3>1. hookLock = Main => pc[Main] \in InRun
      BY DEF IInv, LockInv, Runner
    <3>2. gLock = Main
      BY <3>1 DEF SelfLock, Waits, InRun
    <3>3. pc[Main] \in {"hook", "handlers", "logging", "broadcast"}
      BY <3>2 DEF IInv, LockInv
    <3>4. pc[Main] # "hook"
      BY <3>1, <3>3 DEF SelfLock, Waits, InRun
    <3> QED
      BY <3>2, <3>3, <3>4, ThreadAssumption DEF SelfLock, Waits, Thread
  <2>2. \A t \in Thread, place \in Place : t # Main /\ Goto(t, place) => pc'[Main] = pc[Main]
    BY DEF IInv, TypeOK, Goto, Thread
  <2>3. UNCHANGED gLock /\ pc'[Main] = pc[Main]
    <3>1. ASSUME NEW u \in User, RegisterCall(u) \/ UserStep(u)
          PROVE  UNCHANGED gLock /\ pc'[Main] = pc[Main]
      <4>1. u # Main /\ u \in Thread
        BY ThreadAssumption DEF Thread
      <4>2. Goto(u, "idle") \/ Goto(u, "register")
        BY <3>1 DEF UserStep, RegisterCall, Register, RegisterNoMemory, RegisterInvalid
      <4> QED
        BY <2>2, <3>1, <4>1, <4>2 DEF UserStep, RegisterCall, Register, RegisterNoMemory,
           RegisterInvalid, locks, Place
    <3>2. ~SignalCall /\ ~MainStep
      BY <2>1 DEF SignalCall, MainStep, SignalLock, SignalReady, HookStep, HookLock,
         HandlerCall, HandlerWrite, HookUnlock
    <3>3. ASSUME Accept \/ WorkerStep
          PROVE  UNCHANGED gLock /\ pc'[Main] = pc[Main]
      <4>1. Worker # Main /\ Worker \in Thread
        BY ThreadAssumption DEF Thread
      <4>2. UNCHANGED gLock
        BY <3>3 DEF Accept, WorkerStep, ReadInitState, WorkerEnd, WorkerStart, WorkerMark,
           HookStep, HookLock, HandlerCall, HandlerWrite, HookUnlock, locks
      <4>3. \E place \in Place : Goto(Worker, place)
        BY <3>3 DEF Accept, WorkerStep, ReadInitState, WorkerEnd, WorkerStart, WorkerMark,
           HookStep, HookLock, HandlerCall, HandlerWrite, HookUnlock, Place
      <4> QED
        BY <2>2, <4>1, <4>2, <4>3
    <3>4. ASSUME WriteCall \/ writer_write
          PROVE  UNCHANGED gLock /\ pc'[Main] = pc[Main]
      <4>1. Rts # Main /\ Rts \in Thread
        BY ThreadAssumption DEF Thread
      <4> QED
        BY <2>2, <3>4, <4>1 DEF WriteCall, writer_write, locks, Place
    <3> QED
      BY <3>1, <3>2, <3>3, <3>4 DEF Next, vars, locks
  <2> QED
    BY <2>1, <2>3 DEF SelfLock, Waits
<1> QED
  BY <1>1, SpecIInv, PTL DEF Spec
=============================================================================
