------------------------ MODULE EventlogSocketProofs ------------------------
(***************************************************************************)
(* The safety properties of EventlogSocket, proved for any number of       *)
(* connections and any bounds.  They are parts of one inductive invariant, *)
(* IInv: the properties themselves, where the threads can be (ControlInv), *)
(* which clients were never sent anything (FreshInv), the byte the         *)
(* connected client has to get next (StreamInv), where the next header is  *)
(* (HeaderInv) and the balance of attaches and hooks (HookInv).            *)
(***************************************************************************)
EXTENDS EventlogSocket, SequenceTheorems, TLAPS

\* The program points of es_worker_step_nonwrite and es_worker_step_write.
Serving == {"nonwrite", "npoll", "drain", "nhup", "write", "whup", "wlock", "writing"}

\* The main thread before it signals that the RTS is ready.
Early == {"init", "hs_init", "header", "signal"}

\* Where the worker and the main thread can be, and what they saw.
ControlInv ==
  /\ mpc \in Early <=> "RTS_READY" \notin flags
  /\ mpc = "init" => wpc = "off"
  /\ mpc \in {"init", "hs_init"} => "ATTACHED" \notin flags
  /\ mpc = "header" => "ATTACHED" \in flags
  /\ wpc \in {"off", "step", "listen", "dead"} => ("HAD_FIRST_CONNECTION" \in flags \/ clientFd = NoFd)
  /\ wpc \in {"off", "listen", "waitrts", "rtscond", "readinit", "status", "prehook", "end",
              "ending", "publish"} => clientFd = NoFd
  /\ wpc \in {"readinit", "status", "prehook", "end", "ending", "publish", "start",
              "header", "posthook", "mark"} => "RTS_READY" \in flags
  /\ wpc \in {"status", "prehook", "end", "ending", "publish", "start", "header",
              "posthook", "mark"} => (wseen.had <=> "HAD_FIRST_CONNECTION" \in flags)
  /\ wpc \in {"waitrts", "rtscond", "readinit", "status", "prehook", "end", "ending",
              "publish", "start", "header", "posthook", "mark"} \cup Serving => wfd \in Client
  /\ "HAD_FIRST_CONNECTION" \in flags => "RTS_READY" \in flags
  /\ wpc \in Serving => "HAD_FIRST_CONNECTION" \in flags
  /\ clientFd \in {wfd, NoFd} \/ wpc = "step"
  /\ wpc = "listen" => wfd = NoFd
  /\ wpc = "publish" /\ ~wseen.start => ~wseen.had /\ wseen.attached
  /\ wpc \in {"start", "header", "posthook", "prehook", "end", "ending"} => wseen.start
  /\ wseen.start /\ wpc \in {"off", "step", "listen", "waitrts", "rtscond", "readinit", "status"} \cup Serving
       => "HAD_FIRST_CONNECTION" \in flags
  /\ logger = "opening" => mpc = "header" \/ wpc = "header"
  /\ wpc \in {"publish", "start"} /\ wseen.start => logger \in {"none", "closing"}
  /\ mpc \in {"init", "hs_init", "header"} => produced = 0 /\ buf = <<>> /\ logger # "on"
  /\ wpc = "dead" => clientFd = NoFd

\* Clients that were never served.
FreshInv ==
  \A c \in Client :
    /\ peer[c] = "idle" => c \notin backlog
    /\ peer[c] = "idle" \/ c \in backlog => Empty(c) /\ c # wfd /\ c # clientFd
    /\ (/\ wpc \in {"waitrts", "rtscond", "readinit", "status", "prehook", "end", "ending", "publish"}
        /\ wfd = c)
       => Empty(c)

\* The writer was attached once for every run of the hooks, and once more between
\* the two.
HookInv ==
  /\ attaches = posts + (IF wpc \in {"header", "posthook"} THEN 1 ELSE 0)
                      + (IF mpc = "header" \/ (mpc = "signal" /\ "ATTACHED" \in flags) THEN 1 ELSE 0)
  /\ "ATTACHED" \in flags => attaches > 0
  /\ wpc \in {"status", "prehook", "end", "ending", "publish", "start"} /\ wseen.attached => attaches > 0
  /\ wpc \in {"header", "posthook", "mark"} => attaches > 0
  /\ FirstConnectionLast

\* The last run of the post-start hooks has not been answered yet as long as the worker
\* may still decide to end event logging, or has decided not to.
OrderInv ==
  /\ HookOrder
  /\ (/\ wpc \in {"off", "step", "listen", "waitrts", "rtscond", "readinit", "mark"} \cup Serving
      /\ "ATTACHED" \in flags /\ "RTS_READY" \in flags)
     => pres < posts
  /\ wpc = "status" /\ wseen.attached => pres < posts
  /\ wpc = "prehook" \/ (wpc = "publish" /\ ~wseen.start) => pres < posts

\* The number of the byte that is to be sent next.
NextByte == IF buf = <<>> THEN produced ELSE buf[1].data

\* The connected client was sent everything up to there.
StreamInv ==
  /\ \A c \in Client : rcv[c].from <= rcv[c].upto
  /\ clientFd # NoFd /\ peer[clientFd] # "gone" /\ ~Empty(clientFd)
       => rcv[clientFd].upto = NextByte

\* A client that was sent nothing yet gets a header first: none was produced, or it
\* is at the front of the buffer; and what was logged before the first connection
\* is in the buffer.
HeaderInv ==
  /\ clientFd # NoFd /\ Empty(clientFd) /\ peer[clientFd] # "gone" /\ buf = <<>> => logger # "on"
  /\ buf # <<>> /\ (clientFd = NoFd \/ Empty(clientFd)) => buf[1].data \in starts
  /\ "HAD_FIRST_CONNECTION" \notin flags /\ clientFd = NoFd /\ logger = "on" => buf # <<>>

\* While the worker serves a connection, what is queued is for that connection.
ServeInv == wpc \in Serving /\ buf # <<>> => clientFd = wfd

-----------------------------------------------------------------------------

USE NoFdAssumption, BoundAssumption

\* A queued block, and what a client was sent.
Block == [data : Nat, size : Nat]

Receipt == [from : Nat, upto : Nat, ok : BOOLEAN]

\* The first block of a buffer that is not empty.
LEMMA FirstBlock ==
  ASSUME TypeOK, buf # <<>>
  PROVE  /\ buf \in Seq(Block) /\ Len(buf) \in Nat \ {0} /\ buf[1] \in Block
         /\ Tail(buf) \in Seq(Block) /\ Len(Tail(buf)) = Len(buf) - 1
         /\ \A i \in 1..(Len(buf) - 1) : Tail(buf)[i] = buf[i + 1]
<1>1. buf \in Seq(Block) /\ Len(buf) \in Nat \ {0}
  BY DEF TypeOK, Block
<1> QED
  BY <1>1

\* Queueing a block and sending one keep the types.
LEMMA EnqueueType ==
  ASSUME TypeOK, NEW p \in Nat, NEW n \in Nat, writer_enqueue(p, n)
  PROVE  buf' \in Seq(Block) /\ wake' \in 0..PipeCap
<1>1. buf' \in Seq(Block)
  BY DEF TypeOK, writer_enqueue, Block
<1>2. wake' \in 0..PipeCap
  BY DEF TypeOK, writer_enqueue, Wake, Min2
<1> QED
  BY <1>1, <1>2

\* Sending a part that fits keeps the types.
LEMMA SendType ==
  ASSUME TypeOK, NEW c \in Client, NEW p \in Nat, NEW k \in 1..Room(c), Send(c, p, k)
  PROVE  inflight' \in [Client -> 0..SndBuf] /\ rcv' \in [Client -> Receipt]
<1>1. inflight' \in [Client -> 0..SndBuf]
  <2>1. inflight[c] \in 0..SndBuf /\ k \in Nat /\ inflight[c] + k <= SndBuf
    BY DEF TypeOK, Room
  <2> QED
    BY <2>1 DEF TypeOK, Send
<1>2. rcv' \in [Client -> Receipt]
  <2>1. rcv[c] \in Receipt /\ p + k \in Nat
    BY DEF TypeOK, Room, Receipt
  <2>2. rcv'[c] \in Receipt /\ rcv' = [rcv EXCEPT ![c] = rcv'[c]]
    BY <2>1 DEF TypeOK, Send, Receipt
  <2> QED
    BY <2>2 DEF TypeOK, Receipt
<1> QED
  BY <1>1, <1>2

\* The types of what writer_write changes; it keeps them.
StreamTypeOK ==
  /\ buf \in Seq(Block) /\ wake \in 0..PipeCap
  /\ produced \in Nat
  /\ inflight \in [Client -> 0..SndBuf]
  /\ rcv \in [Client -> Receipt]

LEMMA WriteType ==
  ASSUME TypeOK, NEW n \in Nat \ {0}, writer_write(n)
  PROVE  StreamTypeOK'
<1>0. produced \in Nat /\ produced' \in Nat
  BY DEF TypeOK, writer_write
<1>1. CASE writer_enqueue(produced, n) /\ UNCHANGED <<inflight, rcv>>
  BY <1>0, <1>1, EnqueueType DEF TypeOK, Receipt, StreamTypeOK
<1>2. CASE UNCHANGED <<buf, wake, inflight, rcv>>
  BY <1>0, <1>2 DEF TypeOK, Block, Receipt, StreamTypeOK
<1>3. ASSUME clientFd # NoFd, NEW k \in 1..Min2(n, Room(clientFd)),
             Send(clientFd, produced, k),
             IF k < n THEN writer_enqueue(produced + k, n - k) ELSE UNCHANGED <<buf, wake>>
      PROVE  /\ buf' \in Seq(Block) /\ wake' \in 0..PipeCap
             /\ inflight' \in [Client -> 0..SndBuf] /\ rcv' \in [Client -> Receipt]
  <2>1. clientFd \in Client /\ k \in Nat /\ k <= n /\ k \in 1..Room(clientFd)
    BY <1>3 DEF TypeOK, Min2, Room
  <2>2. inflight' \in [Client -> 0..SndBuf] /\ rcv' \in [Client -> Receipt]
    BY <1>0, <1>3, <2>1, SendType
  <2>3. buf' \in Seq(Block) /\ wake' \in 0..PipeCap
    <3>1. CASE k < n
      BY <1>0, <1>3, <2>1, <3>1, EnqueueType
    <3>2. CASE ~(k < n)
      BY <1>3, <3>2 DEF TypeOK, Block
    <3> QED
      BY <3>1, <3>2
  <2> QED
    BY <2>2, <2>3
<1> QED
  BY <1>0, <1>1, <1>2, <1>3 DEF writer_write, StreamTypeOK

\* Ending event logging keeps the types.
LEMMA StopType ==
  ASSUME TypeOK, writer_stop
  PROVE  /\ clientFd' \in Client \cup {NoFd} /\ buf' \in Seq(Block)
         /\ flags' \subseteq Flags /\ open' \subseteq Client
<1>1. flags' \subseteq Flags
  BY DEF TypeOK, writer_stop
<1>2. CASE clientFd = NoFd
  BY <1>1, <1>2 DEF TypeOK, writer_stop, Block
<1>3. CASE clientFd # NoFd
  BY <1>1, <1>3 DEF TypeOK, writer_stop
<1> QED
  BY <1>2, <1>3

\* A step that only moves the worker on keeps the types.
LEMMA MoveType ==
  ASSUME TypeOK, wpc' \in WorkerPc, UNCHANGED <<shared, wfd, wseen, main, rts, net, hooks>>
  PROVE  TypeOK'
<1> USE DEF shared, main, rts, net, hooks
<1>1. UNCHANGED <<clientFd, buf, flags, wake, wfd, wseen, boot, mpc, logger, produced, starts>>
  OBVIOUS
<1>2. UNCHANGED <<peer, backlog, listening, open, inflight, rcv, attaches, posts, pres>>
  OBVIOUS
<1> QED
  BY <1>1, <1>2 DEF TypeOK

\* Every step keeps the types.
LEMMA TypeStep == TypeOK /\ [Next]_vars => TypeOK'
<1> SUFFICES ASSUME TypeOK, [Next]_vars PROVE TypeOK'
  OBVIOUS
<1> USE DEF shared, worker, main, rts, net, hooks
<1>1. CASE eventlog_socket_init
  BY <1>1 DEF eventlog_socket_init, TypeOK, WorkerPc, MainPc, Flags
<1>2. CASE HsInitNoLog
  BY <1>2 DEF HsInitNoLog, TypeOK, WorkerPc, MainPc, Flags
<1>3. CASE HsInitAttach
  BY <1>3 DEF HsInitAttach, TypeOK, WorkerPc, MainPc, Flags, writer_init
<1>4. CASE HsInitHeader
  <2>1. writer_write(1) /\ starts' \subseteq Nat /\ mpc' \in MainPc
    BY <1>4 DEF HsInitHeader, TypeOK, MainPc
  <2>2. StreamTypeOK'
    BY <2>1, WriteType, 1 \in Nat \ {0}
  <2> QED
    BY <1>4, <2>1, <2>2 DEF HsInitHeader, TypeOK, StreamTypeOK, Block, Receipt
<1>5. CASE eventlog_socket_signal_ghc_rts_ready
  BY <1>5 DEF eventlog_socket_signal_ghc_rts_ready, TypeOK, WorkerPc, MainPc, Flags
<1>6. CASE eventlog_socket_wait
  BY <1>6 DEF eventlog_socket_wait, TypeOK, WorkerPc, MainPc, Flags
<1>7. CASE RtsShutdown
  BY <1>7 DEF RtsShutdown, TypeOK, WorkerPc, MainPc, Flags
<1>8. CASE RtsShutdownEnd
  <2>1. writer_write(1) /\ mpc' \in MainPc
    BY <1>8 DEF RtsShutdownEnd, MainPc
  <2>2. StreamTypeOK'
    BY <2>1, WriteType, 1 \in Nat \ {0}
  <2> QED
    BY <1>8, <2>1, <2>2 DEF RtsShutdownEnd, TypeOK, StreamTypeOK, Block, Receipt
<1>9. CASE RtsShutdownStop
  BY <1>9, StopType DEF RtsShutdownStop, TypeOK, WorkerPc, MainPc, Block
<1>10. CASE es_worker_step
  BY <1>10 DEF es_worker_step, TypeOK, WorkerPc, MainPc, Flags
<1>11. CASE ListenCall
  BY <1>11 DEF ListenCall, TypeOK, WorkerPc, MainPc, Flags
<1>12. CASE AcceptFails
  BY <1>12, MoveType DEF AcceptFails, WorkerPc
<1>13. CASE es_worker_wait_rts_ready
  BY <1>13, MoveType DEF es_worker_wait_rts_ready, WorkerPc
<1>14. CASE ReadInitState
  BY <1>14 DEF ReadInitState, TypeOK, WorkerPc, MainPc, Flags
<1>15. CASE DecideRestart
  <2>1. wpc' \in WorkerPc
    BY <1>15 DEF DecideRestart, WorkerPc
  <2>2. wseen' \in [attached : BOOLEAN, had : BOOLEAN, start : BOOLEAN]
    BY <1>15 DEF DecideRestart, TypeOK
  <2>3. UNCHANGED <<shared, wfd, main, rts, net, hooks>>
    BY <1>15 DEF DecideRestart
  <2> QED
    BY <2>1, <2>2, <2>3 DEF TypeOK
<1>16. CASE PreEndHook
  BY <1>16 DEF PreEndHook, TypeOK, WorkerPc, MainPc, Flags
<1>17. CASE EndOther
  BY <1>17 DEF EndOther, TypeOK, WorkerPc, MainPc, Flags
<1>18. CASE EndWrite
  <2>1. writer_write(1) /\ wpc' \in WorkerPc
    BY <1>18 DEF EndWrite, WorkerPc
  <2>2. StreamTypeOK'
    BY <2>1, WriteType, 1 \in Nat \ {0}
  <2> QED
    BY <1>18, <2>1, <2>2 DEF EndWrite, TypeOK, StreamTypeOK, Block, Receipt
<1>19. CASE EndStop
  <2>1. /\ clientFd' \in Client \cup {NoFd} /\ buf' \in Seq(Block)
        /\ flags' \subseteq Flags /\ open' \subseteq Client
    BY <1>19, StopType DEF EndStop
  <2>2. wpc' \in WorkerPc /\ logger' = "none"
    BY <1>19 DEF EndStop, WorkerPc
  <2>3. UNCHANGED <<wake, wfd, wseen, main, produced, starts, peer, backlog, listening,
                    inflight, rcv, hooks>>
    BY <1>19 DEF EndStop
  <2> QED
    BY <2>1, <2>2, <2>3 DEF TypeOK, Block
<1>20. CASE Publish
  BY <1>20 DEF Publish, TypeOK, WorkerPc, MainPc, Flags
<1>21. CASE StartAttach
  BY <1>21 DEF StartAttach, TypeOK, WorkerPc, MainPc, Flags, writer_init
<1>22. CASE StartHeader
  <2>1. writer_write(1) /\ wpc' \in WorkerPc /\ starts' \subseteq Nat
    BY <1>22 DEF StartHeader, WorkerPc, TypeOK
  <2>2. StreamTypeOK'
    BY <2>1, WriteType, 1 \in Nat \ {0}
  <2> QED
    BY <1>22, <2>1, <2>2 DEF StartHeader, TypeOK, StreamTypeOK, Block, Receipt
<1>23. CASE PostStartHook
  BY <1>23 DEF PostStartHook, TypeOK, WorkerPc, MainPc, Flags
<1>24. CASE MarkFirstConnection
  BY <1>24 DEF MarkFirstConnection, TypeOK, WorkerPc, MainPc, Flags
<1>25. CASE NonwritePoll
  BY <1>25, MoveType DEF NonwritePoll, WorkerPc
<1>26. CASE NonwriteWoken
  BY <1>26, MoveType DEF NonwriteWoken, WorkerPc
<1>27. CASE NonwriteHup
  BY <1>27, MoveType DEF NonwriteHup, WorkerPc
<1>28. CASE NonwriteRdhup
  BY <1>28, MoveType DEF NonwriteRdhup, WorkerPc
<1>29. CASE es_worker_wake_drain
  BY <1>29 DEF es_worker_wake_drain, TypeOK, WorkerPc, MainPc, Flags, Min2
<1>30. CASE NonwriteReset
  BY <1>30 DEF NonwriteReset, TypeOK, WorkerPc, MainPc, Flags, Reset
<1>31. CASE WritePoll
  BY <1>31, MoveType DEF WritePoll, WorkerPc
<1>32. CASE WriteReset
  BY <1>32 DEF WriteReset, TypeOK, WorkerPc, MainPc, Flags, Reset
<1>33. CASE WriteLoopEnd
  BY <1>33, MoveType DEF WriteLoopEnd, WorkerPc
<1>34. CASE WriteEpipe
  <2>1. wpc' \in WorkerPc /\ clientFd' = NoFd /\ buf' = <<>>
    BY <1>34 DEF WriteEpipe, WorkerPc, Reset
  <2>2. UNCHANGED <<flags, wake, wfd, wseen, main, rts, net, hooks>>
    BY <1>34 DEF WriteEpipe
  <2> QED
    BY <2>1, <2>2 DEF TypeOK
<1>35. CASE WriteError
  BY <1>35, MoveType DEF WriteError, WorkerPc
<1>36. CASE WriteAgain
  BY <1>36, MoveType DEF WriteAgain, WorkerPc
<1>37. ASSUME NEW n \in 1..MaxBlock, RtsWrite(n) PROVE TypeOK'
  <2>1. StreamTypeOK'
    BY <1>37, WriteType, n \in Nat \ {0} DEF RtsWrite
  <2> QED
    BY <1>37, <2>1 DEF RtsWrite, TypeOK, StreamTypeOK, Block, Receipt
<1>38. ASSUME NEW k \in 1..SndBuf, WriteItem(k) PROVE TypeOK'
  <2>1. buf # <<>> /\ clientFd \in Client /\ Send(clientFd, buf[1].data, k)
    BY <1>38 DEF WriteItem, TypeOK
  <2>2. buf[1] \in Block /\ Tail(buf) \in Seq(Block)
    BY <2>1, FirstBlock
  <2>3. buf[1].data \in Nat /\ buf[1].size \in Nat /\ Room(clientFd) \in Nat
    <3>1. inflight[clientFd] \in 0..SndBuf
      BY <2>1 DEF TypeOK
    <3> QED
      BY <2>2, <3>1, BoundAssumption DEF Block, Room
  <2>4. k \in Nat /\ k <= buf[1].size /\ k \in 1..Room(clientFd)
    BY <1>38, <2>3 DEF WriteItem, Min2
  <2>5. inflight' \in [Client -> 0..SndBuf] /\ rcv' \in [Client -> Receipt]
    BY <2>1, <2>3, <2>4, SendType
  <2>6. wpc' \in WorkerPc
    BY <1>38 DEF WriteItem, WorkerPc
  <2>7. buf' \in Seq(Block)
    <3>1. CASE k = buf[1].size
      BY <1>38, <2>2, <3>1 DEF WriteItem
    <3>2. CASE k # buf[1].size
      <4> DEFINE b == [data |-> buf[1].data + k, size |-> buf[1].size - k]
      <4>1. b \in Block
        BY <2>3, <2>4 DEF Block
      <4>2. buf' = [buf EXCEPT ![1] = b]
        BY <1>38, <3>2 DEF WriteItem
      <4>3. buf \in Seq(Block)
        BY DEF TypeOK, Block
      <4> HIDE DEF b
      <4> QED
        BY <2>1, <4>1, <4>2, <4>3, FirstBlock, ExceptSeq
    <3> QED
      BY <3>1, <3>2
  <2> QED
    BY <1>38, <2>5, <2>6, <2>7 DEF WriteItem, TypeOK, Block, Receipt
<1>39. ASSUME NEW c \in Client, Accept(c) PROVE TypeOK'
  <2>1. wpc' \in WorkerPc /\ wfd' \in Client /\ backlog' \subseteq Client /\ open' \subseteq Client
    BY <1>39 DEF Accept, TypeOK, WorkerPc
  <2>2. UNCHANGED <<shared, wseen, main, rts, peer, listening, inflight, rcv, hooks>>
    BY <1>39 DEF Accept
  <2> QED
    BY <2>1, <2>2 DEF TypeOK
<1>40. ASSUME NEW c \in Client, AcceptAborted(c) PROVE TypeOK'
  <2>1. wpc' \in WorkerPc /\ backlog' \subseteq Client
    BY <1>40 DEF AcceptAborted, TypeOK, WorkerPc
  <2>2. UNCHANGED <<shared, wfd, wseen, main, rts, peer, listening, open, inflight, rcv, hooks>>
    BY <1>40 DEF AcceptAborted
  <2> QED
    BY <2>1, <2>2 DEF TypeOK
<1>41. ASSUME NEW c \in Client, Connect(c) PROVE TypeOK'
  <2>1. peer' \in [Client -> {"idle", "up", "fin", "gone"}] /\ backlog' \subseteq Client
    BY <1>41 DEF Connect, TypeOK
  <2>2. UNCHANGED <<shared, worker, main, rts, listening, open, inflight, rcv, hooks>>
    BY <1>41 DEF Connect
  <2> QED
    BY <2>1, <2>2 DEF TypeOK
<1>42. ASSUME NEW c \in Client, Read(c) PROVE TypeOK'
  <2>1. inflight' \in [Client -> 0..SndBuf]
    BY <1>42 DEF Read, TypeOK
  <2>2. UNCHANGED <<shared, worker, main, rts, peer, backlog, listening, open, rcv, hooks>>
    BY <1>42 DEF Read
  <2> QED
    BY <2>1, <2>2 DEF TypeOK
<1>43. ASSUME NEW c \in Client, HalfClose(c) PROVE TypeOK'
  <2>1. peer' \in [Client -> {"idle", "up", "fin", "gone"}]
    BY <1>43 DEF HalfClose, TypeOK
  <2>2. UNCHANGED <<shared, worker, main, rts, backlog, listening, open, inflight, rcv, hooks>>
    BY <1>43 DEF HalfClose
  <2> QED
    BY <2>1, <2>2 DEF TypeOK
<1>44. ASSUME NEW c \in Client, HangUp(c) PROVE TypeOK'
  <2>1. peer' \in [Client -> {"idle", "up", "fin", "gone"}]
    BY <1>44 DEF HangUp, TypeOK
  <2>2. UNCHANGED <<shared, worker, main, rts, backlog, listening, open, inflight, rcv, hooks>>
    BY <1>44 DEF HangUp
  <2> QED
    BY <2>1, <2>2 DEF TypeOK
<1>45. CASE UNCHANGED vars
  BY <1>45 DEF vars, TypeOK
<1> QED
  BY <1>1, <1>2, <1>3, <1>4, <1>5, <1>6, <1>7, <1>8, <1>9, <1>10, <1>11, <1>12, <1>13, <1>14,
     <1>15, <1>16, <1>17, <1>18, <1>19, <1>20, <1>21, <1>22, <1>23, <1>24, <1>25, <1>26,
     <1>27, <1>28, <1>29, <1>30, <1>31, <1>32, <1>33, <1>34, <1>35, <1>36, <1>37, <1>38,
     <1>39, <1>40, <1>41, <1>42, <1>43, <1>44, <1>45
  DEF Next, MainStep, Shutdown, WorkerStep, ClientStep

\* Every step keeps the threads in step with the flags.
LEMMA ControlStep == TypeOK /\ ControlInv /\ [Next]_vars => ControlInv'
<1> SUFFICES ASSUME TypeOK, ControlInv, [Next]_vars PROVE ControlInv'
  OBVIOUS
<1> USE DEF shared, worker, main, rts, net, hooks, TypeOK, ControlInv, Early, Serving
<1>1. CASE eventlog_socket_init
  BY <1>1 DEF eventlog_socket_init
<1>2. CASE HsInitNoLog
  BY <1>2 DEF HsInitNoLog
<1>3. CASE HsInitAttach
  BY <1>3 DEF HsInitAttach, writer_init
<1>4. CASE HsInitHeader
  BY <1>4 DEF HsInitHeader
<1>5. CASE eventlog_socket_signal_ghc_rts_ready
  BY <1>5 DEF eventlog_socket_signal_ghc_rts_ready
<1>6. CASE eventlog_socket_wait
  BY <1>6 DEF eventlog_socket_wait
<1>7. CASE RtsShutdown
  BY <1>7 DEF RtsShutdown
<1>8. CASE RtsShutdownEnd
  BY <1>8 DEF RtsShutdownEnd
<1>9. CASE RtsShutdownStop
  BY <1>9 DEF RtsShutdownStop, writer_stop
<1>10. CASE es_worker_step
  BY <1>10 DEF es_worker_step
<1>11. CASE ListenCall
  BY <1>11 DEF ListenCall
<1>12. CASE AcceptFails
  BY <1>12 DEF AcceptFails
<1>13. CASE es_worker_wait_rts_ready
  BY <1>13 DEF es_worker_wait_rts_ready
<1>14. CASE ReadInitState
  BY <1>14 DEF ReadInitState
<1>15. CASE DecideRestart
  BY <1>15 DEF DecideRestart, ShouldStop
<1>16. CASE PreEndHook
  BY <1>16 DEF PreEndHook
<1>17. CASE EndOther
  BY <1>17 DEF EndOther
<1>18. CASE EndWrite
  BY <1>18 DEF EndWrite
<1>19. CASE EndStop
  BY <1>19 DEF EndStop, writer_stop
<1>20. CASE Publish
  BY <1>20 DEF Publish
<1>21. CASE StartAttach
  BY <1>21 DEF StartAttach, writer_init
<1>22. CASE StartHeader
  BY <1>22 DEF StartHeader
<1>23. CASE PostStartHook
  BY <1>23 DEF PostStartHook
<1>24. CASE MarkFirstConnection
  BY <1>24 DEF MarkFirstConnection
<1>25. CASE NonwritePoll
  BY <1>25 DEF NonwritePoll
<1>26. CASE NonwriteWoken
  BY <1>26 DEF NonwriteWoken
<1>27. CASE NonwriteHup
  BY <1>27 DEF NonwriteHup
<1>28. CASE NonwriteRdhup
  BY <1>28 DEF NonwriteRdhup
<1>29. CASE es_worker_wake_drain
  BY <1>29 DEF es_worker_wake_drain
<1>30. CASE NonwriteReset
  BY <1>30 DEF NonwriteReset, Reset
<1>31. CASE WritePoll
  BY <1>31 DEF WritePoll
<1>32. CASE WriteReset
  BY <1>32 DEF WriteReset, Reset
<1>33. CASE WriteLoopEnd
  BY <1>33 DEF WriteLoopEnd, InLoop
<1>34. CASE WriteEpipe
  BY <1>34 DEF WriteEpipe, Reset, InLoop
<1>35. CASE WriteError
  BY <1>35 DEF WriteError, InLoop
<1>36. CASE WriteAgain
  BY <1>36 DEF WriteAgain, InLoop
<1>37. ASSUME NEW n \in 1..MaxBlock, RtsWrite(n) PROVE ControlInv'
  BY <1>37 DEF RtsWrite
<1>38. ASSUME NEW k \in 1..SndBuf, WriteItem(k) PROVE ControlInv'
  BY <1>38 DEF WriteItem, InLoop
<1>39. ASSUME NEW c \in Client, Accept(c) PROVE ControlInv'
  BY <1>39 DEF Accept
<1>40. ASSUME NEW c \in Client, AcceptAborted(c) PROVE ControlInv'
  BY <1>40 DEF AcceptAborted
<1>41. ASSUME NEW c \in Client, Connect(c) PROVE ControlInv'
  BY <1>41 DEF Connect
<1>42. ASSUME NEW c \in Client, Read(c) PROVE ControlInv'
  BY <1>42 DEF Read
<1>43. ASSUME NEW c \in Client, HalfClose(c) PROVE ControlInv'
  BY <1>43 DEF HalfClose
<1>44. ASSUME NEW c \in Client, HangUp(c) PROVE ControlInv'
  BY <1>44 DEF HangUp
<1>45. CASE UNCHANGED vars
  BY <1>45 DEF vars
<1> QED
  BY <1>1, <1>2, <1>3, <1>4, <1>5, <1>6, <1>7, <1>8, <1>9, <1>10, <1>11, <1>12, <1>13, <1>14,
     <1>15, <1>16, <1>17, <1>18, <1>19, <1>20, <1>21, <1>22, <1>23, <1>24, <1>25, <1>26,
     <1>27, <1>28, <1>29, <1>30, <1>31, <1>32, <1>33, <1>34, <1>35, <1>36, <1>37, <1>38,
     <1>39, <1>40, <1>41, <1>42, <1>43, <1>44, <1>45
  DEF Next, MainStep, Shutdown, WorkerStep, ClientStep

\* Every step keeps the balance of attaches and hooks.
LEMMA HookStep == TypeOK /\ ControlInv /\ HookInv /\ [Next]_vars => HookInv'
<1> SUFFICES ASSUME TypeOK, ControlInv, HookInv, [Next]_vars PROVE HookInv'
  OBVIOUS
<1> USE DEF shared, worker, main, rts, net, hooks, TypeOK, ControlInv, Early, Serving, HookInv, FirstConnectionLast
<1>1. CASE eventlog_socket_init
  BY <1>1 DEF eventlog_socket_init
<1>2. CASE HsInitNoLog
  BY <1>2 DEF HsInitNoLog
<1>3. CASE HsInitAttach
  BY <1>3 DEF HsInitAttach, writer_init
<1>4. CASE HsInitHeader
  BY <1>4 DEF HsInitHeader
<1>5. CASE eventlog_socket_signal_ghc_rts_ready
  BY <1>5 DEF eventlog_socket_signal_ghc_rts_ready
<1>6. CASE eventlog_socket_wait
  BY <1>6 DEF eventlog_socket_wait
<1>7. CASE RtsShutdown
  BY <1>7 DEF RtsShutdown
<1>8. CASE RtsShutdownEnd
  BY <1>8 DEF RtsShutdownEnd
<1>9. CASE RtsShutdownStop
  BY <1>9 DEF RtsShutdownStop, writer_stop
<1>10. CASE es_worker_step
  BY <1>10 DEF es_worker_step
<1>11. CASE ListenCall
  BY <1>11 DEF ListenCall
<1>12. CASE AcceptFails
  BY <1>12 DEF AcceptFails
<1>13. CASE es_worker_wait_rts_ready
  BY <1>13 DEF es_worker_wait_rts_ready
<1>14. CASE ReadInitState
  BY <1>14 DEF ReadInitState
<1>15. CASE DecideRestart
  BY <1>15 DEF DecideRestart, ShouldStop
<1>16. CASE PreEndHook
  BY <1>16 DEF PreEndHook
<1>17. CASE EndOther
  BY <1>17 DEF EndOther
<1>18. CASE EndWrite
  BY <1>18 DEF EndWrite
<1>19. CASE EndStop
  BY <1>19 DEF EndStop, writer_stop
<1>20. CASE Publish
  BY <1>20 DEF Publish
<1>21. CASE StartAttach
  BY <1>21 DEF StartAttach, writer_init
<1>22. CASE StartHeader
  BY <1>22 DEF StartHeader
<1>23. CASE PostStartHook
  BY <1>23 DEF PostStartHook
<1>24. CASE MarkFirstConnection
  BY <1>24 DEF MarkFirstConnection
<1>25. CASE NonwritePoll
  BY <1>25 DEF NonwritePoll
<1>26. CASE NonwriteWoken
  BY <1>26 DEF NonwriteWoken
<1>27. CASE NonwriteHup
  BY <1>27 DEF NonwriteHup
<1>28. CASE NonwriteRdhup
  BY <1>28 DEF NonwriteRdhup
<1>29. CASE es_worker_wake_drain
  BY <1>29 DEF es_worker_wake_drain
<1>30. CASE NonwriteReset
  BY <1>30 DEF NonwriteReset, Reset
<1>31. CASE WritePoll
  BY <1>31 DEF WritePoll
<1>32. CASE WriteReset
  BY <1>32 DEF WriteReset, Reset
<1>33. CASE WriteLoopEnd
  BY <1>33 DEF WriteLoopEnd, InLoop
<1>34. CASE WriteEpipe
  BY <1>34 DEF WriteEpipe, Reset, InLoop
<1>35. CASE WriteError
  BY <1>35 DEF WriteError, InLoop
<1>36. CASE WriteAgain
  BY <1>36 DEF WriteAgain, InLoop
<1>37. ASSUME NEW n \in 1..MaxBlock, RtsWrite(n) PROVE HookInv'
  BY <1>37 DEF RtsWrite
<1>38. ASSUME NEW k \in 1..SndBuf, WriteItem(k) PROVE HookInv'
  BY <1>38 DEF WriteItem, InLoop
<1>39. ASSUME NEW c \in Client, Accept(c) PROVE HookInv'
  BY <1>39 DEF Accept
<1>40. ASSUME NEW c \in Client, AcceptAborted(c) PROVE HookInv'
  BY <1>40 DEF AcceptAborted
<1>41. ASSUME NEW c \in Client, Connect(c) PROVE HookInv'
  BY <1>41 DEF Connect
<1>42. ASSUME NEW c \in Client, Read(c) PROVE HookInv'
  BY <1>42 DEF Read
<1>43. ASSUME NEW c \in Client, HalfClose(c) PROVE HookInv'
  BY <1>43 DEF HalfClose
<1>44. ASSUME NEW c \in Client, HangUp(c) PROVE HookInv'
  BY <1>44 DEF HangUp
<1>45. CASE UNCHANGED vars
  BY <1>45 DEF vars
<1> QED
  BY <1>1, <1>2, <1>3, <1>4, <1>5, <1>6, <1>7, <1>8, <1>9, <1>10, <1>11, <1>12, <1>13, <1>14,
     <1>15, <1>16, <1>17, <1>18, <1>19, <1>20, <1>21, <1>22, <1>23, <1>24, <1>25, <1>26,
     <1>27, <1>28, <1>29, <1>30, <1>31, <1>32, <1>33, <1>34, <1>35, <1>36, <1>37, <1>38,
     <1>39, <1>40, <1>41, <1>42, <1>43, <1>44, <1>45
  DEF Next, MainStep, Shutdown, WorkerStep, ClientStep

\* Every step keeps the order of the hooks.
LEMMA OrderStep == TypeOK /\ ControlInv /\ OrderInv /\ [Next]_vars => OrderInv'
<1> SUFFICES ASSUME TypeOK, ControlInv, OrderInv, [Next]_vars PROVE OrderInv'
  OBVIOUS
<1> USE DEF shared, worker, main, rts, net, hooks, TypeOK, ControlInv, Early, Serving, OrderInv, HookOrder
<1>1. CASE eventlog_socket_init
  BY <1>1 DEF eventlog_socket_init
<1>2. CASE HsInitNoLog
  BY <1>2 DEF HsInitNoLog
<1>3. CASE HsInitAttach
  BY <1>3 DEF HsInitAttach, writer_init
<1>4. CASE HsInitHeader
  BY <1>4 DEF HsInitHeader
<1>5. CASE eventlog_socket_signal_ghc_rts_ready
  BY <1>5 DEF eventlog_socket_signal_ghc_rts_ready
<1>6. CASE eventlog_socket_wait
  BY <1>6 DEF eventlog_socket_wait
<1>7. CASE RtsShutdown
  BY <1>7 DEF RtsShutdown
<1>8. CASE RtsShutdownEnd
  BY <1>8 DEF RtsShutdownEnd
<1>9. CASE RtsShutdownStop
  BY <1>9 DEF RtsShutdownStop, writer_stop
<1>10. CASE es_worker_step
  BY <1>10 DEF es_worker_step
<1>11. CASE ListenCall
  BY <1>11 DEF ListenCall
<1>12. CASE AcceptFails
  BY <1>12 DEF AcceptFails
<1>13. CASE es_worker_wait_rts_ready
  BY <1>13 DEF es_worker_wait_rts_ready
<1>14. CASE ReadInitState
  BY <1>14 DEF ReadInitState
<1>15. CASE DecideRestart
  BY <1>15 DEF DecideRestart, ShouldStop
<1>16. CASE PreEndHook
  BY <1>16 DEF PreEndHook
<1>17. CASE EndOther
  BY <1>17 DEF EndOther
<1>18. CASE EndWrite
  BY <1>18 DEF EndWrite
<1>19. CASE EndStop
  BY <1>19 DEF EndStop, writer_stop
<1>20. CASE Publish
  BY <1>20 DEF Publish
<1>21. CASE StartAttach
  BY <1>21 DEF StartAttach, writer_init
<1>22. CASE StartHeader
  BY <1>22 DEF StartHeader
<1>23. CASE PostStartHook
  BY <1>23 DEF PostStartHook
<1>24. CASE MarkFirstConnection
  BY <1>24 DEF MarkFirstConnection
<1>25. CASE NonwritePoll
  BY <1>25 DEF NonwritePoll
<1>26. CASE NonwriteWoken
  BY <1>26 DEF NonwriteWoken
<1>27. CASE NonwriteHup
  BY <1>27 DEF NonwriteHup
<1>28. CASE NonwriteRdhup
  BY <1>28 DEF NonwriteRdhup
<1>29. CASE es_worker_wake_drain
  BY <1>29 DEF es_worker_wake_drain
<1>30. CASE NonwriteReset
  BY <1>30 DEF NonwriteReset, Reset
<1>31. CASE WritePoll
  BY <1>31 DEF WritePoll
<1>32. CASE WriteReset
  BY <1>32 DEF WriteReset, Reset
<1>33. CASE WriteLoopEnd
  BY <1>33 DEF WriteLoopEnd, InLoop
<1>34. CASE WriteEpipe
  BY <1>34 DEF WriteEpipe, Reset, InLoop
<1>35. CASE WriteError
  BY <1>35 DEF WriteError, InLoop
<1>36. CASE WriteAgain
  BY <1>36 DEF WriteAgain, InLoop
<1>37. ASSUME NEW n \in 1..MaxBlock, RtsWrite(n) PROVE OrderInv'
  BY <1>37 DEF RtsWrite
<1>38. ASSUME NEW k \in 1..SndBuf, WriteItem(k) PROVE OrderInv'
  BY <1>38 DEF WriteItem, InLoop
<1>39. ASSUME NEW c \in Client, Accept(c) PROVE OrderInv'
  BY <1>39 DEF Accept
<1>40. ASSUME NEW c \in Client, AcceptAborted(c) PROVE OrderInv'
  BY <1>40 DEF AcceptAborted
<1>41. ASSUME NEW c \in Client, Connect(c) PROVE OrderInv'
  BY <1>41 DEF Connect
<1>42. ASSUME NEW c \in Client, Read(c) PROVE OrderInv'
  BY <1>42 DEF Read
<1>43. ASSUME NEW c \in Client, HalfClose(c) PROVE OrderInv'
  BY <1>43 DEF HalfClose
<1>44. ASSUME NEW c \in Client, HangUp(c) PROVE OrderInv'
  BY <1>44 DEF HangUp
<1>45. CASE UNCHANGED vars
  BY <1>45 DEF vars
<1> QED
  BY <1>1, <1>2, <1>3, <1>4, <1>5, <1>6, <1>7, <1>8, <1>9, <1>10, <1>11, <1>12, <1>13, <1>14,
     <1>15, <1>16, <1>17, <1>18, <1>19, <1>20, <1>21, <1>22, <1>23, <1>24, <1>25, <1>26,
     <1>27, <1>28, <1>29, <1>30, <1>31, <1>32, <1>33, <1>34, <1>35, <1>36, <1>37, <1>38,
     <1>39, <1>40, <1>41, <1>42, <1>43, <1>44, <1>45
  DEF Next, MainStep, Shutdown, WorkerStep, ClientStep

\* What queueing a block does to the buffer and to the wake pipe.
LEMMA EnqueueFacts ==
  ASSUME TypeOK, NEW p \in Nat, NEW n \in Nat, writer_enqueue(p, n)
  PROVE  /\ buf' # <<>> /\ Len(buf') = Len(buf) + 1
         /\ buf'[Len(buf) + 1] = [data |-> p, size |-> n]
         /\ \A i \in 1..Len(buf) : buf'[i] = buf[i]
         /\ buf = <<>> => wake' > 0
         /\ buf # <<>> => wake' = wake
<1>1. buf \in Seq(Block) /\ buf' = Append(buf, [data |-> p, size |-> n])
  BY DEF TypeOK, writer_enqueue, Block
<1>2. buf = <<>> => wake' > 0
  BY DEF TypeOK, writer_enqueue, Wake, Min2
<1>3. buf # <<>> => wake' = wake
  BY DEF writer_enqueue
<1> QED
  BY <1>1, <1>2, <1>3

\* After writer_write the buffer is empty only if it was, and a buffer that is no
\* longer empty has a byte in the wake pipe; without a connection, once the
\* first one was had, nothing is queued on an empty buffer.
LEMMA WriteWakes ==
  ASSUME TypeOK, NEW n \in Nat \ {0}, writer_write(n)
  PROVE  /\ buf = <<>> /\ buf' # <<>> => wake' > 0
         /\ buf # <<>> => buf' # <<>> /\ wake' = wake
         /\ clientFd = NoFd /\ "HAD_FIRST_CONNECTION" \in flags /\ buf = <<>> => buf' = <<>>
         /\ clientFd = NoFd /\ "HAD_FIRST_CONNECTION" \notin flags => buf' # <<>>
<1>0. produced \in Nat
  BY DEF TypeOK
<1>1. CASE writer_enqueue(produced, n) /\ (buf # <<>> \/ clientFd # NoFd \/ "HAD_FIRST_CONNECTION" \notin flags)
  BY <1>0, <1>1, EnqueueFacts
<1>2. CASE UNCHANGED <<buf, wake>> /\ buf = <<>> /\ (clientFd # NoFd \/ "HAD_FIRST_CONNECTION" \in flags)
  BY <1>2
<1>3. ASSUME clientFd # NoFd, buf = <<>>, NEW k \in 1..Min2(n, Room(clientFd)),
             IF k < n THEN writer_enqueue(produced + k, n - k) ELSE UNCHANGED <<buf, wake>>
      PROVE  buf' # <<>> => wake' > 0
  <2>0. clientFd \in Client /\ k \in Nat
    BY <1>3 DEF TypeOK, Min2, Room
  <2>1. CASE k < n
    <3>1. produced + k \in Nat /\ n - k \in Nat
      BY <1>0, <2>0, <2>1
    <3> QED
      BY <1>3, <2>1, <3>1, EnqueueFacts
  <2>2. CASE ~(k < n)
    BY <1>3, <2>2
  <2> QED
    BY <2>1, <2>2
<1> QED
  BY <1>1, <1>2, <1>3 DEF writer_write

\* Every step keeps a sleeping worker awakeable and the queue for its connection.
LEMMA WakeStep == TypeOK /\ ControlInv /\ NoLostWakeup /\ ServeInv /\ [Next]_vars => (NoLostWakeup /\ ServeInv)'
<1> SUFFICES ASSUME TypeOK, ControlInv, NoLostWakeup, ServeInv, [Next]_vars PROVE (NoLostWakeup /\ ServeInv)'
  OBVIOUS
<1> USE DEF shared, worker, main, rts, net, hooks, TypeOK, ControlInv, Early, Serving, NoLostWakeup, ServeInv
<1>1. CASE eventlog_socket_init
  BY <1>1 DEF eventlog_socket_init
<1>2. CASE HsInitNoLog
  BY <1>2 DEF HsInitNoLog
<1>3. CASE HsInitAttach
  BY <1>3 DEF HsInitAttach, writer_init
<1>4. CASE HsInitHeader
  BY <1>4, WriteWakes, 1 \in Nat \ {0} DEF HsInitHeader
<1>5. CASE eventlog_socket_signal_ghc_rts_ready
  BY <1>5 DEF eventlog_socket_signal_ghc_rts_ready
<1>6. CASE eventlog_socket_wait
  BY <1>6 DEF eventlog_socket_wait
<1>7. CASE RtsShutdown
  BY <1>7 DEF RtsShutdown
<1>8. CASE RtsShutdownEnd
  BY <1>8, WriteWakes, 1 \in Nat \ {0} DEF RtsShutdownEnd
<1>9. CASE RtsShutdownStop
  BY <1>9 DEF RtsShutdownStop, writer_stop
<1>10. CASE es_worker_step
  BY <1>10 DEF es_worker_step
<1>11. CASE ListenCall
  BY <1>11 DEF ListenCall
<1>12. CASE AcceptFails
  BY <1>12 DEF AcceptFails
<1>13. CASE es_worker_wait_rts_ready
  BY <1>13 DEF es_worker_wait_rts_ready
<1>14. CASE ReadInitState
  BY <1>14 DEF ReadInitState
<1>15. CASE DecideRestart
  BY <1>15 DEF DecideRestart, ShouldStop
<1>16. CASE PreEndHook
  BY <1>16 DEF PreEndHook
<1>17. CASE EndOther
  BY <1>17 DEF EndOther
<1>18. CASE EndWrite
  BY <1>18, WriteWakes, 1 \in Nat \ {0} DEF EndWrite
<1>19. CASE EndStop
  BY <1>19 DEF EndStop, writer_stop
<1>20. CASE Publish
  BY <1>20 DEF Publish
<1>21. CASE StartAttach
  BY <1>21 DEF StartAttach, writer_init
<1>22. CASE StartHeader
  BY <1>22, WriteWakes, 1 \in Nat \ {0} DEF StartHeader
<1>23. CASE PostStartHook
  BY <1>23 DEF PostStartHook
<1>24. CASE MarkFirstConnection
  BY <1>24 DEF MarkFirstConnection
<1>25. CASE NonwritePoll
  BY <1>25 DEF NonwritePoll
<1>26. CASE NonwriteWoken
  BY <1>26 DEF NonwriteWoken
<1>27. CASE NonwriteHup
  BY <1>27 DEF NonwriteHup
<1>28. CASE NonwriteRdhup
  BY <1>28 DEF NonwriteRdhup
<1>29. CASE es_worker_wake_drain
  BY <1>29 DEF es_worker_wake_drain
<1>30. CASE NonwriteReset
  BY <1>30 DEF NonwriteReset, Reset
<1>31. CASE WritePoll
  BY <1>31 DEF WritePoll
<1>32. CASE WriteReset
  BY <1>32 DEF WriteReset, Reset
<1>33. CASE WriteLoopEnd
  BY <1>33 DEF WriteLoopEnd, InLoop
<1>34. CASE WriteEpipe
  BY <1>34 DEF WriteEpipe, Reset, InLoop
<1>35. CASE WriteError
  BY <1>35 DEF WriteError, InLoop
<1>36. CASE WriteAgain
  BY <1>36 DEF WriteAgain, InLoop
<1>37. ASSUME NEW n \in 1..MaxBlock, RtsWrite(n) PROVE (NoLostWakeup /\ ServeInv)'
  BY <1>37, WriteWakes, n \in Nat \ {0} DEF RtsWrite
<1>38. ASSUME NEW k \in 1..SndBuf, WriteItem(k) PROVE (NoLostWakeup /\ ServeInv)'
  BY <1>38 DEF WriteItem, InLoop
<1>39. ASSUME NEW c \in Client, Accept(c) PROVE (NoLostWakeup /\ ServeInv)'
  BY <1>39 DEF Accept
<1>40. ASSUME NEW c \in Client, AcceptAborted(c) PROVE (NoLostWakeup /\ ServeInv)'
  BY <1>40 DEF AcceptAborted
<1>41. ASSUME NEW c \in Client, Connect(c) PROVE (NoLostWakeup /\ ServeInv)'
  BY <1>41 DEF Connect
<1>42. ASSUME NEW c \in Client, Read(c) PROVE (NoLostWakeup /\ ServeInv)'
  BY <1>42 DEF Read
<1>43. ASSUME NEW c \in Client, HalfClose(c) PROVE (NoLostWakeup /\ ServeInv)'
  BY <1>43 DEF HalfClose
<1>44. ASSUME NEW c \in Client, HangUp(c) PROVE (NoLostWakeup /\ ServeInv)'
  BY <1>44 DEF HangUp
<1>45. CASE UNCHANGED vars
  BY <1>45 DEF vars
<1> QED
  BY <1>1, <1>2, <1>3, <1>4, <1>5, <1>6, <1>7, <1>8, <1>9, <1>10, <1>11, <1>12, <1>13, <1>14,
     <1>15, <1>16, <1>17, <1>18, <1>19, <1>20, <1>21, <1>22, <1>23, <1>24, <1>25, <1>26,
     <1>27, <1>28, <1>29, <1>30, <1>31, <1>32, <1>33, <1>34, <1>35, <1>36, <1>37, <1>38,
     <1>39, <1>40, <1>41, <1>42, <1>43, <1>44, <1>45
  DEF Next, MainStep, Shutdown, WorkerStep, ClientStep

\* A write by the worker's loop: some bytes of the first block, at its front.
LEMMA ItemFacts ==
  ASSUME TypeOK, NEW k \in 1..SndBuf, WriteItem(k)
  PROVE  /\ buf # <<>> /\ clientFd \in Client /\ peer[clientFd] # "gone"
         /\ k \in Nat \ {0} /\ k <= buf[1].size
         /\ Send(clientFd, buf[1].data, k)
         /\ k = buf[1].size => buf' = Tail(buf)
         /\ k < buf[1].size =>
              /\ buf' \in Seq(Block) /\ Len(buf') = Len(buf)
              /\ buf'[1] = [data |-> buf[1].data + k, size |-> buf[1].size - k]
              /\ \A i \in 2..Len(buf) : buf'[i] = buf[i]
<1>1. buf # <<>> /\ clientFd \in Client /\ Send(clientFd, buf[1].data, k)
  BY DEF WriteItem, TypeOK
<1>2. buf[1].data \in Nat /\ buf[1].size \in Nat /\ Room(clientFd) \in Nat
  <2>1. buf[1] \in Block
    BY <1>1, FirstBlock
  <2>2. inflight[clientFd] \in 0..SndBuf
    BY <1>1 DEF TypeOK
  <2> QED
    BY <2>1, <2>2 DEF Block, Room
<1>3. k \in Nat \ {0} /\ k <= buf[1].size
  BY <1>2 DEF WriteItem, Min2
<1>4. ASSUME k < buf[1].size
      PROVE  /\ buf' \in Seq(Block) /\ Len(buf') = Len(buf)
             /\ buf'[1] = [data |-> buf[1].data + k, size |-> buf[1].size - k]
             /\ \A i \in 2..Len(buf) : buf'[i] = buf[i]
  <2> DEFINE b == [data |-> buf[1].data + k, size |-> buf[1].size - k]
  <2>1. b \in Block
    BY <1>2, <1>3 DEF Block
  <2>2. buf' = [buf EXCEPT ![1] = b]
    BY <1>2, <1>4 DEF WriteItem
  <2>3. buf \in Seq(Block) /\ 1 \in 1..Len(buf)
    BY <1>1, FirstBlock
  <2> HIDE DEF b
  <2>4. buf' \in Seq(Block) /\ Len(buf') = Len(buf)
    BY <2>1, <2>2, <2>3, ExceptSeq
  <2>5. \A i \in 1..Len(buf) : buf'[i] = IF i = 1 THEN b ELSE buf[i]
    BY <2>1, <2>2, <2>3, ExceptSeq
  <2>6. buf'[1] = b /\ \A i \in 2..Len(buf) : buf'[i] = buf[i]
    BY <2>3, <2>5
  <2> QED
    BY <2>4, <2>6 DEF b
<1> QED
  BY <1>1, <1>2, <1>3, <1>4 DEF WriteItem

\* Queueing the bytes that follow the last queued ones keeps the buffer whole.
LEMMA EnqueueContiguous ==
  ASSUME TypeOK, BufferContiguous, NEW p \in Nat, NEW n \in Nat \ {0},
         writer_enqueue(p, n), buf # <<>> => p = produced, produced' = p + n
  PROVE  BufferContiguous'
<1>1. /\ Len(buf') = Len(buf) + 1 /\ Len(buf) \in Nat
      /\ buf'[Len(buf) + 1] = [data |-> p, size |-> n]
      /\ \A i \in 1..Len(buf) : buf'[i] = buf[i]
  BY EnqueueFacts DEF TypeOK
<1>2. buf # <<>> <=> Len(buf) # 0
  BY DEF TypeOK
<1>3. buf'[Len(buf')].data + buf'[Len(buf')].size = produced'
  BY <1>1
<1>4. ASSUME NEW i \in 1..Len(buf') PROVE buf'[i].size > 0
  <2>1. CASE i = Len(buf) + 1
    BY <1>1, <2>1
  <2>2. CASE i \in 1..Len(buf)
    BY <1>1, <2>2 DEF BufferContiguous
  <2> QED
    BY <1>1, <2>1, <2>2
<1>5. ASSUME NEW i \in 1..(Len(buf') - 1) PROVE buf'[i].data + buf'[i].size = buf'[i + 1].data
  <2>1. i \in 1..Len(buf) /\ Len(buf) # 0 /\ buf'[i] = buf[i]
    BY <1>1
  <2>2. CASE i = Len(buf)
    BY <1>1, <1>2, <2>1, <2>2 DEF BufferContiguous
  <2>3. CASE i # Len(buf)
    <3>1. i \in 1..(Len(buf) - 1) /\ i + 1 \in 1..Len(buf)
      BY <1>1, <2>1, <2>3
    <3> QED
      BY <1>1, <2>1, <3>1 DEF BufferContiguous
  <2> QED
    BY <2>2, <2>3
<1> QED
  BY <1>3, <1>4, <1>5 DEF BufferContiguous

\* writer_write keeps the buffer whole.
LEMMA WriteContiguous ==
  ASSUME TypeOK, BufferContiguous, NEW n \in Nat \ {0}, writer_write(n)
  PROVE  BufferContiguous'
<1>0. produced \in Nat /\ produced' = produced + n
  BY DEF TypeOK, writer_write
<1>1. CASE writer_enqueue(produced, n)
  BY <1>0, <1>1, EnqueueContiguous
<1>2. CASE UNCHANGED buf /\ buf = <<>>
  BY <1>2 DEF BufferContiguous
<1>3. ASSUME clientFd # NoFd, buf = <<>>, NEW k \in 1..Min2(n, Room(clientFd)),
             IF k < n THEN writer_enqueue(produced + k, n - k) ELSE UNCHANGED <<buf, wake>>
      PROVE  BufferContiguous'
  <2>0. clientFd \in Client /\ k \in Nat
    BY <1>3 DEF TypeOK, Min2, Room
  <2>1. CASE k < n
    <3>1. produced + k \in Nat /\ n - k \in Nat \ {0} /\ produced' = (produced + k) + (n - k)
      BY <1>0, <2>0, <2>1
    <3> QED
      BY <1>3, <2>1, <3>1, EnqueueContiguous
  <2>2. CASE ~(k < n)
    BY <1>3, <2>2 DEF BufferContiguous
  <2> QED
    BY <2>1, <2>2
<1> QED
  BY <1>1, <1>2, <1>3 DEF writer_write

\* The kinds of steps there are for the bytes of the stream.
Keeps == UNCHANGED <<clientFd, buf, produced, rcv>>
          /\ \A c \in Client : peer[c] = "gone" => peer'[c] = "gone"

\* A step of writer_write.
Writes(n) == writer_write(n) /\ UNCHANGED <<clientFd, peer>>

\* A step that forgets the connection and what is queued for it.
Drops == clientFd' = NoFd /\ buf' = <<>> /\ UNCHANGED <<produced, rcv, peer>>

\* Every step is of one of these kinds, publishes a connection or sends a part of the
\* buffer.
LEMMA StreamSteps ==
  ASSUME TypeOK, [Next]_vars
  PROVE  Keeps \/ (\E n \in Nat \ {0} : Writes(n)) \/ Drops \/ Publish
           \/ \E k \in 1..SndBuf : WriteItem(k)
<1> USE DEF shared, worker, main, rts, net, hooks
<1>1. CASE MainStep
  BY <1>1, 1 \in Nat \ {0}
  DEF MainStep, eventlog_socket_init, HsInitNoLog, HsInitAttach, HsInitHeader, writer_init,
      eventlog_socket_signal_ghc_rts_ready, eventlog_socket_wait, Keeps, Writes
<1>2. CASE Shutdown
  BY <1>2, 1 \in Nat \ {0}
  DEF Shutdown, RtsShutdown, RtsShutdownEnd, RtsShutdownStop, writer_stop, Keeps, Writes, Drops
<1>3. ASSUME NEW n \in 1..MaxBlock, RtsWrite(n) PROVE n \in Nat \ {0} /\ Writes(n)
  BY <1>3 DEF RtsWrite, Writes
<1>4. CASE ClientStep
  BY <1>4 DEF ClientStep, Connect, Read, HalfClose, HangUp, Keeps, TypeOK
<1>5. CASE UNCHANGED vars
  BY <1>5 DEF vars, Keeps
<1>6. CASE WorkerStep
  <2>1. CASE es_worker_step \/ ListenCall \/ AcceptFails \/ \E c \in Client : Accept(c) \/ AcceptAborted(c)
    BY <2>1 DEF es_worker_step, ListenCall, AcceptFails, Accept, AcceptAborted, Keeps
  <2>2. CASE es_worker_wait_rts_ready \/ ReadInitState \/ DecideRestart \/ PreEndHook \/ EndOther
             \/ StartAttach \/ PostStartHook \/ MarkFirstConnection
    BY <2>2 DEF es_worker_wait_rts_ready, ReadInitState, DecideRestart, PreEndHook, EndOther,
                StartAttach, writer_init, PostStartHook, MarkFirstConnection, Keeps
  <2>3. CASE EndWrite \/ StartHeader
    BY <2>3, 1 \in Nat \ {0} DEF EndWrite, StartHeader, Writes
  <2>4. CASE EndStop
    BY <2>4 DEF EndStop, writer_stop, Keeps, Drops
  <2>5. CASE NonwritePoll \/ NonwriteWoken \/ NonwriteHup \/ NonwriteRdhup \/ es_worker_wake_drain
             \/ WritePoll \/ WriteLoopEnd \/ WriteError \/ WriteAgain
    BY <2>5 DEF NonwritePoll, NonwriteWoken, NonwriteHup, NonwriteRdhup, es_worker_wake_drain,
                WritePoll, WriteLoopEnd, WriteError, WriteAgain, Keeps
  <2>6. CASE NonwriteReset \/ WriteReset \/ WriteEpipe
    BY <2>6 DEF NonwriteReset, WriteReset, WriteEpipe, Reset, Drops
  <2> QED
    BY <1>6, <2>1, <2>2, <2>3, <2>4, <2>5, <2>6 DEF WorkerStep
<1> QED
  BY <1>1, <1>2, <1>3, <1>4, <1>5, <1>6 DEF Next

\* Every step keeps the buffer whole.
LEMMA BufferStep == TypeOK /\ BufferContiguous /\ [Next]_vars => BufferContiguous'
<1> SUFFICES ASSUME TypeOK, BufferContiguous, [Next]_vars PROVE BufferContiguous'
  OBVIOUS
<1>1. CASE Keeps \/ Publish
  <2>1. UNCHANGED <<buf, produced>>
    BY <1>1 DEF Keeps, Publish, rts
  <2> QED
    BY <2>1 DEF BufferContiguous
<1>2. CASE \E n \in Nat \ {0} : Writes(n)
  BY <1>2, WriteContiguous DEF Writes
<1>3. CASE Drops
  <2>1. buf' = <<>>
    BY <1>3 DEF Drops
  <2> QED
    BY <2>1 DEF BufferContiguous
<1>4. ASSUME NEW k \in 1..SndBuf, WriteItem(k) PROVE BufferContiguous'
  <2>1. buf # <<>> /\ Len(buf) \in Nat \ {0} /\ buf[1] \in Block /\ produced' = produced
    BY <1>4, ItemFacts, FirstBlock DEF WriteItem, rts
  <2>2. CASE k = buf[1].size
    <3>1. buf' = Tail(buf) /\ Len(buf') = Len(buf) - 1
      BY <1>4, <2>1, <2>2, ItemFacts, FirstBlock
    <3>2. \A i \in 1..Len(buf') : i + 1 \in 1..Len(buf) /\ buf'[i] = buf[i + 1]
      BY <2>1, <3>1, FirstBlock
    <3>3. \A i \in 1..(Len(buf') - 1) : i + 1 \in 1..(Len(buf) - 1) /\ i + 1 \in 1..Len(buf')
      BY <2>1, <3>1
    <3>4. buf' # <<>> => Len(buf') \in 1..Len(buf')
      BY <2>1, <3>1, FirstBlock
    <3> QED
      BY <2>1, <3>1, <3>2, <3>3, <3>4 DEF BufferContiguous
  <2>3. CASE k # buf[1].size
    <3>1. /\ Len(buf') = Len(buf) /\ k \in Nat \ {0}
          /\ buf'[1] = [data |-> buf[1].data + k, size |-> buf[1].size - k]
          /\ buf[1].size - k > 0
          /\ \A i \in 2..Len(buf) : buf'[i] = buf[i]
      BY <1>4, <2>1, <2>3, ItemFacts DEF Block
    <3>2. \A i \in 1..Len(buf) : /\ buf'[i].data + buf'[i].size = buf[i].data + buf[i].size
                                 /\ buf'[i].size > 0
      <4> TAKE i \in 1..Len(buf)
      <4>1. CASE i = 1
        BY <2>1, <3>1, <4>1 DEF Block
      <4>2. CASE i # 1
        BY <2>1, <3>1, <4>2 DEF BufferContiguous
      <4> QED
        BY <4>1, <4>2
    <3>3. \A i \in 1..(Len(buf) - 1) : buf'[i + 1] = buf[i + 1]
      BY <2>1, <3>1
    <3> QED
      BY <2>1, <3>1, <3>2, <3>3 DEF BufferContiguous
  <2> QED
    BY <2>2, <2>3
<1> QED
  BY <1>1, <1>2, <1>3, <1>4, StreamSteps

\* What write() does to what a client is sent.
LEMMA SendFacts ==
  ASSUME TypeOK, NEW c \in Client, NEW p \in Nat, NEW k \in Nat \ {0}, Send(c, p, k)
  PROVE  /\ rcv'[c].upto = p + k
         /\ rcv'[c].from = IF Empty(c) THEN p ELSE rcv[c].from
         /\ rcv[c].ok /\ (~Empty(c) => rcv[c].upto = p) => rcv'[c].ok
         /\ \A d \in Client : d # c => rcv'[d] = rcv[d]
<1> DEFINE r == IF rcv[c].upto = rcv[c].from THEN [from |-> p, upto |-> p + k, ok |-> rcv[c].ok]
                ELSE [from |-> rcv[c].from, upto |-> p + k, ok |-> rcv[c].ok /\ p = rcv[c].upto]
<1>1. rcv' = [rcv EXCEPT ![c] = r] /\ rcv \in [Client -> Receipt]
  BY DEF Send, TypeOK, Receipt
<1>2. rcv'[c] = r /\ \A d \in Client : d # c => rcv'[d] = rcv[d]
  BY <1>1
<1>4. CASE Empty(c)
  <2>1. r = [from |-> p, upto |-> p + k, ok |-> rcv[c].ok]
    BY <1>4 DEF Empty
  <2> QED
    BY <1>2, <1>4, <2>1
<1>5. CASE ~Empty(c)
  <2>1. r = [from |-> rcv[c].from, upto |-> p + k, ok |-> rcv[c].ok /\ p = rcv[c].upto]
    BY <1>5 DEF Empty
  <2>2. r.from = rcv[c].from /\ r.upto = p + k
    BY <2>1
  <2>3. r.ok = (rcv[c].ok /\ p = rcv[c].upto)
    BY <2>1
  <2>4. rcv[c].ok /\ rcv[c].upto = p => r.ok
    BY <2>3
  <2> HIDE DEF r
  <2> QED
    BY <1>2, <1>5, <2>2, <2>4
<1> QED
  BY <1>4, <1>5

\* What writer_write does to the buffer and to what the client is sent.
WriteEffect(n) ==
  /\ produced' = produced + n
  /\ buf # <<>> => buf' # <<>> /\ buf'[1] = buf[1] /\ rcv' = rcv
  /\ buf = <<>> =>
       \/ /\ buf' # <<>> /\ buf'[1].data = produced /\ rcv' = rcv
          /\ clientFd = NoFd => "HAD_FIRST_CONNECTION" \notin flags
          /\ clientFd # NoFd => peer[clientFd] # "gone"
       \/ /\ buf' = <<>> /\ rcv' = rcv
          /\ clientFd = NoFd => "HAD_FIRST_CONNECTION" \in flags
          /\ clientFd # NoFd => peer[clientFd] = "gone"
       \/ \E k \in Nat \ {0} :
            /\ clientFd \in Client /\ peer[clientFd] # "gone" /\ k <= n
            /\ Send(clientFd, produced, k)
            /\ k < n => buf' # <<>> /\ buf'[1].data = produced + k
            /\ k = n => buf' = <<>>

\* writer_write has these effects.
LEMMA WriteEffects ==
  ASSUME TypeOK, NEW n \in Nat \ {0}, writer_write(n)
  PROVE  WriteEffect(n)
<1>0. produced \in Nat /\ produced' = produced + n /\ Len(buf) \in Nat
  BY DEF TypeOK, writer_write
<1>1. ASSUME NEW p \in Nat, NEW m \in Nat, writer_enqueue(p, m)
      PROVE  /\ buf' # <<>>
             /\ buf # <<>> => buf'[1] = buf[1]
             /\ buf = <<>> => buf'[1].data = p
  <2>1. CASE buf = <<>>
    <3>1. Len(buf) + 1 = 1
      BY <2>1
    <3>2. buf' # <<>> /\ buf'[1] = [data |-> p, size |-> m]
      BY <1>1, <3>1, EnqueueFacts
    <3> QED
      BY <2>1, <3>2
  <2>2. CASE buf # <<>>
    <3>1. 1 \in 1..Len(buf)
      BY <2>2, FirstBlock
    <3> QED
      BY <1>1, <2>2, <3>1, EnqueueFacts
  <2> QED
    BY <2>1, <2>2
<1>2. CASE /\ \/ buf # <<>>
              \/ clientFd = NoFd /\ "HAD_FIRST_CONNECTION" \notin flags
              \/ clientFd # NoFd /\ peer[clientFd] # "gone" /\ Room(clientFd) = 0
           /\ writer_enqueue(produced, n)
           /\ UNCHANGED <<inflight, rcv>>
  BY <1>0, <1>1, <1>2 DEF WriteEffect
<1>3. CASE /\ buf = <<>>
           /\ \/ clientFd = NoFd /\ "HAD_FIRST_CONNECTION" \in flags
              \/ clientFd # NoFd /\ peer[clientFd] = "gone"
           /\ UNCHANGED <<buf, wake, inflight, rcv>>
  BY <1>0, <1>3 DEF WriteEffect
<1>4. ASSUME buf = <<>>, clientFd # NoFd, peer[clientFd] # "gone",
             NEW k \in 1..Min2(n, Room(clientFd)), Send(clientFd, produced, k),
             IF k < n THEN writer_enqueue(produced + k, n - k) ELSE UNCHANGED <<buf, wake>>
      PROVE  WriteEffect(n)
  <2>0. clientFd \in Client /\ k \in Nat \ {0} /\ k <= n
    BY <1>4 DEF TypeOK, Min2, Room
  <2>1. k < n => buf' # <<>> /\ buf'[1].data = produced + k
    <3> SUFFICES ASSUME k < n PROVE buf' # <<>> /\ buf'[1].data = produced + k
      OBVIOUS
    <3>1. produced + k \in Nat /\ n - k \in Nat
      BY <1>0, <2>0
    <3> QED
      BY <1>1, <1>4, <3>1
  <2>2. k = n => buf' = <<>>
    BY <1>4, <2>0
  <2> QED
    BY <1>0, <1>4, <2>0, <2>1, <2>2 DEF WriteEffect
<1> QED
  BY <1>2, <1>3, <1>4 DEF writer_write

\* Only the client that is connected is sent anything.
LEMMA WriteOthers ==
  ASSUME TypeOK, NEW n \in Nat \ {0}, writer_write(n)
  PROVE  \A c \in Client : c # clientFd => rcv'[c] = rcv[c]
<1>1. produced \in Nat
  BY DEF TypeOK
<1> QED
  BY <1>1, WriteEffects, SendFacts DEF WriteEffect

\* The write loop sends to the connected client only.
LEMMA ItemOthers ==
  ASSUME TypeOK, NEW k \in 1..SndBuf, WriteItem(k)
  PROVE  \A c \in Client : c # clientFd => rcv'[c] = rcv[c]
<1>1. buf[1].data \in Nat
  BY ItemFacts, FirstBlock DEF Block
<1> QED
  BY <1>1, ItemFacts, SendFacts

\* Every step leaves clients that were not connected yet unserved.
LEMMA FreshStep == TypeOK /\ ControlInv /\ FreshInv /\ [Next]_vars => FreshInv'
<1> SUFFICES ASSUME TypeOK, ControlInv, FreshInv, [Next]_vars PROVE FreshInv'
  OBVIOUS
<1> USE DEF shared, worker, main, rts, net, hooks, TypeOK, ControlInv, Early, Serving, FreshInv, Empty
<1>1. CASE eventlog_socket_init
  BY <1>1 DEF eventlog_socket_init
<1>2. CASE HsInitNoLog
  BY <1>2 DEF HsInitNoLog
<1>3. CASE HsInitAttach
  BY <1>3 DEF HsInitAttach, writer_init
<1>4. CASE HsInitHeader
  BY <1>4, WriteOthers, 1 \in Nat \ {0} DEF HsInitHeader
<1>5. CASE eventlog_socket_signal_ghc_rts_ready
  BY <1>5 DEF eventlog_socket_signal_ghc_rts_ready
<1>6. CASE eventlog_socket_wait
  BY <1>6 DEF eventlog_socket_wait
<1>7. CASE RtsShutdown
  BY <1>7 DEF RtsShutdown
<1>8. CASE RtsShutdownEnd
  BY <1>8, WriteOthers, 1 \in Nat \ {0} DEF RtsShutdownEnd
<1>9. CASE RtsShutdownStop
  BY <1>9 DEF RtsShutdownStop, writer_stop
<1>10. CASE es_worker_step
  BY <1>10 DEF es_worker_step
<1>11. CASE ListenCall
  BY <1>11 DEF ListenCall
<1>12. CASE AcceptFails
  BY <1>12 DEF AcceptFails
<1>13. CASE es_worker_wait_rts_ready
  BY <1>13 DEF es_worker_wait_rts_ready
<1>14. CASE ReadInitState
  BY <1>14 DEF ReadInitState
<1>15. CASE DecideRestart
  BY <1>15 DEF DecideRestart, ShouldStop
<1>16. CASE PreEndHook
  BY <1>16 DEF PreEndHook
<1>17. CASE EndOther
  BY <1>17 DEF EndOther
<1>18. CASE EndWrite
  BY <1>18, WriteOthers, 1 \in Nat \ {0} DEF EndWrite
<1>19. CASE EndStop
  BY <1>19 DEF EndStop, writer_stop
<1>20. CASE Publish
  BY <1>20 DEF Publish
<1>21. CASE StartAttach
  BY <1>21 DEF StartAttach, writer_init
<1>22. CASE StartHeader
  BY <1>22, WriteOthers, 1 \in Nat \ {0} DEF StartHeader
<1>23. CASE PostStartHook
  BY <1>23 DEF PostStartHook
<1>24. CASE MarkFirstConnection
  BY <1>24 DEF MarkFirstConnection
<1>25. CASE NonwritePoll
  BY <1>25 DEF NonwritePoll
<1>26. CASE NonwriteWoken
  BY <1>26 DEF NonwriteWoken
<1>27. CASE NonwriteHup
  BY <1>27 DEF NonwriteHup
<1>28. CASE NonwriteRdhup
  BY <1>28 DEF NonwriteRdhup
<1>29. CASE es_worker_wake_drain
  BY <1>29 DEF es_worker_wake_drain
<1>30. CASE NonwriteReset
  BY <1>30 DEF NonwriteReset, Reset
<1>31. CASE WritePoll
  BY <1>31 DEF WritePoll
<1>32. CASE WriteReset
  BY <1>32 DEF WriteReset, Reset
<1>33. CASE WriteLoopEnd
  BY <1>33 DEF WriteLoopEnd, InLoop
<1>34. CASE WriteEpipe
  BY <1>34 DEF WriteEpipe, Reset, InLoop
<1>35. CASE WriteError
  BY <1>35 DEF WriteError, InLoop
<1>36. CASE WriteAgain
  BY <1>36 DEF WriteAgain, InLoop
<1>37. ASSUME NEW n \in 1..MaxBlock, RtsWrite(n) PROVE FreshInv'
  BY <1>37, WriteOthers, n \in Nat \ {0} DEF RtsWrite
<1>38. ASSUME NEW k \in 1..SndBuf, WriteItem(k) PROVE FreshInv'
  BY <1>38, ItemOthers DEF WriteItem
<1>39. ASSUME NEW c \in Client, Accept(c) PROVE FreshInv'
  BY <1>39 DEF Accept, NextInLine
<1>40. ASSUME NEW c \in Client, AcceptAborted(c) PROVE FreshInv'
  BY <1>40 DEF AcceptAborted
<1>41. ASSUME NEW c \in Client, Connect(c) PROVE FreshInv'
  BY <1>41 DEF Connect
<1>42. ASSUME NEW c \in Client, Read(c) PROVE FreshInv'
  BY <1>42 DEF Read
<1>43. ASSUME NEW c \in Client, HalfClose(c) PROVE FreshInv'
  BY <1>43 DEF HalfClose
<1>44. ASSUME NEW c \in Client, HangUp(c) PROVE FreshInv'
  BY <1>44 DEF HangUp
<1>45. CASE UNCHANGED vars
  BY <1>45 DEF vars
<1> QED
  BY <1>1, <1>2, <1>3, <1>4, <1>5, <1>6, <1>7, <1>8, <1>9, <1>10, <1>11, <1>12, <1>13, <1>14,
     <1>15, <1>16, <1>17, <1>18, <1>19, <1>20, <1>21, <1>22, <1>23, <1>24, <1>25, <1>26,
     <1>27, <1>28, <1>29, <1>30, <1>31, <1>32, <1>33, <1>34, <1>35, <1>36, <1>37, <1>38,
     <1>39, <1>40, <1>41, <1>42, <1>43, <1>44, <1>45
  DEF Next, MainStep, Shutdown, WorkerStep, ClientStep

\* Every step keeps the stream of the connected client gapless.
LEMMA StreamStep ==
  TypeOK /\ ControlInv /\ FreshInv /\ BufferContiguous /\ StreamInv /\ InOrder /\ [Next]_vars
    => StreamInv' /\ InOrder'
<1> SUFFICES ASSUME TypeOK, ControlInv, FreshInv, BufferContiguous, StreamInv, InOrder, [Next]_vars
             PROVE  StreamInv' /\ InOrder'
  OBVIOUS
<1>0. produced \in Nat /\ clientFd \in Client \cup {NoFd} /\ \A c \in Client : rcv[c] \in Receipt
  BY DEF TypeOK, Receipt
<1>1. CASE Keeps
  BY <1>0, <1>1 DEF Keeps, StreamInv, InOrder, Empty, NextByte
<1>2. ASSUME NEW n \in Nat \ {0}, Writes(n) PROVE StreamInv' /\ InOrder'
  <2>1. WriteEffect(n) /\ clientFd' = clientFd /\ peer' = peer
    BY <1>2, WriteEffects DEF Writes
  <2>2. ASSUME rcv' = rcv, NextByte' = NextByte \/ clientFd = NoFd \/ peer[clientFd] = "gone"
        PROVE  StreamInv' /\ InOrder'
    BY <1>0, <2>1, <2>2 DEF StreamInv, InOrder, Empty
  <2>3. ASSUME buf = <<>>, NEW k \in Nat \ {0}, clientFd \in Client,
               peer[clientFd] # "gone", k <= n, Send(clientFd, produced, k),
               k < n => buf' # <<>> /\ buf'[1].data = produced + k,
               k = n => buf' = <<>>
        PROVE  StreamInv' /\ InOrder'
    <3>1. ~Empty(clientFd) => rcv[clientFd].upto = produced
      BY <2>3 DEF StreamInv, NextByte
    <3>2. /\ rcv'[clientFd].upto = produced + k
          /\ rcv'[clientFd].from = IF Empty(clientFd) THEN produced ELSE rcv[clientFd].from
          /\ rcv'[clientFd].ok
          /\ \A d \in Client : d # clientFd => rcv'[d] = rcv[d]
      <4>1. rcv[clientFd].ok
        BY <2>3 DEF InOrder
      <4> QED
        BY <1>0, <2>3, <3>1, <4>1, SendFacts
    <3>3. rcv'[clientFd].from <= rcv'[clientFd].upto
      BY <1>0, <2>3, <3>1, <3>2 DEF StreamInv, Receipt
    <3>4. InOrder' /\ \A c \in Client : rcv'[c].from <= rcv'[c].upto
      BY <3>2, <3>3 DEF StreamInv, InOrder
    <3>5. NextByte' = produced + k
      BY <2>1, <2>3 DEF NextByte, WriteEffect
    <3> QED
      BY <2>1, <3>2, <3>4, <3>5 DEF StreamInv
  <2> QED
    BY <2>1, <2>2, <2>3 DEF WriteEffect, NextByte
<1>3. CASE Drops
  BY <1>0, <1>3 DEF Drops, StreamInv, InOrder
<1>4. CASE Publish
  <2>1. clientFd' = wfd /\ wfd \in Client /\ Empty(wfd) /\ UNCHANGED <<buf, produced, rcv, peer>>
    BY <1>4 DEF Publish, rts, net, ControlInv, Serving, FreshInv
  <2> QED
    BY <1>0, <2>1 DEF StreamInv, InOrder, Empty
<1>5. ASSUME NEW k \in 1..SndBuf, WriteItem(k) PROVE StreamInv' /\ InOrder'
  <2>1. /\ buf # <<>> /\ clientFd \in Client /\ peer[clientFd] # "gone"
        /\ k \in Nat \ {0} /\ k <= buf[1].size /\ Send(clientFd, buf[1].data, k)
    BY <1>5, ItemFacts
  <2>2. buf[1].data \in Nat /\ buf[1].size \in Nat /\ Len(buf) \in Nat \ {0}
    BY <2>1, FirstBlock DEF Block
  <2>3. UNCHANGED <<clientFd, peer, produced>>
    BY <1>5 DEF WriteItem, rts
  <2>4. ~Empty(clientFd) => rcv[clientFd].upto = buf[1].data
    BY <2>1 DEF StreamInv, NextByte
  <2>5. /\ rcv'[clientFd].upto = buf[1].data + k
        /\ rcv'[clientFd].from = IF Empty(clientFd) THEN buf[1].data ELSE rcv[clientFd].from
        /\ rcv'[clientFd].ok
        /\ \A d \in Client : d # clientFd => rcv'[d] = rcv[d]
    <3>1. rcv[clientFd].ok
      BY <2>1 DEF InOrder
    <3> QED
      BY <2>1, <2>2, <2>4, <3>1, SendFacts
  <2>6. rcv'[clientFd].from <= rcv'[clientFd].upto
    BY <1>0, <2>1, <2>2, <2>4, <2>5 DEF StreamInv, Receipt
  <2>7. InOrder' /\ \A c \in Client : rcv'[c].from <= rcv'[c].upto
    BY <2>5, <2>6 DEF StreamInv, InOrder
  <2>8. NextByte' = buf[1].data + k
    <3>1. CASE k < buf[1].size
      <4>1. /\ buf' \in Seq(Block) /\ Len(buf') = Len(buf)
            /\ buf'[1] = [data |-> buf[1].data + k, size |-> buf[1].size - k]
        BY <1>5, <3>1, ItemFacts
      <4>2. buf' # <<>>
        BY <2>2, <4>1
      <4> QED
        BY <4>1, <4>2 DEF NextByte
    <3>2. CASE k = buf[1].size /\ Len(buf) = 1
      <4>0. buf' = Tail(buf)
        BY <1>5, <3>2, ItemFacts
      <4>1. buf' \in Seq(Block) /\ Len(buf') = 0
        BY <2>1, <3>2, <4>0, FirstBlock
      <4>2. buf' = <<>>
        BY <4>1
      <4> QED
        BY <2>1, <2>2, <2>3, <3>2, <4>2 DEF NextByte, BufferContiguous
    <3>3. CASE k = buf[1].size /\ Len(buf) # 1
      <4>0. 1 \in 1..(Len(buf) - 1)
        <5> DEFINE n == Len(buf)
        <5>1. n \in Nat /\ n # 0 /\ n # 1
          BY <2>2, <3>3
        <5> HIDE DEF n
        <5>2. 1 \in 1..(n - 1)
          BY <5>1
        <5> QED
          BY <5>2 DEF n
      <4>1. buf' = Tail(buf) /\ Len(buf') = Len(buf) - 1
        BY <1>5, <2>1, <3>3, ItemFacts, FirstBlock
      <4>2. buf' # <<>>
        <5> DEFINE n == Len(buf)
                   m == Len(buf')
        <5>1. n \in Nat /\ n # 0 /\ n # 1 /\ m = n - 1
          BY <2>2, <3>3, <4>1
        <5> HIDE DEF n, m
        <5>2. m # 0
          BY <5>1
        <5> QED
          BY <5>2 DEF m
      <4>3. buf'[1] = buf[1 + 1]
        BY <2>1, <4>0, <4>1, FirstBlock
      <4> QED
        BY <3>3, <4>0, <4>2, <4>3 DEF NextByte, BufferContiguous
    <3> QED
      BY <2>1, <2>2, <3>1, <3>2, <3>3
  <2> QED
    BY <2>3, <2>5, <2>7, <2>8 DEF StreamInv
<1> QED
  BY <1>1, <1>2, <1>3, <1>4, <1>5, StreamSteps

\* A write is the header of a start, or event logging is on and it was written.
LEMMA WriteHeader ==
  ASSUME TypeOK, StreamInv, HeaderInv, HeaderFirst, NEW n \in Nat \ {0}, writer_write(n),
         UNCHANGED <<clientFd, flags, peer>>, starts \subseteq starts',
         logger = "on" \/ produced \in starts'
  PROVE  HeaderInv' /\ HeaderFirst'
<1>0. produced \in Nat /\ clientFd \in Client \cup {NoFd} /\ \A c \in Client : rcv[c] \in Receipt
  BY DEF TypeOK, Receipt
<1>1. WriteEffect(n)
  BY WriteEffects
<1>2. CASE rcv' = rcv /\ buf # <<>>
  <2>1. buf' # <<>> /\ buf'[1] = buf[1]
    BY <1>1, <1>2 DEF WriteEffect
  <2> QED
    BY <1>2, <2>1 DEF HeaderInv, HeaderFirst, Empty
<1>3. CASE /\ rcv' = rcv /\ buf = <<>> /\ buf' # <<>> /\ buf'[1].data = produced
           /\ clientFd = NoFd => "HAD_FIRST_CONNECTION" \notin flags
           /\ clientFd # NoFd => peer[clientFd] # "gone"
  BY <1>3 DEF HeaderInv, HeaderFirst, Empty
<1>4. CASE /\ rcv' = rcv /\ buf = <<>> /\ buf' = <<>>
           /\ clientFd = NoFd => "HAD_FIRST_CONNECTION" \in flags
           /\ clientFd # NoFd => peer[clientFd] = "gone"
  BY <1>4 DEF HeaderInv, HeaderFirst, Empty
<1>5. ASSUME buf = <<>>, NEW k \in Nat \ {0}, clientFd \in Client, peer[clientFd] # "gone",
             Send(clientFd, produced, k)
      PROVE  HeaderInv' /\ HeaderFirst'
  <2>1. /\ rcv'[clientFd].upto = produced + k
        /\ rcv'[clientFd].from = IF Empty(clientFd) THEN produced ELSE rcv[clientFd].from
        /\ \A d \in Client : d # clientFd => rcv'[d] = rcv[d]
    BY <1>0, <1>5, SendFacts
  <2>2. rcv'[clientFd].from < rcv'[clientFd].upto
    BY <1>0, <1>5, <2>1 DEF StreamInv, NextByte, Receipt
  <2>3. rcv'[clientFd].from \in starts'
    BY <1>5, <2>1 DEF HeaderInv, HeaderFirst
  <2>4. HeaderFirst'
    BY <2>1, <2>3 DEF HeaderFirst, Empty
  <2>5. ~(Empty(clientFd)')
    BY <1>0, <1>5, <2>1, <2>2 DEF Empty
  <2> QED
    BY <1>5, <2>4, <2>5 DEF HeaderInv
<1> QED
  BY <1>1, <1>2, <1>3, <1>4, <1>5 DEF WriteEffect

\* Every step keeps the header in front.
LEMMA HeaderStep == TypeOK /\ ControlInv /\ FreshInv /\ StreamInv /\ HeaderInv /\ HeaderFirst /\ [Next]_vars => (HeaderInv /\ HeaderFirst)'
<1> SUFFICES ASSUME TypeOK, ControlInv, FreshInv, StreamInv, HeaderInv, HeaderFirst, [Next]_vars PROVE (HeaderInv /\ HeaderFirst)'
  OBVIOUS
<1> USE DEF shared, worker, main, rts, net, hooks
<1>1. CASE eventlog_socket_init
  BY <1>1 DEF ControlInv, Early, Serving, FreshInv, HeaderInv, HeaderFirst, Empty, TypeOK,
     eventlog_socket_init
<1>2. CASE HsInitNoLog
  BY <1>2 DEF ControlInv, Early, Serving, FreshInv, HeaderInv, HeaderFirst, Empty, TypeOK,
     HsInitNoLog
<1>3. CASE HsInitAttach
  BY <1>3 DEF ControlInv, Early, Serving, FreshInv, HeaderInv, HeaderFirst, Empty, TypeOK,
     HsInitAttach, writer_init
<1>4. CASE HsInitHeader
  BY <1>4, WriteHeader, 1 \in Nat \ {0} DEF HsInitHeader
<1>5. CASE eventlog_socket_signal_ghc_rts_ready
  BY <1>5 DEF ControlInv, Early, Serving, FreshInv, HeaderInv, HeaderFirst, Empty, TypeOK,
     eventlog_socket_signal_ghc_rts_ready
<1>6. CASE eventlog_socket_wait
  BY <1>6 DEF ControlInv, Early, Serving, FreshInv, HeaderInv, HeaderFirst, Empty, TypeOK,
     eventlog_socket_wait
<1>7. CASE RtsShutdown
  BY <1>7 DEF ControlInv, Early, Serving, FreshInv, HeaderInv, HeaderFirst, Empty, TypeOK,
     RtsShutdown
<1>8. CASE RtsShutdownEnd
  BY <1>8, WriteHeader, 1 \in Nat \ {0} DEF RtsShutdownEnd
<1>9. CASE RtsShutdownStop
  BY <1>9 DEF ControlInv, Early, Serving, FreshInv, HeaderInv, HeaderFirst, Empty, TypeOK,
     RtsShutdownStop, writer_stop
<1>10. CASE es_worker_step
  BY <1>10 DEF ControlInv, Early, Serving, FreshInv, HeaderInv, HeaderFirst, Empty, TypeOK,
     es_worker_step
<1>11. CASE ListenCall
  BY <1>11 DEF ControlInv, Early, Serving, FreshInv, HeaderInv, HeaderFirst, Empty, TypeOK,
     ListenCall
<1>12. CASE AcceptFails
  BY <1>12 DEF ControlInv, Early, Serving, FreshInv, HeaderInv, HeaderFirst, Empty, TypeOK,
     AcceptFails
<1>13. CASE es_worker_wait_rts_ready
  BY <1>13 DEF ControlInv, Early, Serving, FreshInv, HeaderInv, HeaderFirst, Empty, TypeOK,
     es_worker_wait_rts_ready
<1>14. CASE ReadInitState
  BY <1>14 DEF ControlInv, Early, Serving, FreshInv, HeaderInv, HeaderFirst, Empty, TypeOK,
     ReadInitState
<1>15. CASE DecideRestart
  BY <1>15 DEF ControlInv, Early, Serving, FreshInv, HeaderInv, HeaderFirst, Empty, TypeOK,
     DecideRestart, ShouldStop
<1>16. CASE PreEndHook
  BY <1>16 DEF ControlInv, Early, Serving, FreshInv, HeaderInv, HeaderFirst, Empty, TypeOK,
     PreEndHook
<1>17. CASE EndOther
  BY <1>17 DEF ControlInv, Early, Serving, FreshInv, HeaderInv, HeaderFirst, Empty, TypeOK, EndOther
<1>18. CASE EndWrite
  BY <1>18, WriteHeader, 1 \in Nat \ {0} DEF EndWrite
<1>19. CASE EndStop
  BY <1>19 DEF ControlInv, Early, Serving, FreshInv, HeaderInv, HeaderFirst, Empty, TypeOK,
     EndStop, writer_stop
<1>20. CASE Publish
  BY <1>20 DEF ControlInv, Early, Serving, FreshInv, HeaderInv, HeaderFirst, Empty, TypeOK, Publish
<1>21. CASE StartAttach
  BY <1>21 DEF ControlInv, Early, Serving, FreshInv, HeaderInv, HeaderFirst, Empty, TypeOK,
     StartAttach, writer_init
<1>22. CASE StartHeader
  BY <1>22, WriteHeader, 1 \in Nat \ {0} DEF StartHeader
<1>23. CASE PostStartHook
  BY <1>23 DEF ControlInv, Early, Serving, FreshInv, HeaderInv, HeaderFirst, Empty, TypeOK,
     PostStartHook
<1>24. CASE MarkFirstConnection
  BY <1>24 DEF ControlInv, Early, Serving, FreshInv, HeaderInv, HeaderFirst, Empty, TypeOK,
     MarkFirstConnection
<1>25. CASE NonwritePoll
  BY <1>25 DEF ControlInv, Early, Serving, FreshInv, HeaderInv, HeaderFirst, Empty, TypeOK,
     NonwritePoll
<1>26. CASE NonwriteWoken
  BY <1>26 DEF ControlInv, Early, Serving, FreshInv, HeaderInv, HeaderFirst, Empty, TypeOK,
     NonwriteWoken
<1>27. CASE NonwriteHup
  BY <1>27 DEF ControlInv, Early, Serving, FreshInv, HeaderInv, HeaderFirst, Empty, TypeOK,
     NonwriteHup
<1>28. CASE NonwriteRdhup
  BY <1>28 DEF ControlInv, Early, Serving, FreshInv, HeaderInv, HeaderFirst, Empty, TypeOK,
     NonwriteRdhup
<1>29. CASE es_worker_wake_drain
  BY <1>29 DEF ControlInv, Early, Serving, FreshInv, HeaderInv, HeaderFirst, Empty, TypeOK,
     es_worker_wake_drain
<1>30. CASE NonwriteReset
  BY <1>30 DEF ControlInv, Early, Serving, FreshInv, HeaderInv, HeaderFirst, Empty, TypeOK,
     NonwriteReset, Reset
<1>31. CASE WritePoll
  BY <1>31 DEF ControlInv, Early, Serving, FreshInv, HeaderInv, HeaderFirst, Empty, TypeOK,
     WritePoll
<1>32. CASE WriteReset
  BY <1>32 DEF ControlInv, Early, Serving, FreshInv, HeaderInv, HeaderFirst, Empty, TypeOK,
     WriteReset, Reset
<1>33. CASE WriteLoopEnd
  BY <1>33 DEF ControlInv, Early, Serving, FreshInv, HeaderInv, HeaderFirst, Empty, TypeOK,
     WriteLoopEnd, InLoop
<1>34. CASE WriteEpipe
  BY <1>34 DEF ControlInv, Early, Serving, FreshInv, HeaderInv, HeaderFirst, Empty, TypeOK,
     WriteEpipe, Reset, InLoop
<1>35. CASE WriteError
  BY <1>35 DEF ControlInv, Early, Serving, FreshInv, HeaderInv, HeaderFirst, Empty, TypeOK,
     WriteError, InLoop
<1>36. CASE WriteAgain
  BY <1>36 DEF ControlInv, Early, Serving, FreshInv, HeaderInv, HeaderFirst, Empty, TypeOK,
     WriteAgain, InLoop
<1>37. ASSUME NEW n \in 1..MaxBlock, RtsWrite(n) PROVE (HeaderInv /\ HeaderFirst)'
  BY <1>37, WriteHeader, n \in Nat \ {0} DEF RtsWrite
<1>38. ASSUME NEW k \in 1..SndBuf, WriteItem(k) PROVE (HeaderInv /\ HeaderFirst)'
  <2>1. /\ buf # <<>> /\ clientFd \in Client /\ peer[clientFd] # "gone"
        /\ k \in Nat \ {0} /\ Send(clientFd, buf[1].data, k)
    BY <1>38, ItemFacts
  <2>2. buf[1].data \in Nat /\ rcv[clientFd] \in Receipt
    BY <2>1, FirstBlock DEF Block, Receipt, TypeOK
  <2>3. UNCHANGED <<clientFd, peer, flags, logger, starts>>
    BY <1>38 DEF ControlInv, Early, Serving, FreshInv, HeaderInv, HeaderFirst, Empty, TypeOK,
       WriteItem
  <2>4. /\ rcv'[clientFd].upto = buf[1].data + k
        /\ rcv'[clientFd].from = IF Empty(clientFd) THEN buf[1].data ELSE rcv[clientFd].from
        /\ \A d \in Client : d # clientFd => rcv'[d] = rcv[d]
    BY <2>1, <2>2, SendFacts
  <2>5. rcv'[clientFd].from < rcv'[clientFd].upto
    BY <2>1, <2>2, <2>4 DEF StreamInv, NextByte, Receipt, Empty
  <2>6. rcv'[clientFd].from \in starts'
    BY <2>1, <2>3, <2>4 DEF HeaderInv, HeaderFirst
  <2>7. HeaderFirst'
    BY <2>3, <2>4, <2>6 DEF HeaderFirst, Empty
  <2>8. ~(Empty(clientFd)')
    BY <2>1, <2>2, <2>3, <2>4, <2>5 DEF Empty, Receipt
  <2> QED
    BY <2>1, <2>3, <2>7, <2>8 DEF HeaderInv
<1>39. ASSUME NEW c \in Client, Accept(c) PROVE (HeaderInv /\ HeaderFirst)'
  BY <1>39 DEF ControlInv, Early, Serving, FreshInv, HeaderInv, HeaderFirst, Empty, TypeOK, Accept
<1>40. ASSUME NEW c \in Client, AcceptAborted(c) PROVE (HeaderInv /\ HeaderFirst)'
  BY <1>40 DEF ControlInv, Early, Serving, FreshInv, HeaderInv, HeaderFirst, Empty, TypeOK,
     AcceptAborted
<1>41. ASSUME NEW c \in Client, Connect(c) PROVE (HeaderInv /\ HeaderFirst)'
  BY <1>41 DEF ControlInv, Early, Serving, FreshInv, HeaderInv, HeaderFirst, Empty, TypeOK, Connect
<1>42. ASSUME NEW c \in Client, Read(c) PROVE (HeaderInv /\ HeaderFirst)'
  BY <1>42 DEF ControlInv, Early, Serving, FreshInv, HeaderInv, HeaderFirst, Empty, TypeOK, Read
<1>43. ASSUME NEW c \in Client, HalfClose(c) PROVE (HeaderInv /\ HeaderFirst)'
  BY <1>43 DEF ControlInv, Early, Serving, FreshInv, HeaderInv, HeaderFirst, Empty, TypeOK,
     HalfClose
<1>44. ASSUME NEW c \in Client, HangUp(c) PROVE (HeaderInv /\ HeaderFirst)'
  BY <1>44 DEF ControlInv, Early, Serving, FreshInv, HeaderInv, HeaderFirst, Empty, TypeOK, HangUp
<1>45. CASE UNCHANGED vars
  BY <1>45 DEF ControlInv, Early, Serving, FreshInv, HeaderInv, HeaderFirst, Empty, TypeOK, vars
<1> QED
  BY <1>1, <1>2, <1>3, <1>4, <1>5, <1>6, <1>7, <1>8, <1>9, <1>10, <1>11, <1>12, <1>13, <1>14,
     <1>15, <1>16, <1>17, <1>18, <1>19, <1>20, <1>21, <1>22, <1>23, <1>24, <1>25, <1>26,
     <1>27, <1>28, <1>29, <1>30, <1>31, <1>32, <1>33, <1>34, <1>35, <1>36, <1>37, <1>38,
     <1>39, <1>40, <1>41, <1>42, <1>43, <1>44, <1>45
  DEF Next, MainStep, Shutdown, WorkerStep, ClientStep

\* writer_write keeps what was logged before the first connection.
LEMMA WriteEarly ==
  ASSUME TypeOK, StreamInv, EarlyEventsKept, NEW n \in Nat \ {0}, writer_write(n), logger = "on",
         UNCHANGED <<flags, wseen>>
  PROVE  EarlyEventsKept'
<1> SUFFICES ASSUME ~wseen.start, "HAD_FIRST_CONNECTION" \notin flags, \A c \in Client : Empty(c)'
             PROVE  (buf # <<>> /\ buf[1].data = 0)'
  BY DEF EarlyEventsKept
<1>0. produced \in Nat /\ \A c \in Client : rcv[c] \in Receipt
  BY DEF TypeOK, Receipt
<1>1. WriteEffect(n)
  BY WriteEffects
<1>2. rcv' = rcv
  <2>1. ASSUME buf = <<>>, NEW k \in Nat \ {0}, clientFd \in Client, peer[clientFd] # "gone",
               Send(clientFd, produced, k)
        PROVE  FALSE
    <3>1. /\ rcv'[clientFd].upto = produced + k
          /\ rcv'[clientFd].from = IF Empty(clientFd) THEN produced ELSE rcv[clientFd].from
      BY <1>0, <2>1, SendFacts
    <3>2. rcv'[clientFd].from < rcv'[clientFd].upto /\ clientFd \in Client
      BY <1>0, <2>1, <3>1 DEF StreamInv, NextByte, Receipt
    <3>3. rcv'[clientFd].from = rcv'[clientFd].upto
      BY <2>1 DEF Empty
    <3> QED
      BY <1>0, <2>1, <3>1, <3>2, <3>3
  <2> QED
    BY <1>1, <2>1 DEF WriteEffect
<1>3. buf # <<>> /\ buf[1].data = 0
  BY <1>2 DEF EarlyEventsKept, Empty
<1> QED
  BY <1>1, <1>3 DEF WriteEffect

\* Every step keeps what was logged before the first connection.
LEMMA EarlyStep == TypeOK /\ ControlInv /\ StreamInv /\ EarlyEventsKept /\ [Next]_vars => EarlyEventsKept'
<1> SUFFICES ASSUME TypeOK, ControlInv, StreamInv, EarlyEventsKept, [Next]_vars PROVE EarlyEventsKept'
  OBVIOUS
<1> USE DEF shared, worker, main, rts, net, hooks
<1>1. CASE eventlog_socket_init
  BY <1>1 DEF ControlInv, Early, Serving, EarlyEventsKept, Empty, eventlog_socket_init
<1>2. CASE HsInitNoLog
  BY <1>2 DEF ControlInv, Early, Serving, EarlyEventsKept, Empty, HsInitNoLog
<1>3. CASE HsInitAttach
  BY <1>3 DEF ControlInv, Early, Serving, EarlyEventsKept, Empty, HsInitAttach, writer_init
<1>4. CASE HsInitHeader
  <2>1. produced = 0 /\ buf = <<>> /\ clientFd = NoFd /\ "HAD_FIRST_CONNECTION" \notin flags
    BY <1>4 DEF HsInitHeader, ControlInv, Early, Serving, TypeOK, WorkerPc
  <2>2. WriteEffect(1) /\ NoFd \notin Client
    BY <1>4, WriteEffects, 1 \in Nat \ {0} DEF HsInitHeader
  <2> QED
    BY <2>1, <2>2 DEF WriteEffect, EarlyEventsKept
<1>5. CASE eventlog_socket_signal_ghc_rts_ready
  BY <1>5 DEF ControlInv, Early, Serving, EarlyEventsKept, Empty,
     eventlog_socket_signal_ghc_rts_ready
<1>6. CASE eventlog_socket_wait
  BY <1>6 DEF ControlInv, Early, Serving, EarlyEventsKept, Empty, eventlog_socket_wait
<1>7. CASE RtsShutdown
  BY <1>7 DEF ControlInv, Early, Serving, EarlyEventsKept, Empty, RtsShutdown
<1>8. CASE RtsShutdownEnd
  BY <1>8 DEF RtsShutdownEnd, EarlyEventsKept
<1>9. CASE RtsShutdownStop
  BY <1>9 DEF ControlInv, Early, Serving, EarlyEventsKept, Empty, RtsShutdownStop, writer_stop
<1>10. CASE es_worker_step
  BY <1>10 DEF ControlInv, Early, Serving, EarlyEventsKept, Empty, es_worker_step
<1>11. CASE ListenCall
  BY <1>11 DEF ControlInv, Early, Serving, EarlyEventsKept, Empty, ListenCall
<1>12. CASE AcceptFails
  BY <1>12 DEF ControlInv, Early, Serving, EarlyEventsKept, Empty, AcceptFails
<1>13. CASE es_worker_wait_rts_ready
  BY <1>13 DEF ControlInv, Early, Serving, EarlyEventsKept, Empty, es_worker_wait_rts_ready
<1>14. CASE ReadInitState
  BY <1>14 DEF ControlInv, Early, Serving, EarlyEventsKept, Empty, ReadInitState
<1>15. CASE DecideRestart
  BY <1>15 DEF ControlInv, Early, Serving, EarlyEventsKept, Empty, DecideRestart, ShouldStop
<1>16. CASE PreEndHook
  BY <1>16 DEF ControlInv, Early, Serving, EarlyEventsKept, Empty, PreEndHook
<1>17. CASE EndOther
  BY <1>17 DEF ControlInv, Early, Serving, EarlyEventsKept, Empty, EndOther
<1>18. CASE EndWrite
  BY <1>18 DEF EndWrite, EarlyEventsKept
<1>19. CASE EndStop
  BY <1>19 DEF ControlInv, Early, Serving, EarlyEventsKept, Empty, EndStop, writer_stop
<1>20. CASE Publish
  BY <1>20 DEF ControlInv, Early, Serving, EarlyEventsKept, Empty, Publish
<1>21. CASE StartAttach
  BY <1>21 DEF ControlInv, Early, Serving, EarlyEventsKept, Empty, StartAttach, writer_init
<1>22. CASE StartHeader
  BY <1>22 DEF StartHeader, EarlyEventsKept, ControlInv
<1>23. CASE PostStartHook
  BY <1>23 DEF ControlInv, Early, Serving, EarlyEventsKept, Empty, PostStartHook
<1>24. CASE MarkFirstConnection
  BY <1>24 DEF ControlInv, Early, Serving, EarlyEventsKept, Empty, MarkFirstConnection
<1>25. CASE NonwritePoll
  BY <1>25 DEF ControlInv, Early, Serving, EarlyEventsKept, Empty, NonwritePoll
<1>26. CASE NonwriteWoken
  BY <1>26 DEF ControlInv, Early, Serving, EarlyEventsKept, Empty, NonwriteWoken
<1>27. CASE NonwriteHup
  BY <1>27 DEF ControlInv, Early, Serving, EarlyEventsKept, Empty, NonwriteHup
<1>28. CASE NonwriteRdhup
  BY <1>28 DEF ControlInv, Early, Serving, EarlyEventsKept, Empty, NonwriteRdhup
<1>29. CASE es_worker_wake_drain
  BY <1>29 DEF ControlInv, Early, Serving, EarlyEventsKept, Empty, es_worker_wake_drain
<1>30. CASE NonwriteReset
  BY <1>30 DEF ControlInv, Early, Serving, EarlyEventsKept, Empty, NonwriteReset, Reset
<1>31. CASE WritePoll
  BY <1>31 DEF ControlInv, Early, Serving, EarlyEventsKept, Empty, WritePoll
<1>32. CASE WriteReset
  BY <1>32 DEF ControlInv, Early, Serving, EarlyEventsKept, Empty, WriteReset, Reset
<1>33. CASE WriteLoopEnd
  BY <1>33 DEF ControlInv, Early, Serving, EarlyEventsKept, Empty, WriteLoopEnd, InLoop
<1>34. CASE WriteEpipe
  BY <1>34 DEF ControlInv, Early, Serving, EarlyEventsKept, Empty, WriteEpipe, Reset, InLoop
<1>35. CASE WriteError
  BY <1>35 DEF ControlInv, Early, Serving, EarlyEventsKept, Empty, WriteError, InLoop
<1>36. CASE WriteAgain
  BY <1>36 DEF ControlInv, Early, Serving, EarlyEventsKept, Empty, WriteAgain, InLoop
<1>37. ASSUME NEW n \in 1..MaxBlock, RtsWrite(n) PROVE EarlyEventsKept'
  BY <1>37, WriteEarly, n \in Nat \ {0} DEF RtsWrite
<1>38. ASSUME NEW k \in 1..SndBuf, WriteItem(k) PROVE EarlyEventsKept'
  BY <1>38 DEF WriteItem, InLoop, EarlyEventsKept, ControlInv, Serving
<1>39. ASSUME NEW c \in Client, Accept(c) PROVE EarlyEventsKept'
  BY <1>39 DEF ControlInv, Early, Serving, EarlyEventsKept, Empty, Accept
<1>40. ASSUME NEW c \in Client, AcceptAborted(c) PROVE EarlyEventsKept'
  BY <1>40 DEF ControlInv, Early, Serving, EarlyEventsKept, Empty, AcceptAborted
<1>41. ASSUME NEW c \in Client, Connect(c) PROVE EarlyEventsKept'
  BY <1>41 DEF ControlInv, Early, Serving, EarlyEventsKept, Empty, Connect
<1>42. ASSUME NEW c \in Client, Read(c) PROVE EarlyEventsKept'
  BY <1>42 DEF ControlInv, Early, Serving, EarlyEventsKept, Empty, Read
<1>43. ASSUME NEW c \in Client, HalfClose(c) PROVE EarlyEventsKept'
  BY <1>43 DEF ControlInv, Early, Serving, EarlyEventsKept, Empty, HalfClose
<1>44. ASSUME NEW c \in Client, HangUp(c) PROVE EarlyEventsKept'
  BY <1>44 DEF ControlInv, Early, Serving, EarlyEventsKept, Empty, HangUp
<1>45. CASE UNCHANGED vars
  BY <1>45 DEF ControlInv, Early, Serving, EarlyEventsKept, Empty, vars
<1> QED
  BY <1>1, <1>2, <1>3, <1>4, <1>5, <1>6, <1>7, <1>8, <1>9, <1>10, <1>11, <1>12, <1>13, <1>14,
     <1>15, <1>16, <1>17, <1>18, <1>19, <1>20, <1>21, <1>22, <1>23, <1>24, <1>25, <1>26,
     <1>27, <1>28, <1>29, <1>30, <1>31, <1>32, <1>33, <1>34, <1>35, <1>36, <1>37, <1>38,
     <1>39, <1>40, <1>41, <1>42, <1>43, <1>44, <1>45
  DEF Next, MainStep, Shutdown, WorkerStep, ClientStep

-----------------------------------------------------------------------------
(* Theorems *)

\* The inductive invariant: the properties and what they rest on.
IInv ==
  /\ TypeOK /\ ControlInv /\ HookInv /\ OrderInv
  /\ NoLostWakeup /\ ServeInv
  /\ BufferContiguous
  /\ FreshInv /\ StreamInv /\ InOrder
  /\ HeaderInv /\ HeaderFirst /\ EarlyEventsKept

\* The inductive invariant holds initially.
LEMMA InitIInv == Init => IInv
<1> SUFFICES ASSUME Init PROVE IInv
  OBVIOUS
<1>1. TypeOK
  <2>1. buf \in Seq([data : Nat, size : Nat]) /\ wake \in 0..PipeCap /\ flags \subseteq Flags
    BY DEF Init
  <2>2. /\ peer \in [Client -> {"idle", "up", "fin", "gone"}]
        /\ inflight \in [Client -> 0..SndBuf]
        /\ rcv \in [Client -> [from : Nat, upto : Nat, ok : BOOLEAN]]
    BY DEF Init
  <2>3. logger \in {"none", "file", "opening", "on", "closing"}
    BY DEF Init
  <2> QED
    BY <2>1, <2>2, <2>3 DEF Init, TypeOK, WorkerPc, MainPc
<1>2. ControlInv /\ HookInv /\ OrderInv /\ NoLostWakeup /\ ServeInv
  BY DEF Init, ControlInv, Early, Serving, HookInv, FirstConnectionLast, OrderInv, HookOrder,
         NoLostWakeup, ServeInv
<1>3. BufferContiguous
  BY DEF Init, BufferContiguous
<1>4. FreshInv /\ StreamInv /\ InOrder /\ HeaderFirst
  BY DEF Init, FreshInv, Empty, StreamInv, InOrder, HeaderFirst
<1>5. HeaderInv /\ EarlyEventsKept
  BY DEF Init, HeaderInv, EarlyEventsKept
<1> QED
  BY <1>1, <1>2, <1>3, <1>4, <1>5 DEF IInv

\* Every step preserves the inductive invariant.
LEMMA NextIInv == IInv /\ [Next]_vars => IInv'
BY TypeStep, ControlStep, HookStep, OrderStep, WakeStep, BufferStep, FreshStep, StreamStep,
   HeaderStep,
   EarlyStep
DEF IInv

\* Every reachable state satisfies the inductive invariant.
THEOREM SocketIInv == Spec => []IInv
BY InitIInv, NextIInv, PTL DEF Spec

\* No action leaves the types of the state, whatever the bounds are: the wake pipe
\* and the send buffers are never overfilled.
THEOREM SocketTypeOK == Spec => []TypeOK
<1>1. IInv => TypeOK
  BY DEF IInv
<1> QED
  BY <1>1, SocketIInv, PTL

\* A client is never sent a byte twice, out of order or after a gap, by the
\* writer and the worker together.
THEOREM SocketInOrder == Spec => []InOrder
<1>1. IInv => InOrder
  BY DEF IInv
<1> QED
  BY <1>1, SocketIInv, PTL

\* The first byte a client receives is the first byte of a header.
THEOREM SocketHeaderFirst == Spec => []HeaderFirst
<1>1. IInv => HeaderFirst
  BY DEF IInv
<1> QED
  BY <1>1, SocketIInv, PTL

\* A worker that sleeps with blocks queued has a byte in the wake pipe.
THEOREM SocketNoLostWakeup == Spec => []NoLostWakeup
<1>1. IInv => NoLostWakeup
  BY DEF IInv
<1> QED
  BY <1>1, SocketIInv, PTL

\* The blocks in the write buffer are a gapless run up to the last byte produced.
THEOREM SocketBufferContiguous == Spec => []BufferContiguous
<1>1. IInv => BufferContiguous
  BY DEF IInv
<1> QED
  BY <1>1, SocketIInv, PTL

\* Events from before the first connection are kept for it.
THEOREM SocketEarlyEventsKept == Spec => []EarlyEventsKept
<1>1. IInv => EarlyEventsKept
  BY DEF IInv
<1> QED
  BY <1>1, SocketIInv, PTL

\* The post-startEventLogging hooks run once for every attach of the writer.
THEOREM SocketHookPerAttach == Spec => []HookPerAttach
<1>1. IInv => HookPerAttach
  BY DEF IInv, TypeOK, ControlInv, Early, Serving, HookInv, HookPerAttach
<1> QED
  BY <1>1, SocketIInv, PTL

\* The pre-endEventLogging hooks never run without post-startEventLogging hooks before.
THEOREM SocketHookOrder == Spec => []HookOrder
<1>1. IInv => HookOrder
  BY DEF IInv, OrderInv
<1> QED
  BY <1>1, SocketIInv, PTL

\* HAD_FIRST_CONNECTION is only set once the RTS is ready and the writer attached.
THEOREM SocketFirstConnectionLast == Spec => []FirstConnectionLast
<1>1. IInv => FirstConnectionLast
  BY DEF IInv, HookInv
<1> QED
  BY <1>1, SocketIInv, PTL

\* The write loop only writes to the connection that was polled.
THEOREM SocketWriteTarget == Spec => []WriteTarget
<1>1. IInv => WriteTarget
  BY DEF IInv, ServeInv, Serving, WriteTarget, InLoop
<1> QED
  BY <1>1, SocketIInv, PTL

-----------------------------------------------------------------------------
(* What is promised of the connection *)

\* The program points between accept() and the publication of the connection.
Accepted == {"waitrts", "rtscond", "readinit", "status", "prehook", "end", "ending", "publish"}

\* The clients that wait are the same after a step that moves none of them.
LEMMA WaitingKept ==
  ASSUME wpc' \in Accepted <=> wpc \in Accepted,
         wpc \in Accepted => wfd' = wfd,
         backlog' = backlog,
         \A c \in Client : peer'[c] = "idle" <=> peer[c] = "idle"
  PROVE  Waiting' = Waiting
BY DEF Waiting, Accepted

\* A write() sends something to the connected client, and to no other.
LEMMA SendTransfers ==
  ASSUME TypeOK, StreamInv, NEW p \in Nat, NEW k \in Nat \ {0}, clientFd \in Client,
         ~Empty(clientFd) => rcv[clientFd].upto = p, Send(clientFd, p, k)
  PROVE  /\ SentTo'[clientFd] > SentTo[clientFd]
         /\ SentTo' = [SentTo EXCEPT ![clientFd] = SentTo'[clientFd]]
<1>1. /\ rcv'[clientFd].upto = p + k
      /\ rcv'[clientFd].from = IF Empty(clientFd) THEN p ELSE rcv[clientFd].from
      /\ \A d \in Client : d # clientFd => rcv'[d] = rcv[d]
  BY SendFacts
<1>2. rcv[clientFd].from \in Nat /\ rcv[clientFd].upto \in Nat
  BY DEF TypeOK
<1>3. /\ SentTo'[clientFd] = rcv'[clientFd].upto - rcv'[clientFd].from
      /\ SentTo[clientFd] = rcv[clientFd].upto - rcv[clientFd].from
      /\ \A d \in Client : d # clientFd => SentTo'[d] = SentTo[d]
  BY <1>1 DEF SentTo
<1>4. SentTo'[clientFd] > SentTo[clientFd]
  <2>1. CASE Empty(clientFd)
    BY <1>1, <1>2, <1>3, <2>1 DEF Empty
  <2>2. CASE ~Empty(clientFd)
    BY <1>1, <1>2, <1>3, <2>2
  <2> QED
    BY <2>1, <2>2
<1>5. SentTo' = [d \in Client |-> SentTo'[d]] /\ SentTo = [d \in Client |-> SentTo[d]]
  BY DEF SentTo
<1>6. SentTo' = [SentTo EXCEPT ![clientFd] = SentTo'[clientFd]]
  BY <1>3, <1>5
<1> QED
  BY <1>4, <1>6

\* writer_write sends a part to the connected client, or nothing.
LEMMA WriteTransfers ==
  ASSUME TypeOK, StreamInv, NEW n \in Nat \ {0}, Writes(n),
         Waiting' = Waiting, "RTS_READY" \in flags' <=> "RTS_READY" \in flags
  PROVE  Served!Transfer \/ UNCHANGED Served!vars
<1>1. WriteEffect(n) /\ clientFd' = clientFd
  BY WriteEffects DEF Writes
<1>2. CASE rcv' = rcv
  BY <1>1, <1>2 DEF Served!vars, SentTo
<1>3. ASSUME buf = <<>>, NEW k \in Nat \ {0}, clientFd \in Client, peer[clientFd] # "gone",
             Send(clientFd, produced, k)
      PROVE  Served!Transfer
  <2>1. produced \in Nat /\ (~Empty(clientFd) => rcv[clientFd].upto = produced)
    BY <1>3 DEF TypeOK, StreamInv, NextByte
  <2> QED
    BY <1>1, <1>3, <2>1, SendTransfers DEF Served!Transfer
<1> QED
  BY <1>1, <1>2, <1>3 DEF WriteEffect

\* So does the write loop.
LEMMA ItemTransfers ==
  ASSUME TypeOK, StreamInv, NEW k \in 1..SndBuf, WriteItem(k)
  PROVE  Served!Transfer
<1>1. /\ buf # <<>> /\ clientFd \in Client /\ peer[clientFd] # "gone"
      /\ k \in Nat \ {0} /\ Send(clientFd, buf[1].data, k)
  BY ItemFacts
<1>2. buf[1].data \in Nat /\ (~Empty(clientFd) => rcv[clientFd].upto = buf[1].data)
  BY <1>1, FirstBlock DEF Block, StreamInv, NextByte
<1>3. UNCHANGED <<clientFd, flags, wfd, backlog, peer>> /\ wpc \notin Accepted /\ wpc' \notin Accepted
  BY DEF WriteItem, InLoop, Accepted
<1>4. Waiting' = Waiting
  BY <1>3, WaitingKept
<1> QED
  BY <1>1, <1>2, <1>3, <1>4, SendTransfers DEF Served!Transfer

\* A step that sends nothing and moves no client either leaves the connection or drops it.
LEMMA QuietStep ==
  ASSUME Waiting' = Waiting, rcv' = rcv, "RTS_READY" \in flags' <=> "RTS_READY" \in flags,
         clientFd' \in {clientFd, NoFd}
  PROVE  Served!Drop \/ UNCHANGED Served!vars
BY DEF Served!Drop, Served!vars, SentTo

\* The steps of the worker.
LEMMA WorkerConnection ==
  ASSUME IInv, WorkerStep
  PROVE  Served!Next \/ UNCHANGED Served!vars
<1> USE DEF shared, worker, main, rts, net, hooks, IInv
<1>1. CASE \/ es_worker_step \/ ListenCall \/ AcceptFails \/ es_worker_wait_rts_ready
           \/ ReadInitState \/ DecideRestart \/ PreEndHook \/ EndOther \/ EndStop
  <2> USE <1>1 DEF es_worker_step, ListenCall, AcceptFails, es_worker_wait_rts_ready, ReadInitState,
                   DecideRestart, PreEndHook, EndOther, EndStop, writer_stop
  <2>1. /\ wpc' \in Accepted <=> wpc \in Accepted
        /\ wpc \in Accepted => wfd' = wfd
    BY DEF Accepted
  <2>2. UNCHANGED <<backlog, peer, rcv>> /\ clientFd' \in {clientFd, NoFd}
    OBVIOUS
  <2>3. "RTS_READY" \in flags' <=> "RTS_READY" \in flags
    OBVIOUS
  <2> QED
    BY <2>1, <2>2, <2>3, WaitingKept, QuietStep DEF Served!Next
<1>2. CASE \/ StartAttach \/ PostStartHook \/ MarkFirstConnection \/ NonwritePoll \/ NonwriteWoken
           \/ NonwriteHup \/ NonwriteRdhup \/ es_worker_wake_drain \/ NonwriteReset \/ WritePoll
           \/ WriteReset \/ WriteLoopEnd \/ WriteEpipe \/ WriteError \/ WriteAgain
  <2> USE <1>2 DEF StartAttach, PostStartHook, MarkFirstConnection, NonwritePoll, NonwriteWoken,
                   NonwriteHup, NonwriteRdhup, es_worker_wake_drain, NonwriteReset, WritePoll,
                   WriteReset, WriteLoopEnd, WriteEpipe, WriteError, WriteAgain, Reset, InLoop,
                   writer_init
  <2>1. wpc' \notin Accepted /\ wpc \notin Accepted
    BY DEF Accepted
  <2>2. UNCHANGED <<backlog, peer, rcv>> /\ clientFd' \in {clientFd, NoFd}
    OBVIOUS
  <2>3. "RTS_READY" \in flags' <=> "RTS_READY" \in flags
    OBVIOUS
  <2> QED
    BY <2>1, <2>2, <2>3, WaitingKept, QuietStep DEF Served!Next
<1>3. CASE EndWrite \/ StartHeader
  <2>1. Writes(1) /\ UNCHANGED <<flags, backlog, peer, wfd>> /\ (wpc' \in Accepted <=> wpc \in Accepted)
    BY <1>3 DEF EndWrite, StartHeader, Writes, Accepted
  <2>2. Waiting' = Waiting
    BY <2>1, WaitingKept
  <2>3. 1 \in Nat \ {0}
    OBVIOUS
  <2> QED
    BY <2>1, <2>2, <2>3, WriteTransfers DEF Served!Next
<1>4. ASSUME NEW k \in 1..SndBuf, WriteItem(k)
      PROVE  Served!Next
  BY <1>4, ItemTransfers DEF Served!Next
<1>5. ASSUME NEW c \in Client, Accept(c)
      PROVE  UNCHANGED Served!vars
  <2>1. /\ wpc = "listen" /\ wpc' = "waitrts" /\ c \in backlog /\ backlog' = backlog \ {c}
        /\ wfd' = c /\ UNCHANGED <<clientFd, flags, peer, rcv>>
    BY <1>5 DEF Accept, NextInLine
  <2>2. Waiting' = Waiting
    BY <2>1 DEF Waiting
  <2> QED
    BY <2>1, <2>2 DEF Served!vars, SentTo
<1>6. ASSUME NEW c \in Client, AcceptAborted(c)
      PROVE  Served!Next
  <2>1. /\ wpc = "listen" /\ wpc' = "step" /\ c \in backlog /\ backlog' = backlog \ {c}
        /\ peer[c] = "gone" /\ UNCHANGED <<clientFd, flags, peer, rcv>>
    BY <1>6 DEF AcceptAborted, NextInLine
  <2>2. c \in Waiting /\ Waiting' = Waiting \ {c}
    BY <2>1 DEF Waiting
  <2> QED
    BY <2>1, <2>2 DEF Served!Next, Served!Refuse, SentTo
<1>7. ASSUME Publish
      PROVE  Served!Next
  <2>1. /\ wpc = "publish" /\ wpc' \in {"start", "step", "mark"} /\ clientFd' = wfd
        /\ UNCHANGED <<wfd, flags, backlog, peer, rcv>>
    BY <1>7 DEF Publish
  <2>2. wfd \in Client /\ clientFd = NoFd /\ "RTS_READY" \in flags
    BY <2>1 DEF ControlInv
  <2>3. peer[wfd] # "idle" /\ wfd \notin backlog
    BY <2>2 DEF FreshInv
  <2>4. wfd \in Waiting /\ Waiting' = Waiting \ {wfd}
    BY <2>1, <2>2, <2>3 DEF Waiting
  <2>5. Served!Serve(wfd)
    BY <2>1, <2>2, <2>4 DEF Served!Serve, SentTo
  <2> QED
    BY <2>4, <2>5 DEF Served!Next
<1> QED
  BY <1>1, <1>2, <1>3, <1>4, <1>5, <1>6, <1>7 DEF WorkerStep

\* The steps of the main thread, the RTS and the clients.
LEMMA OtherConnection ==
  ASSUME IInv,
         MainStep \/ Shutdown \/ ClientStep \/ (\E n \in 1..MaxBlock : RtsWrite(n)) \/ UNCHANGED vars
  PROVE  Served!Next \/ UNCHANGED Served!vars
<1> USE DEF shared, worker, main, rts, net, hooks, IInv
<1>1. CASE \/ eventlog_socket_init \/ HsInitNoLog \/ HsInitAttach \/ eventlog_socket_wait
           \/ RtsShutdown \/ RtsShutdownStop \/ UNCHANGED vars
  <2> USE <1>1 DEF eventlog_socket_init, HsInitNoLog, HsInitAttach, eventlog_socket_wait,
                   RtsShutdown, RtsShutdownStop, writer_stop, writer_init, vars
  <2>1. UNCHANGED <<backlog, peer, rcv, wfd>> /\ clientFd' \in {clientFd, NoFd}
    OBVIOUS
  <2>2. wpc' \in Accepted <=> wpc \in Accepted
    BY DEF Accepted, ControlInv
  <2>3. "RTS_READY" \in flags' <=> "RTS_READY" \in flags
    OBVIOUS
  <2> QED
    BY <2>1, <2>2, <2>3, WaitingKept, QuietStep DEF Served!Next
<1>2. CASE eventlog_socket_signal_ghc_rts_ready
  <2>1. /\ UNCHANGED <<backlog, peer, rcv, wfd, clientFd>> /\ "RTS_READY" \in flags'
        /\ wpc' = IF wpc = "rtscond" THEN "waitrts" ELSE wpc
    BY <1>2 DEF eventlog_socket_signal_ghc_rts_ready
  <2>2. Waiting' = Waiting
    <3>1. wpc' \in Accepted <=> wpc \in Accepted
      BY <2>1 DEF Accepted
    <3> QED
      BY <2>1, <3>1, WaitingKept
  <2> QED
    BY <2>1, <2>2 DEF Served!Next, Served!BecomeReady, SentTo
<1>3. CASE HsInitHeader \/ RtsShutdownEnd \/ \E n \in 1..MaxBlock : RtsWrite(n)
  <2>1. PICK n \in Nat \ {0} : Writes(n) /\ UNCHANGED <<flags, backlog, peer, wfd, wpc>>
    <3>1. 1 \in Nat \ {0} /\ \A n \in 1..MaxBlock : n \in Nat \ {0}
      OBVIOUS
    <3> QED
      BY <1>3, <3>1 DEF HsInitHeader, RtsShutdownEnd, RtsWrite, Writes
  <2>2. Waiting' = Waiting
    BY <2>1, WaitingKept
  <2> QED
    BY <2>1, <2>2, WriteTransfers DEF Served!Next
<1>4. CASE ClientStep
  <2>1. PICK c \in Client : Connect(c) \/ Read(c) \/ HalfClose(c) \/ HangUp(c)
    BY <1>4 DEF ClientStep
  <2>2. UNCHANGED <<flags, clientFd, rcv, wpc, wfd>>
    BY <2>1 DEF Connect, Read, HalfClose, HangUp
  <2>3. Waiting' = Waiting
    <3>1. CASE Connect(c)
      BY <2>2, <3>1 DEF Connect, Waiting, TypeOK
    <3>2. CASE Read(c) \/ HalfClose(c) \/ HangUp(c)
      <4>1. backlog' = backlog /\ \A d \in Client : peer'[d] = "idle" <=> peer[d] = "idle"
        BY <3>2 DEF Read, HalfClose, HangUp, TypeOK
      <4> QED
        BY <2>2, <4>1, WaitingKept
    <3> QED
      BY <2>1, <3>1, <3>2
  <2> QED
    BY <2>2, <2>3 DEF Served!vars, SentTo
<1> QED
  BY <1>1, <1>2, <1>3, <1>4 DEF MainStep, Shutdown

\* The threads together implement the promise of module Connection: one connection at
\* a time is served, each once, none before the RTS is ready, and nothing is sent to
\* another one.
THEOREM SocketConnection == Spec => ImplementsConnection
<1>1. Init => Served!Init
  BY DEF Init, Served!Init, Waiting, SentTo
<1>2. IInv /\ [Next]_vars => [Served!Next]_Served!vars
  BY WorkerConnection, OtherConnection DEF Next
<1> QED
  BY <1>1, <1>2, SocketIInv, PTL DEF Spec, ImplementsConnection, Served!Spec
=============================================================================
