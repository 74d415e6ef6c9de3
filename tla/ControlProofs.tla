--------------------------- MODULE ControlProofs ---------------------------
(***************************************************************************)
(* The control thread, for any connections, descriptors and bounds: what   *)
(* can meet in the command parser.                                         *)
(***************************************************************************)
EXTENDS Control, TLAPS

\* An open descriptor is the one its connection got, also after connections that
\* had the number before; as long as nothing is closed no number is free again.
FileInv ==
  /\ \A f \in Fd : file[f] # NoConn => fdOf[file[f]] = f
  /\ stops = 0 => \A c \in Conn : fdOf[c] # NoFd => file[fdOf[c]] = c

\* Only what the worker accepted is published, and a descriptor that a thread knows
\* stays open as long as nothing is closed.
WorkerInv ==
  /\ wpc # "listen" => wconn \in Conn /\ fdOf[wconn] # NoFd
  /\ clientFd # NoFd => wpc = "serve"
  /\ stops = 0 => \A fd \in {cfd, clientFd} : fd # NoFd => file[fd] # NoConn

\* The chunk in hand comes from the descriptor that the control thread watches.
ChunkInv == cpc = "chunk" => fdOf[chunk.conn] = cfd /\ cfd # NoFd

\* What the parser holds is the last piece it saw of its connection, and came from
\* the descriptor that the control thread still watches.
HoldInv ==
  hold # Nothing =>
    /\ hold \in Piece /\ Start(hold.piece)
    /\ fdOf[hold.conn] = cfd /\ cfd # NoFd
    /\ hold.piece = Parsed(hold.conn)

\* Handled pieces came from connections that were published.
HandledInv ==
  \A h \in handled : fdOf[h.start.conn] # NoFd /\ fdOf[h.rest.conn] # NoFd

IInv == TypeOK /\ FileInv /\ WorkerInv /\ ChunkInv /\ HoldInv /\ HandledInv /\ MixedOnlyByReuse

\* -1 is no descriptor, and nothing held is no piece.
LEMMA NoFdNotFd == NoFd \notin Fd /\ Nothing \notin Piece
<1>1. NoFd \notin Fd
  BY FdAssumption DEF NoFd
<1>2. Nothing.conn = NoConn
  BY DEF Nothing
<1> QED
  BY <1>1, <1>2, ConnAssumption DEF Piece

\* The initial states satisfy the inductive invariant.
LEMMA InitIInv == Init => IInv
<1> SUFFICES ASSUME Init PROVE IInv
  OBVIOUS
<1>1. TypeOK
  <2>1. chunk \in [conn : Conn \cup {NoConn}, next : Nat, last : Nat]
    BY DEF Init, NoChunk
  <2>2. ASSUME NEW c \in Conn
        PROVE  read[c] <= sent[c]
    <3>1. read[c] = 0 /\ sent[c] = 0
      BY DEF Init
    <3> QED
      BY <3>1
  <2> QED
    BY <2>1, <2>2 DEF Init, TypeOK
<1> QED
  BY <1>1 DEF Init, IInv, FileInv, WorkerInv, ChunkInv, HoldInv, HandledInv, MixedOnlyByReuse

\* A step that neither receives nor parses nor accepts keeps what is said of the
\* parser.
LEMMA ParserKept ==
  ASSUME IInv, UNCHANGED <<cfd, hold, read, chunk, fdOf, handled>>, cpc' # "chunk", cpc # "chunk"
  PROVE  ChunkInv' /\ HoldInv' /\ HandledInv' /\ MixedOnlyByReuse'
<1>1. \A c : Parsed(c)' = Parsed(c)
  BY DEF Parsed
<1>2. HoldInv'
  BY <1>1 DEF IInv, HoldInv
<1> QED
  BY <1>2 DEF IInv, ChunkInv, HandledInv, MixedOnlyByReuse

\* The same for a step that leaves the control thread alone.
LEMMA ControlKept ==
  ASSUME IInv, UNCHANGED <<control, read, fdOf, handled>>
  PROVE  ChunkInv' /\ HoldInv' /\ HandledInv' /\ MixedOnlyByReuse'
<1>1. UNCHANGED <<cpc, cfd, hold, chunk>>
  BY DEF control
<1>2. \A c : Parsed(c)' = Parsed(c)
  BY <1>1 DEF Parsed
<1>3. HoldInv'
  BY <1>1, <1>2 DEF IInv, HoldInv
<1> QED
  BY <1>1, <1>3 DEF IInv, ChunkInv, HandledInv, MixedOnlyByReuse

\* The control thread waits, polls or receives nothing.
LEMMA PollIInv ==
  ASSUME IInv,
         es_control_wait_ghc_rts_ready \/ PollCall \/ PollTimeout \/ PollHup \/ PollIn \/ RecvNothing
  PROVE  IInv'
<1> USE DEF es_control_wait_ghc_rts_ready, PollCall, PollTimeout, PollHup, PollIn, RecvNothing
<1>1. /\ UNCHANGED <<cfd, hold, read, chunk, fdOf, handled>> /\ cpc' # "chunk" /\ cpc # "chunk"
      /\ UNCHANGED <<clientFd, ready, wpc, wconn, file, peer, sent, stops>>
  BY DEF shared, kernel
<1>2. TypeOK'
  <2>1. cpc' \in {"wake", "rtscond", "polling", "recv"}
        /\ (cpc' \in {"polling", "recv"} => cpc \in {"poll", "polling"})
    OBVIOUS
  <2>2. polled' \in Conn \cup {NoConn}
    BY DEF IInv, TypeOK
  <2> QED
    BY <1>1, <2>1, <2>2 DEF IInv, TypeOK
<1>3. FileInv' /\ WorkerInv'
  BY <1>1 DEF IInv, FileInv, WorkerInv
<1> QED
  BY <1>1, <1>2, <1>3, ParserKept DEF IInv

\* A new iteration: the parser is reset if the descriptor changed.
LEMMA WakeUpIInv ==
  ASSUME IInv, WakeUp
  PROVE  IInv'
<1>1. /\ cpc = "wake" /\ cpc' = IF clientFd = NoFd THEN "conncond" ELSE "poll"
      /\ cfd' = clientFd
      /\ (hold' = hold /\ cfd' = cfd) \/ hold' = Nothing
      /\ UNCHANGED <<clientFd, ready, polled, chunk, wpc, wconn, file, peer, sent, read, stops,
                     fdOf, handled>>
  BY DEF WakeUp, es_control_fd_reset_to, shared, kernel
<1>2. TypeOK'
  BY <1>1 DEF IInv, TypeOK
<1>3. FileInv' /\ WorkerInv' /\ HandledInv' /\ MixedOnlyByReuse' /\ ChunkInv'
  BY <1>1 DEF IInv, FileInv, WorkerInv, HandledInv, MixedOnlyByReuse, ChunkInv
<1>4. HoldInv'
  <2>1. \A c : Parsed(c)' = Parsed(c)
    BY <1>1 DEF Parsed
  <2> QED
    BY <1>1, <2>1 DEF IInv, HoldInv
<1> QED
  BY <1>2, <1>3, <1>4 DEF IInv

\* A chunk is received from the connection behind the watched descriptor.
LEMMA RecvIInv ==
  ASSUME IInv, NEW n \in 1..MaxChunk, RecvChunk(n)
  PROVE  IInv'
<1> DEFINE c == file[cfd]
<1>1. /\ cpc = "recv" /\ cpc' = "chunk" /\ c # NoConn /\ n <= sent[c] - read[c]
      /\ chunk' = [conn |-> c, next |-> read[c] + 1, last |-> read[c] + n]
      /\ read' = [read EXCEPT ![c] = @ + n]
      /\ UNCHANGED <<clientFd, ready, cfd, polled, hold, wpc, wconn, file, peer, sent, stops, fdOf,
                     handled>>
  BY DEF RecvChunk, shared
<1>2. cfd # NoFd /\ cfd \in Fd /\ c \in Conn /\ fdOf[c] = cfd
  BY <1>1 DEF IInv, TypeOK, FileInv
<1>3. read[c] \in Nat /\ sent[c] \in Nat /\ n \in Nat /\ n >= 1
  BY <1>2, BoundAssumption DEF IInv, TypeOK
<1>4. /\ read' \in [Conn -> Nat] /\ read'[c] = read[c] + n
      /\ \A d \in Conn : d # c => read'[d] = read[d]
  BY <1>1, <1>2, <1>3 DEF IInv, TypeOK
<1>5. chunk'.conn = c /\ chunk'.next = read[c] + 1 /\ chunk'.last = read[c] + n
  BY <1>1
<1> HIDE DEF c
<1>6. TypeOK'
  <2>1. chunk' \in [conn : Conn \cup {NoConn}, next : Nat, last : Nat]
    BY <1>1, <1>2, <1>3
  <2>2. chunk'.conn \in Conn /\ chunk'.next <= chunk'.last /\ chunk'.last = read'[chunk'.conn]
    BY <1>2, <1>3, <1>4, <1>5
  <2>3. \A d \in Conn : read'[d] <= sent[d]
    BY <1>1, <1>3, <1>4 DEF IInv, TypeOK
  <2> QED
    BY <1>1, <1>4, <2>1, <2>2, <2>3 DEF IInv, TypeOK
<1>7. FileInv' /\ WorkerInv' /\ HandledInv' /\ MixedOnlyByReuse'
  BY <1>1 DEF IInv, FileInv, WorkerInv, HandledInv, MixedOnlyByReuse
<1>8. ChunkInv'
  BY <1>1, <1>2, <1>5 DEF ChunkInv
<1>9. HoldInv'
  <2>1. \A d \in Conn : Parsed(d)' = Parsed(d)
    BY <1>1, <1>3, <1>4, <1>5 DEF Parsed
  <2> QED
    BY <1>1, <2>1 DEF IInv, HoldInv, Piece
<1> QED
  BY <1>6, <1>7, <1>8, <1>9 DEF IInv

\* A piece is parsed: it completes what is held, is held, or is ignored.
LEMMA PieceIInv ==
  ASSUME IInv, HandlePiece
  PROVE  IInv'
<1> DEFINE tok == [conn |-> chunk.conn, piece |-> chunk.next]
<1>1. /\ cpc = "chunk" /\ chunk' = [chunk EXCEPT !.next = @ + 1]
      /\ cpc' = IF chunk.next = chunk.last THEN "wake" ELSE "chunk"
      /\ UNCHANGED <<clientFd, ready, cfd, polled, wpc, wconn, file, peer, sent, read, stops, fdOf>>
      /\ \/ hold # Nothing /\ hold' = Nothing /\ handled' = handled \cup {[start |-> hold, rest |-> tok]}
         \/ Start(tok.piece) /\ hold' = tok /\ handled' = handled
         \/ hold' = Nothing /\ handled' = handled
  BY DEF HandlePiece, Complete, shared, kernel
<1>2. /\ chunk \in [conn : Conn \cup {NoConn}, next : Nat, last : Nat]
      /\ chunk.conn \in Conn /\ chunk.next <= chunk.last /\ chunk.last = read[chunk.conn]
      /\ fdOf[chunk.conn] = cfd /\ cfd # NoFd
  BY <1>1 DEF IInv, TypeOK, ChunkInv
<1>3. chunk.next \in Nat /\ chunk.last \in Nat /\ tok \in Piece
  BY <1>2 DEF Piece
<1>4. /\ chunk' \in [conn : Conn \cup {NoConn}, next : Nat, last : Nat]
      /\ chunk'.conn = chunk.conn /\ chunk'.next = chunk.next + 1 /\ chunk'.last = chunk.last
  BY <1>1, <1>2, <1>3
<1>5. tok.conn = chunk.conn /\ tok.piece = chunk.next
  OBVIOUS
<1>6. hold # Nothing => [start |-> hold, rest |-> tok] \in [start : Piece, rest : Piece]
  BY <1>3 DEF IInv, HoldInv
<1> HIDE DEF tok
<1>7. TypeOK'
  <2>1. handled' \subseteq [start : Piece, rest : Piece]
    BY <1>1, <1>6 DEF IInv, TypeOK
  <2>2. hold' \in Piece \cup {Nothing}
    BY <1>1, <1>3
  <2>3. cpc' \in {"wake", "chunk"} /\ (cpc' = "chunk" => chunk.next # chunk.last)
    BY <1>1
  <2>4. cpc' = "chunk" => chunk'.conn \in Conn /\ chunk'.next <= chunk'.last
                          /\ chunk'.last = read'[chunk'.conn]
    BY <1>1, <1>2, <1>3, <1>4, <2>3
  <2> QED
    BY <1>1, <1>4, <2>1, <2>2, <2>3, <2>4 DEF IInv, TypeOK
<1>8. FileInv' /\ WorkerInv'
  BY <1>1 DEF IInv, FileInv, WorkerInv
<1>9. ChunkInv'
  BY <1>1, <1>2, <1>4 DEF ChunkInv
<1>10. Parsed(chunk.conn) = chunk.next - 1 /\ Parsed(chunk.conn)' = chunk.next
  BY <1>1, <1>2, <1>3, <1>4 DEF Parsed
<1>11. HoldInv'
  <2>1. ASSUME hold' = tok, Start(tok.piece)
        PROVE  HoldInv'
    BY <1>1, <1>2, <1>3, <1>5, <1>10, <2>1 DEF HoldInv
  <2>2. ASSUME hold' = Nothing
        PROVE  HoldInv'
    BY <2>2 DEF HoldInv
  <2> QED
    BY <1>1, <2>1, <2>2
<1>12. HandledInv' /\ MixedOnlyByReuse'
  <2>1. CASE handled' = handled
    BY <1>1, <2>1 DEF IInv, HandledInv, MixedOnlyByReuse
  <2>2. CASE hold # Nothing /\ handled' = handled \cup {[start |-> hold, rest |-> tok]}
    <3> DEFINE h == [start |-> hold, rest |-> tok]
    <3>1. h.start = hold /\ h.rest = tok
      OBVIOUS
    <3>2. /\ hold \in Piece /\ Start(hold.piece) /\ fdOf[hold.conn] = cfd
          /\ hold.piece = Parsed(hold.conn)
      BY <2>2 DEF IInv, HoldInv
    <3>3. fdOf[tok.conn] = cfd
      BY <1>2, <1>5
    <3>4. hold.conn = tok.conn => tok.piece = hold.piece + 1
      BY <1>3, <1>5, <1>10, <3>2
    <3> HIDE DEF h
    <3>5. /\ fdOf[h.start.conn] # NoFd /\ fdOf[h.rest.conn] # NoFd
          /\ IF h.start.conn = h.rest.conn
               THEN h.rest.piece = h.start.piece + 1 /\ Start(h.start.piece)
               ELSE fdOf[h.start.conn] = fdOf[h.rest.conn]
      BY <1>2, <3>1, <3>2, <3>3, <3>4
    <3>6. \A g \in handled' : g \in handled \/ g = h
      BY <2>2 DEF h
    <3> QED
      BY <1>1, <3>5, <3>6 DEF IInv, HandledInv, MixedOnlyByReuse
  <2> QED
    BY <1>1, <2>1, <2>2
<1> QED
  BY <1>7, <1>8, <1>9, <1>11, <1>12 DEF IInv

\* A new connection gets a free descriptor number.
LEMMA AcceptIInv ==
  ASSUME IInv, NEW c \in Conn, NEW f \in Fd, Accept(c, f)
  PROVE  IInv'
<1>1. /\ wpc = "listen" /\ fdOf[c] = NoFd /\ file[f] = NoConn
      /\ file' = [file EXCEPT ![f] = c] /\ fdOf' = [fdOf EXCEPT ![c] = f]
      /\ wconn' = c /\ wpc' = "accepted"
      /\ UNCHANGED <<clientFd, ready, cpc, cfd, polled, chunk, hold, peer, sent, read, stops,
                     handled>>
  BY DEF Accept, LowestFree, shared, control
<1>2. /\ file' \in [Fd -> Conn \cup {NoConn}] /\ file'[f] = c
      /\ \A g \in Fd : g # f => file'[g] = file[g]
  BY <1>1 DEF IInv, TypeOK
<1>3. /\ fdOf' \in [Conn -> Fd \cup {NoFd}] /\ fdOf'[c] = f
      /\ \A d \in Conn : fdOf[d] # NoFd => fdOf'[d] = fdOf[d]
      /\ \A d \in Conn : d # c => fdOf'[d] = fdOf[d]
  BY <1>1 DEF IInv, TypeOK
<1>4. f # NoFd
  BY NoFdNotFd
<1>5. TypeOK'
  BY <1>1, <1>2, <1>3 DEF IInv, TypeOK
<1>6. FileInv'
  <2>1. \A g \in Fd : file[g] \in Conn \cup {NoConn} /\ file[g] # c
    BY <1>1, ConnAssumption, NoFdNotFd DEF IInv, TypeOK, FileInv
  <2>2. \A g \in Fd : file'[g] # NoConn => fdOf'[file'[g]] = g
    BY <1>2, <1>3, <2>1, ConnAssumption DEF IInv, FileInv
  <2>3. ASSUME stops = 0, NEW d \in Conn, fdOf'[d] # NoFd
        PROVE  file'[fdOf'[d]] = d
    <3>1. CASE d = c
      BY <1>2, <1>3, <3>1
    <3>2. CASE d # c
      <4>1. fdOf'[d] = fdOf[d] /\ fdOf[d] \in Fd /\ file[fdOf[d]] = d
        BY <1>3, <2>3, <3>2 DEF IInv, TypeOK, FileInv
      <4>2. fdOf[d] # f
        BY <1>1, <4>1, ConnAssumption
      <4> QED
        BY <1>2, <4>1, <4>2
    <3> QED
      BY <3>1, <3>2
  <2> QED
    BY <1>1, <1>3, <1>4, <2>2, <2>3 DEF FileInv
<1>7. WorkerInv'
  <2>1. clientFd = NoFd /\ clientFd' = NoFd
    BY <1>1 DEF IInv, WorkerInv
  <2>2. stops = 0 /\ cfd # NoFd => cfd \in Fd /\ file'[cfd] # NoConn
    BY <1>2, ConnAssumption DEF IInv, TypeOK, WorkerInv
  <2> QED
    BY <1>1, <1>3, <1>4, <2>1, <2>2 DEF WorkerInv
<1>8. ChunkInv'
  <2>1. cpc' = "chunk" => cpc = "chunk" /\ chunk.conn \in Conn
    BY <1>1 DEF IInv, TypeOK
  <2> QED
    BY <1>1, <1>3, <2>1 DEF IInv, ChunkInv
<1>9. HoldInv'
  <2>1. \A d : Parsed(d)' = Parsed(d)
    BY <1>1 DEF Parsed
  <2>2. hold \in Piece => hold.conn \in Conn
    BY DEF Piece
  <2> QED
    BY <1>1, <1>3, <2>1, <2>2 DEF IInv, HoldInv
<1>10. HandledInv' /\ MixedOnlyByReuse'
  <2>1. \A h \in handled : h.start.conn \in Conn /\ h.rest.conn \in Conn
    BY DEF IInv, TypeOK, Piece
  <2>2. \A h \in handled : /\ fdOf'[h.start.conn] = fdOf[h.start.conn]
                           /\ fdOf'[h.rest.conn] = fdOf[h.rest.conn]
    BY <1>3, <2>1 DEF IInv, HandledInv
  <2> QED
    BY <1>1, <2>2 DEF IInv, HandledInv, MixedOnlyByReuse
<1> QED
  BY <1>5, <1>6, <1>7, <1>8, <1>9, <1>10 DEF IInv

\* The accepted connection is published.
LEMMA PublishIInv ==
  ASSUME IInv, Publish
  PROVE  IInv'
<1>1. /\ wpc = "accepted" /\ wpc' = "serve" /\ clientFd' = fdOf[wconn]
      /\ cpc' = IF cpc = "conncond" THEN "wake" ELSE cpc
      /\ UNCHANGED <<ready, cfd, polled, chunk, hold, wconn, file, peer, sent, read, stops, fdOf,
                     handled>>
  BY DEF Publish
<1>2. wconn \in Conn /\ fdOf[wconn] \in Fd /\ fdOf[wconn] # NoFd
  BY <1>1 DEF IInv, TypeOK, WorkerInv
<1>3. TypeOK'
  BY <1>1, <1>2 DEF IInv, TypeOK
<1>4. WorkerInv'
  <2>1. stops = 0 => file[fdOf[wconn]] = wconn /\ wconn # NoConn
    BY <1>2, ConnAssumption DEF IInv, FileInv
  <2> QED
    BY <1>1, <1>2, <2>1 DEF IInv, WorkerInv
<1>5. FileInv' /\ ChunkInv' /\ HandledInv' /\ MixedOnlyByReuse'
  BY <1>1 DEF IInv, FileInv, ChunkInv, HandledInv, MixedOnlyByReuse
<1>6. HoldInv'
  <2>1. \A d : Parsed(d)' = Parsed(d)
    BY <1>1 DEF Parsed
  <2> QED
    BY <1>1, <2>1 DEF IInv, HoldInv
<1> QED
  BY <1>3, <1>4, <1>5, <1>6 DEF IInv

\* The other threads and the clients.
LEMMA OtherIInv ==
  ASSUME IInv,
         \/ Reset \/ Snapshot \/ writer_stop
         \/ \E c \in Conn : Connect(c) \/ HalfClose(c) \/ HangUp(c) \/ Send(c)
  PROVE  IInv'
<1>1. UNCHANGED <<control, read, fdOf, handled, ready>>
  BY DEF Reset, Snapshot, writer_stop, Connect, HalfClose, HangUp, Send, SetPeer, shared
<1>2. UNCHANGED <<cpc, cfd, polled, chunk, hold>>
  BY <1>1 DEF control
<1>3. CASE Reset \/ Snapshot
  <2> USE <1>3 DEF Reset, Snapshot, shared
  <2>1. TypeOK'
    BY <1>1, <1>2 DEF IInv, TypeOK
  <2>2. FileInv' /\ WorkerInv'
    BY <1>1, <1>2 DEF IInv, FileInv, WorkerInv
  <2> QED
    BY <1>1, <2>1, <2>2, ControlKept DEF IInv
<1>4. CASE writer_stop
  <2>1. /\ clientFd \in Fd /\ clientFd' = NoFd /\ stops' = stops + 1
        /\ file' = [file EXCEPT ![clientFd] = NoConn] /\ UNCHANGED <<wpc, wconn, peer, sent>>
    BY <1>4 DEF writer_stop, IInv, TypeOK
  <2>2. /\ file' \in [Fd -> Conn \cup {NoConn}]
        /\ \A g \in Fd : file'[g] # NoConn => file'[g] = file[g]
    BY <2>1 DEF IInv, TypeOK
  <2>3. stops' \in Nat /\ stops' # 0
    BY <2>1 DEF IInv, TypeOK
  <2>4. TypeOK'
    BY <1>1, <1>2, <2>1, <2>2, <2>3 DEF IInv, TypeOK
  <2>5. FileInv' /\ WorkerInv'
    BY <1>1, <2>1, <2>2, <2>3 DEF IInv, FileInv, WorkerInv
  <2> QED
    BY <1>1, <2>4, <2>5, ControlKept DEF IInv
<1>5. CASE \E c \in Conn : Connect(c) \/ HalfClose(c) \/ HangUp(c) \/ Send(c)
  <2>1. UNCHANGED <<clientFd, wpc, wconn, file, stops>>
    BY <1>5 DEF Connect, HalfClose, HangUp, Send, SetPeer, shared
  <2>2. /\ peer' \in [Conn -> {"idle", "up", "fin", "gone"}] /\ sent' \in [Conn -> Nat]
        /\ \A d \in Conn : sent'[d] >= sent[d]
    <3>1. PICK c \in Conn : Connect(c) \/ HalfClose(c) \/ HangUp(c) \/ Send(c)
      BY <1>5
    <3>2. CASE Send(c)
      BY <3>2 DEF Send, IInv, TypeOK
    <3>3. CASE Connect(c) \/ HalfClose(c) \/ HangUp(c)
      BY <3>3 DEF Connect, HalfClose, HangUp, SetPeer, IInv, TypeOK
    <3> QED
      BY <3>1, <3>2, <3>3
  <2>3. \A d \in Conn : read[d] <= sent'[d]
    BY <2>2 DEF IInv, TypeOK
  <2>4. TypeOK'
    BY <1>1, <1>2, <2>1, <2>2, <2>3 DEF IInv, TypeOK
  <2>5. FileInv' /\ WorkerInv'
    BY <1>1, <1>2, <2>1 DEF IInv, FileInv, WorkerInv
  <2> QED
    BY <1>1, <2>4, <2>5, ControlKept DEF IInv
<1> QED
  BY <1>3, <1>4, <1>5

\* The RTS becomes ready.
LEMMA ReadyIInv ==
  ASSUME IInv, eventlog_socket_signal_ghc_rts_ready
  PROVE  IInv'
<1>1. /\ ready' = TRUE /\ cpc' = IF cpc = "rtscond" THEN "waitrts" ELSE cpc
      /\ UNCHANGED <<clientFd, cfd, polled, chunk, hold, handled>>
      /\ UNCHANGED <<wpc, wconn, file, peer, sent, read, stops, fdOf>>
  BY DEF eventlog_socket_signal_ghc_rts_ready, kernel
<1>2. TypeOK'
  BY <1>1 DEF IInv, TypeOK
<1>3. FileInv' /\ WorkerInv' /\ HandledInv' /\ MixedOnlyByReuse' /\ ChunkInv'
  BY <1>1 DEF IInv, FileInv, WorkerInv, HandledInv, MixedOnlyByReuse, ChunkInv
<1>4. HoldInv'
  <2>1. \A c : Parsed(c)' = Parsed(c)
    BY <1>1 DEF Parsed
  <2> QED
    BY <1>1, <2>1 DEF IInv, HoldInv
<1> QED
  BY <1>2, <1>3, <1>4 DEF IInv

\* Every step keeps the inductive invariant.
LEMMA NextIInv == IInv /\ [Next]_vars => IInv'
<1> SUFFICES ASSUME IInv, [Next]_vars PROVE IInv'
  OBVIOUS
<1>1. CASE UNCHANGED vars
  <2>1. /\ UNCHANGED <<clientFd, ready, wpc, wconn, file, peer, sent, read, stops, fdOf, handled>>
        /\ UNCHANGED <<cpc, cfd, polled, chunk, hold>>
    BY <1>1 DEF vars, shared, control, kernel
  <2>2. TypeOK' /\ FileInv' /\ WorkerInv'
    BY <2>1 DEF IInv, TypeOK, FileInv, WorkerInv
  <2> QED
    BY <2>1, <2>2, ControlKept DEF IInv, control
<1>2. CASE ControlStep
  BY <1>2, PollIInv, WakeUpIInv, RecvIInv, PieceIInv DEF ControlStep
<1>3. CASE WorkerStep
  BY <1>3, AcceptIInv, PublishIInv, OtherIInv DEF WorkerStep
<1> QED
  BY <1>1, <1>2, <1>3, ReadyIInv, OtherIInv DEF Next

\* The inductive invariant holds of every reachable state.
THEOREM ControlIInv == Spec => []IInv
  BY InitIInv, NextIInv, PTL DEF Spec

\* Type correctness; poll() and recv() are never called with -1.
THEOREM ControlTypeOK == Spec => []TypeOK
  BY ControlIInv, PTL DEF IInv

\* A command is made of one message, or of pieces of connections that had the same
\* descriptor number.
THEOREM ControlMixedOnlyByReuse == Spec => []MixedOnlyByReuse
  BY ControlIInv, PTL DEF IInv

\* Without writer_stop no two connections have the same number, so nothing mixes.
LEMMA IInvNoMixing == IInv => NoMixingWithoutStop
<1> SUFFICES ASSUME IInv, stops = 0, NEW h \in handled
             PROVE  h.start.conn = h.rest.conn
  BY DEF NoMixingWithoutStop
<1>1. h.start.conn \in Conn /\ h.rest.conn \in Conn
  BY DEF IInv, TypeOK, Piece
<1>2. fdOf[h.start.conn] # NoFd /\ fdOf[h.rest.conn] # NoFd
  BY DEF IInv, HandledInv
<1>3. file[fdOf[h.start.conn]] = h.start.conn /\ file[fdOf[h.rest.conn]] = h.rest.conn
  BY <1>1, <1>2 DEF IInv, FileInv
<1> QED
  BY <1>3 DEF IInv, MixedOnlyByReuse

\* As long as event logging is not ended, no command mixes two clients.
THEOREM ControlNoMixingWithoutStop == Spec => []NoMixingWithoutStop
  BY ControlIInv, IInvNoMixing, PTL

-----------------------------------------------------------------------------
(* What recv() returned is handled *)

\* Input came only from connections that were accepted; one that is accepted and not
\* published, or published and not watched yet, had nothing read, and of a message of the watched one that was
\* cut the parser holds the first piece.
SeenInv ==
  /\ \A c \in Conn : fdOf[c] = NoFd => read[c] = 0
  /\ stops = 0 /\ wpc = "accepted" => read[wconn] = 0 /\ fdOf[wconn] # cfd
  /\ stops = 0 =>
       \A c \in Conn : fdOf[c] # NoFd =>
         /\ fdOf[c] = clientFd /\ clientFd # cfd => read[c] = 0
         /\ fdOf[c] = cfd /\ Start(Parsed(c)) => hold = [conn |-> c, piece |-> Parsed(c)]

RInv == SeenInv /\ ReceivedHandled

\* The initial states.
LEMMA InitRInv == Init => RInv
<1> SUFFICES ASSUME Init PROVE RInv
  OBVIOUS
<1>1. \A c \in Conn : read[c] = 0 /\ fdOf[c] = NoFd /\ Parsed(c) = 0
  BY DEF Init, Parsed
<1>2. wpc = "listen"
  BY DEF Init
<1> QED
  BY <1>1, <1>2 DEF RInv, SeenInv, ReceivedHandled

\* A step that leaves the parser and its input alone, and accepts and publishes nothing.
LEMMA InputKept ==
  ASSUME RInv, UNCHANGED <<cfd, hold, read, fdOf, handled>>,
         \A c \in Conn : Parsed(c)' = Parsed(c),
         clientFd' \in {clientFd, NoFd}, stops' = 0 => stops = 0,
         wpc' = "accepted" => wpc = "accepted" /\ wconn' = wconn
  PROVE  RInv'
<1>1. SeenInv'
  BY DEF RInv, SeenInv
<1>2. ReceivedHandled'
  BY DEF RInv, ReceivedHandled, Handled
<1> QED
  BY <1>1, <1>2 DEF RInv

\* A new iteration: the connection it turns to had nothing read, so a reset of the
\* parser loses nothing of it.
LEMMA WakeUpRInv ==
  ASSUME IInv, RInv, WakeUp
  PROVE  RInv'
<1>1. /\ cpc = "wake" /\ cpc' # "chunk" /\ cfd' = clientFd
      /\ cfd = clientFd => hold' = hold
      /\ UNCHANGED <<clientFd, chunk, wpc, wconn, read, stops, fdOf, handled>>
  BY DEF WakeUp, es_control_fd_reset_to, shared, kernel
<1>2. \A c \in Conn : Parsed(c) = read[c] /\ Parsed(c)' = read[c]
  BY <1>1 DEF Parsed
<1>3. ReceivedHandled'
  BY <1>1, <1>2 DEF RInv, ReceivedHandled, Handled
<1>4. SeenInv'
  <2>0. wpc = "accepted" => cfd' = NoFd /\ fdOf[wconn] # NoFd
    BY <1>1 DEF IInv, WorkerInv
  <2>1. CASE cfd = clientFd
    BY <1>1, <1>2, <2>0, <2>1 DEF RInv, SeenInv
  <2>2. CASE cfd # clientFd
    <3>1. ~Start(0)
      BY DEF Start
    <3> QED
      BY <1>1, <1>2, <2>0, <2>2, <3>1 DEF RInv, SeenInv
  <2> QED
    BY <2>1, <2>2
<1> QED
  BY <1>3, <1>4 DEF RInv

\* A chunk: none of its pieces is parsed yet.
LEMMA RecvRInv ==
  ASSUME IInv, RInv, NEW n \in 1..MaxChunk, RecvChunk(n)
  PROVE  RInv'
<1> DEFINE c == file[cfd]
<1>1. /\ cpc = "recv" /\ cpc' = "chunk" /\ c # NoConn
      /\ chunk' = [conn |-> c, next |-> read[c] + 1, last |-> read[c] + n]
      /\ read' = [read EXCEPT ![c] = @ + n]
      /\ UNCHANGED <<clientFd, cfd, hold, wpc, wconn, stops, fdOf, handled>>
  BY DEF RecvChunk, shared
<1>2. cfd # NoFd /\ c \in Conn /\ fdOf[c] = cfd
  BY <1>1 DEF IInv, TypeOK, FileInv
<1>3. read[c] \in Nat /\ \A d \in Conn : d # c => read'[d] = read[d]
  BY <1>1, <1>2 DEF IInv, TypeOK
<1>4. chunk'.conn = c /\ chunk'.next = read[c] + 1
  BY <1>1
<1> HIDE DEF c
<1>5. \A d \in Conn : Parsed(d)' = Parsed(d)
  BY <1>1, <1>3, <1>4 DEF Parsed
<1>6. ReceivedHandled'
  BY <1>1, <1>5 DEF RInv, ReceivedHandled, Handled
<1>7. SeenInv'
  <2>1. wpc = "accepted" => wconn \in Conn
    BY DEF IInv, WorkerInv
  <2> QED
    BY <1>1, <1>2, <1>3, <1>5, <2>1 DEF RInv, SeenInv
<1> QED
  BY <1>6, <1>7 DEF RInv

\* A piece: the first of a message is held, the second one completes it.
LEMMA PieceRInv ==
  ASSUME IInv, RInv, HandlePiece
  PROVE  RInv'
<1> DEFINE c   == chunk.conn
           n   == chunk.next
           tok == [conn |-> c, piece |-> n]
<1>1. /\ cpc = "chunk" /\ chunk' = [chunk EXCEPT !.next = @ + 1]
      /\ cpc' = IF chunk.next = chunk.last THEN "wake" ELSE "chunk"
      /\ UNCHANGED <<clientFd, cfd, wpc, wconn, read, stops, fdOf>>
      /\ \/ hold # Nothing /\ hold' = Nothing /\ handled' = handled \cup {[start |-> hold, rest |-> tok]}
         \/ Start(n) /\ hold' = tok /\ handled' = handled
         \/ ~Start(n) /\ hold.conn # c /\ hold' = Nothing /\ handled' = handled
  BY DEF HandlePiece, Complete, shared, kernel
<1>2. /\ chunk \in [conn : Conn \cup {NoConn}, next : Nat, last : Nat]
      /\ c \in Conn /\ n <= chunk.last /\ chunk.last = read[c] /\ fdOf[c] = cfd /\ cfd # NoFd
  BY <1>1 DEF IInv, TypeOK, ChunkInv
<1>3. n \in Nat /\ chunk'.conn = c /\ chunk'.next = n + 1
  BY <1>1, <1>2
<1>4. \A d \in Conn : d = c => Parsed(d) = n - 1 /\ Parsed(d)' = n
  BY <1>1, <1>2, <1>3 DEF Parsed
<1>5. \A d \in Conn : d # c => Parsed(d)' = Parsed(d)
  BY <1>1, <1>3 DEF Parsed
<1> HIDE DEF c, n
<1> SUFFICES ASSUME stops = 0 PROVE RInv'
  BY <1>1 DEF RInv, SeenInv, ReceivedHandled
<1>6. \A d \in Conn : fdOf[d] = cfd => d = c
  BY <1>2 DEF IInv, FileInv
<1>7. Start(n - 1) <=> ~Start(n)
  BY <1>3 DEF Start
<1>8. Start(n) => hold = Nothing
  <2>1. hold # Nothing => hold.conn = c /\ Start(hold.piece) /\ hold.piece = n - 1
    BY <1>2, <1>4, <1>6 DEF IInv, HoldInv, Piece
  <2> QED
    BY <1>7, <2>1
<1>9. ~Start(n) => hold = [conn |-> c, piece |-> n - 1]
  BY <1>2, <1>4, <1>7 DEF RInv, SeenInv
<1>10. Start(n) => hold' = tok /\ handled' = handled
  BY <1>1, <1>8
<1>11. ~Start(n) => /\ hold' = Nothing
                    /\ handled' = handled \cup {[start |-> hold, rest |-> tok]}
  <2>1. ~Start(n) => hold.conn = c
    BY <1>9
  <2> QED
    BY <1>1, <2>1
<1>12. handled \subseteq handled'
  BY <1>10, <1>11
<1>13. SeenInv'
  <2>1. ASSUME NEW d \in Conn, fdOf[d] = cfd, Start(Parsed(d)')
        PROVE  hold' = [conn |-> d, piece |-> Parsed(d)']
    BY <1>4, <1>6, <1>10, <2>1 DEF tok
  <2>2. \A d \in Conn : fdOf[d] = NoFd => read[d] = 0
    BY DEF RInv, SeenInv
  <2>3. \A d \in Conn : fdOf[d] # NoFd /\ fdOf[d] = clientFd /\ clientFd # cfd => read[d] = 0
    BY DEF RInv, SeenInv
  <2> QED
    BY <1>1, <2>1, <2>2, <2>3 DEF RInv, SeenInv
<1>14. ReceivedHandled'
  <2> SUFFICES ASSUME NEW d \in Conn, NEW m \in 1..MaxMessages, 2 * m <= Parsed(d)'
               PROVE  Handled(d, m)'
    BY DEF ReceivedHandled
  <2>1. CASE 2 * m <= Parsed(d)
    BY <1>12, <2>1 DEF RInv, ReceivedHandled, Handled
  <2>2. CASE ~(2 * m <= Parsed(d))
    <3>1. d = c /\ 2 * m = n
      <4>1. d = c
        BY <1>5, <2>2
      <4>2. m \in Nat
        BY BoundAssumption
      <4>3. 2 * m <= n /\ ~(2 * m <= n - 1)
        BY <1>4, <2>2, <4>1
      <4> QED
        BY <1>3, <4>1, <4>2, <4>3
    <3>2. ~Start(n)
      BY <3>1, BoundAssumption DEF Start
    <3>3. [start |-> [conn |-> c, piece |-> n - 1], rest |-> tok] \in handled'
      BY <1>9, <1>11, <3>2
    <3> QED
      BY <3>1, <3>3 DEF Handled, tok
  <2> QED
    BY <2>1, <2>2
<1> QED
  BY <1>13, <1>14 DEF RInv

\* A new connection: nothing of it was read, and its number is new to the control thread.
LEMMA AcceptRInv ==
  ASSUME IInv, RInv, NEW c \in Conn, NEW f \in Fd, Accept(c, f)
  PROVE  RInv'
<1>1. /\ wpc = "listen" /\ fdOf[c] = NoFd /\ file[f] = NoConn
      /\ fdOf' = [fdOf EXCEPT ![c] = f] /\ wconn' = c
      /\ UNCHANGED <<clientFd, cpc, cfd, chunk, hold, read, stops, handled>>
  BY DEF Accept, LowestFree, shared, control
<1>2. /\ fdOf'[c] = f /\ f # NoFd
      /\ \A d \in Conn : d # c => fdOf'[d] = fdOf[d]
  BY <1>1, NoFdNotFd DEF IInv, TypeOK
<1>3. \A d \in Conn : Parsed(d)' = Parsed(d)
  BY <1>1 DEF Parsed
<1>4. read[c] = 0
  BY <1>1 DEF RInv, SeenInv
<1>5. stops = 0 => f # cfd /\ f # clientFd
  BY <1>1, <1>2 DEF IInv, WorkerInv
<1>6. ReceivedHandled'
  BY <1>1, <1>3 DEF RInv, ReceivedHandled, Handled
<1>7. SeenInv'
  <2>1. \A d \in Conn : fdOf'[d] = NoFd => read'[d] = 0
    BY <1>1, <1>2 DEF RInv, SeenInv
  <2>2. stops' = 0 => read'[wconn'] = 0 /\ fdOf'[wconn'] # cfd'
    BY <1>1, <1>2, <1>4, <1>5
  <2>3. ASSUME stops' = 0, NEW d \in Conn, fdOf'[d] # NoFd
        PROVE  /\ fdOf'[d] = clientFd' /\ clientFd' # cfd' => read'[d] = 0
               /\ fdOf'[d] = cfd' /\ Start(Parsed(d)') => hold' = [conn |-> d, piece |-> Parsed(d)']
    <3>1. CASE d = c
      BY <1>1, <1>2, <1>5, <2>3, <3>1
    <3>2. CASE d # c
      BY <1>1, <1>2, <1>3, <2>3, <3>2 DEF RInv, SeenInv
    <3> QED
      BY <3>1, <3>2
  <2> QED
    BY <2>1, <2>2, <2>3 DEF SeenInv
<1> QED
  BY <1>6, <1>7 DEF RInv

\* The accepted connection is published: still nothing of it was read.
LEMMA PublishRInv ==
  ASSUME IInv, RInv, Publish
  PROVE  RInv'
<1>1. /\ wpc = "accepted" /\ wpc' = "serve" /\ clientFd' = fdOf[wconn]
      /\ cpc' = IF cpc = "conncond" THEN "wake" ELSE cpc
      /\ UNCHANGED <<cfd, chunk, hold, read, stops, fdOf, handled>>
  BY DEF Publish
<1>2. \A d \in Conn : Parsed(d)' = Parsed(d)
  BY <1>1 DEF Parsed
<1>3. wconn \in Conn /\ fdOf[wconn] # NoFd
  BY <1>1 DEF IInv, WorkerInv
<1>4. stops = 0 => \A d \in Conn : fdOf[d] = fdOf[wconn] => d = wconn
  BY <1>3 DEF IInv, FileInv
<1>5. ReceivedHandled'
  BY <1>1, <1>2 DEF RInv, ReceivedHandled, Handled
<1>6. SeenInv'
  BY <1>1, <1>2, <1>4 DEF RInv, SeenInv
<1> QED
  BY <1>5, <1>6 DEF RInv

\* Every step.
LEMMA NextRInv == IInv /\ RInv /\ [Next]_vars => RInv'
<1> SUFFICES ASSUME IInv, RInv, [Next]_vars PROVE RInv'
  OBVIOUS
<1>1. CASE \/ es_control_wait_ghc_rts_ready \/ PollCall \/ PollTimeout \/ PollHup \/ PollIn
           \/ RecvNothing \/ eventlog_socket_signal_ghc_rts_ready
  <2> USE DEF es_control_wait_ghc_rts_ready, PollCall, PollTimeout, PollHup, PollIn, RecvNothing,
              eventlog_socket_signal_ghc_rts_ready
  <2>1. UNCHANGED <<cfd, hold, wpc, wconn, read, fdOf, handled, clientFd, stops, chunk>>
        /\ (cpc' = "chunk" <=> cpc = "chunk")
    BY <1>1 DEF shared, kernel
  <2>2. \A c \in Conn : Parsed(c)' = Parsed(c)
    BY <2>1 DEF Parsed
  <2> QED
    BY <2>1, <2>2, InputKept
<1>2. CASE \/ Reset \/ Snapshot \/ writer_stop \/ UNCHANGED vars
           \/ \E c \in Conn : Connect(c) \/ HalfClose(c) \/ HangUp(c) \/ Send(c)
  <2> USE DEF Reset, Snapshot, writer_stop, Connect, HalfClose, HangUp, Send, SetPeer, vars
  <2>1. UNCHANGED <<control, read, fdOf, handled>> /\ clientFd' \in {clientFd, NoFd}
    BY <1>2 DEF shared, kernel
  <2>2. stops' = 0 => stops = 0
    BY <1>2 DEF IInv, TypeOK, kernel
  <2>3. UNCHANGED <<cpc, cfd, chunk, hold>> /\ \A c \in Conn : Parsed(c)' = Parsed(c)
    BY <2>1 DEF control, Parsed
  <2>4. wpc' = "accepted" => wpc = "accepted" /\ wconn' = wconn
    BY <1>2 DEF kernel
  <2> QED
    BY <2>1, <2>2, <2>3, <2>4, InputKept
<1> QED
  BY <1>1, <1>2, WakeUpRInv, RecvRInv, PieceRInv, AcceptRInv, PublishRInv
     DEF Next, ControlStep, WorkerStep

\* Every message that recv() returned in full is handled, as long as event logging
\* is not ended.
THEOREM ControlReceivedHandled == Spec => []ReceivedHandled
<1>1. IInv /\ RInv => ReceivedHandled
  BY DEF RInv
<1> QED
  BY <1>1, InitIInv, NextIInv, InitRInv, NextRInv, PTL DEF Spec
=============================================================================
