------------------------ MODULE CommandParserProofs ------------------------
(***************************************************************************)
(* The parser of control commands, for every stream of bytes and every way *)
(* to cut it into chunks: the documented invariants of its state, the      *)
(* content of the namespace buffer, that commands are only handled from    *)
(* what looks like a message, that a stream of messages is handled as it   *)
(* was sent, and that the loop moves on, but for full chunks.              *)
(***************************************************************************)
EXTENDS CommandParser, SequenceTheorems, WellFoundedInduction, TLAPS

\* What the tag says of the bytes just before the cursor.
TagInv ==
  /\ tag = "MAGIC" =>
       /\ header_pos <= Offset
       /\ \A i \in 1..header_pos : stream.bytes[Offset - header_pos + i] = Magic[i]
  /\ tag = "PROTOCOL_VERSION" => At(Magic, Offset - Len(Magic))
  /\ tag = "NAMESPACE_LEN" => VersionBefore(Offset)
  /\ tag = "NAMESPACE" =>
       LET p == Offset - pos - 1
       IN  /\ VersionBefore(p) \/ FellThrough(p)
           /\ stream.bytes[p + 1] = len
  /\ tag = "COMMAND_ID" => NameBefore(Offset, namespace)

IInv == TypeOK /\ BufferIsInput /\ TagInv /\ HandledFromMessage

\* A remainder is at most the number itself: a uint8_t never counts more bytes
\* than the chunk has left.
LEMMA RemainderBound ==
  ASSUME NEW a \in Nat, NEW b \in Nat \ {0}
  PROVE  a % b \in 0..a
  OBVIOUS

\* Two neighbouring runs of a sequence make one.
LEMMA SubSeqConcat ==
  ASSUME NEW S, NEW s \in Seq(S), NEW a \in Nat \ {0}, NEW b \in Nat, NEW c \in Nat,
         a <= b + 1, b <= c, c <= Len(s)
  PROVE  SubSeq(s, a, b) \o SubSeq(s, b + 1, c) = SubSeq(s, a, c)
<1> DEFINE u == SubSeq(s, a, b)
           v == SubSeq(s, b + 1, c)
           w == SubSeq(s, a, c)
<1>1. u \in Seq(S) /\ Len(u) = b - a + 1 /\ \A i \in 1..Len(u) : u[i] = s[a + i - 1]
  OBVIOUS
<1>2. v \in Seq(S) /\ Len(v) = c - b /\ \A i \in 1..Len(v) : v[i] = s[b + i]
  OBVIOUS
<1>3. w \in Seq(S) /\ Len(w) = c - a + 1 /\ \A i \in 1..Len(w) : w[i] = s[a + i - 1]
  OBVIOUS
<1> DEFINE x == u \o v
<1> HIDE DEF u, v, w
<1>4. /\ x \in Seq(S) /\ Len(x) = Len(u) + Len(v)
      /\ \A i \in 1..(Len(u) + Len(v)) :
           x[i] = IF i <= Len(u) THEN u[i] ELSE v[i - Len(u)]
  BY <1>1, <1>2, ConcatProperties
<1> HIDE DEF x
<1>5. Len(x) = Len(w)
  BY <1>1, <1>2, <1>3, <1>4
<1>6. \A i \in 1..Len(x) : x[i] = w[i]
  <2> SUFFICES ASSUME NEW i \in 1..Len(x) PROVE x[i] = w[i]
    OBVIOUS
  <2>1. i \in 1..Len(w) /\ w[i] = s[a + i - 1] /\ i \in 1..(Len(u) + Len(v))
    BY <1>1, <1>2, <1>3, <1>4, <1>5
  <2>2. CASE i <= Len(u)
    <3>1. i \in 1..Len(u)
      BY <1>1, <2>2
    <3>2. x[i] = u[i]
      BY <1>4, <2>1, <2>2
    <3> QED
      BY <1>1, <2>1, <3>1, <3>2
  <2>3. CASE ~(i <= Len(u))
    <3>1. i - Len(u) \in 1..Len(v) /\ b + (i - Len(u)) = a + i - 1
      BY <1>1, <1>2, <2>1, <2>3
    <3> QED
      BY <1>2, <1>4, <2>1, <2>3, <3>1
  <2> QED
    BY <2>2, <2>3
<1>7. x = w
  BY <1>3, <1>4, <1>5, <1>6, SeqEqual
<1> QED
  BY <1>7 DEF u, v, w, x

\* In a chunk there is a current byte, and the bytes available for the namespace
\* are within the chunk.
LEMMA Cursor ==
  ASSUME TypeOK, InChunk
  PROVE  /\ Offset \in Nat /\ Offset + 1 \in 1..Len(stream.bytes)
         /\ current_byte \in Byte
         /\ tag = "NAMESPACE" =>
              /\ Available \in Nat /\ Available <= chunk_size - chunk_index
              /\ Available <= len - pos
<1> USE ByteAssumption, ChunkAssumption
<1>1. /\ Offset \in Nat /\ Offset + 1 \in 1..Len(stream.bytes)
      /\ chunk_size - chunk_index \in Nat
  BY DEF TypeOK, InChunk, Offset
<1>2. current_byte \in Byte
  BY <1>1 DEF TypeOK, current_byte
<1>3. Remaining \in 0..(chunk_size - chunk_index)
  BY <1>1, RemainderBound DEF Remaining
<1>4. ASSUME tag = "NAMESPACE"
      PROVE  Available \in Nat /\ Available <= chunk_size - chunk_index /\ Available <= len - pos
  <2>1. len - pos \in Nat
    BY <1>4 DEF TypeOK, Byte
  <2> QED
    BY <1>1, <1>3, <2>1 DEF Available, Min2, Required
<1> QED
  BY <1>1, <1>2, <1>4

\* Resolving a name gives an entry of the registry or none.
LEMMA ResolveType ==
  ASSUME NEW name
  PROVE  Resolve(name) \in 0..Len(Namespaces)
<1>1. Matches(name, Namespaces) \subseteq 1..Len(Namespaces) /\ Len(Namespaces) \in Nat
  BY NamesAssumption DEF Matches
<1>2. CASE Matches(name, Namespaces) = {}
  BY <1>1, <1>2 DEF Resolve, FirstMatch
<1>3. CASE Matches(name, Namespaces) # {}
  <2> DEFINE Less == {ss \in Nat \X Nat : ss[1] < ss[2]}
  <2>1. IsWellFoundedOn(Less, Nat)
    BY NatLessThanWellFounded DEF OpToRel
  <2> HIDE DEF Less
  <2>2. \E i \in Matches(name, Namespaces) : \A j \in Matches(name, Namespaces) : ~(<<j, i>> \in Less)
    <3>1. Matches(name, Namespaces) \subseteq Nat
      BY <1>1
    <3> QED
      BY <3>1, <2>1, <1>3, WFMin
  <2>3. \E i \in Matches(name, Namespaces) : \A j \in Matches(name, Namespaces) : i <= j
    <3>1. PICK i \in Matches(name, Namespaces) : \A j \in Matches(name, Namespaces) : ~(<<j, i>> \in Less)
      BY <2>2
    <3>2. ASSUME NEW j \in Matches(name, Namespaces)
          PROVE  i <= j
      <4>1. i \in Nat /\ j \in Nat /\ ~(<<j, i>> \in Less)
        BY <1>1, <3>1
      <4>2. j < i => <<j, i>> \in Less
        BY <4>1 DEF Less
      <4> QED
        BY <4>1, <4>2
    <3> QED
      BY <3>1, <3>2
  <2>4. (CHOOSE i \in Matches(name, Namespaces) : \A j \in Matches(name, Namespaces) : i <= j) \in Matches(name, Namespaces)
    BY <2>3
  <2> QED
    BY <1>1, <1>3, <2>4 DEF Resolve, FirstMatch
<1> QED
  BY <1>2, <1>3

\* The copied part of a namespace continues what the buffer holds.
LEMMA CopiedIsInput ==
  ASSUME TypeOK, BufferIsInput, InChunk, tag = "NAMESPACE", pos <= Offset
  PROVE  /\ Copied = SubSeq(stream.bytes, Offset - pos + 1, Offset + Available)
         /\ Len(Copied) = pos + Available
<1>1. /\ stream.bytes \in Seq(Byte) /\ pos \in Nat /\ Offset \in Nat /\ Available \in Nat
      /\ Offset + Available <= Len(stream.bytes)
  <2>1. Available \in Nat /\ Available <= chunk_size - chunk_index /\ Offset \in Nat
    BY Cursor
  <2> QED
    BY <2>1 DEF TypeOK, Offset
<1>2. buffer = SubSeq(stream.bytes, Offset - pos + 1, Offset)
  BY DEF BufferIsInput
<1>3. Copied = SubSeq(stream.bytes, Offset - pos + 1, Offset + Available)
  BY <1>1, <1>2, SubSeqConcat DEF Copied
<1>4. Len(SubSeq(stream.bytes, Offset - pos + 1, Offset + Available)) = pos + Available
  BY <1>1
<1> QED
  BY <1>3, <1>4

\* A step that leaves the stream and the calls alone keeps HandledFromMessage.
LEMMA HandledKept ==
  ASSUME HandledFromMessage, stream' = stream, handled' = handled
  PROVE  HandledFromMessage'
  BY DEF HandledFromMessage, NameBefore, VersionBefore, FellThrough, At, Occurs

\* A step that consumes one byte moves the cursor by one, within the chunk.
LEMMA OneByte ==
  ASSUME TypeOK, InChunk, next_byte, UNCHANGED input
  PROVE  /\ Offset' = Offset + 1 /\ stream' = stream
         /\ base' = base /\ chunk_size' = chunk_size
         /\ chunk_index' \in 0..chunk_size
  BY ChunkAssumption DEF TypeOK, InChunk, next_byte, input, Offset

\* A restart leaves the parser at the magic bytes: at the second one if it was
\* given the current byte and that is the first one.
LEMMA Restarted ==
  ASSUME TypeOK, InChunk, next_byte, UNCHANGED input,
         NEW b \in {-1, current_byte}, restart(b)
  PROVE  /\ tag' = "MAGIC" /\ header_pos' \in 0..(Len(Magic) - 1)
         /\ len' = 0 /\ pos' = 0 /\ namespace' = 0
         /\ TagInv' /\ BufferIsInput'
<1>1. /\ tag' = "MAGIC" /\ len' = 0 /\ pos' = 0 /\ namespace' = 0
      /\ header_pos' = IF b = Magic[1] THEN 1 ELSE 0
  BY DEF restart, enter_state
<1>2. Len(Magic) \in Nat /\ Len(Magic) > 1 /\ Magic[1] \in Byte
  BY MagicAssumption
<1>3. header_pos' = 1 => current_byte = Magic[1]
  BY <1>1, <1>2, ByteAssumption DEF Byte
<1>4. Offset \in Nat /\ Offset' = Offset + 1 /\ stream' = stream
  BY Cursor, OneByte
<1>5. TagInv'
  <2>1. header_pos' <= Offset'
    BY <1>1, <1>4
  <2>2. ASSUME NEW i \in 1..header_pos'
        PROVE  stream.bytes'[Offset' - header_pos' + i] = Magic[i]
    <3>1. header_pos' = 1 /\ i = 1
      BY <1>1
    <3> QED
      BY <3>1, <1>3, <1>4 DEF current_byte
  <2> QED
    BY <2>1, <2>2, <1>1, <1>4 DEF TagInv
<1>6. BufferIsInput'
  BY <1>1 DEF BufferIsInput
<1> QED
  BY <1>1, <1>2, <1>5, <1>6

\* The initial states satisfy the inductive invariant.
LEMMA InitIInv == Init => IInv
<1> SUFFICES ASSUME Init PROVE IInv
  OBVIOUS
<1>1. TypeOK
  <2>1. stream.bytes \in Seq(Byte) /\ Len(stream.bytes) \in Nat
    BY StreamAssumption DEF Init
  <2>2. Len(Magic) \in Nat /\ Len(Magic) > 1 /\ Len(Namespaces) \in Nat
    BY MagicAssumption, NamesAssumption
  <2>3. handled \in Seq([namespace : 1..Len(Namespaces), id : Byte, at : Nat])
    BY DEF Init
  <2> QED
    BY <2>1, <2>2, <2>3, ByteAssumption, ChunkAssumption DEF Init, TypeOK, Tags, Byte
<1>2. BufferIsInput /\ TagInv
  BY DEF Init, BufferIsInput, TagInv, Offset
<1>3. HandledFromMessage
  BY DEF Init, HandledFromMessage
<1> QED
  BY <1>1, <1>2, <1>3 DEF IInv

\* recv() moves the base, not the cursor.
LEMMA ReceiveChunkIInv ==
  ASSUME IInv, NEW n \in 1..ChunkSize, ReceiveChunk(n)
  PROVE  IInv'
<1> USE DEF IInv
<1>1. UNCHANGED <<stream, parser, handled>> /\ Offset' = Offset
  BY DEF ReceiveChunk, TypeOK, InChunk, Offset
<1>2. TypeOK'
  <2>1. /\ base' \in Nat /\ chunk_size' \in 0..ChunkSize /\ chunk_index' \in 0..chunk_size'
        /\ base' + chunk_size' <= Len(stream.bytes)
    BY ChunkAssumption DEF ReceiveChunk, TypeOK
  <2> QED
    BY <1>1, <2>1 DEF TypeOK, parser
<1>3. BufferIsInput'
  BY <1>1 DEF BufferIsInput, parser
<1>4. TagInv'
  BY <1>1 DEF TagInv, parser, NameBefore, VersionBefore, FellThrough, At, Occurs
<1>5. HandledFromMessage'
  BY <1>1, HandledKept
<1> QED
  BY <1>2, <1>3, <1>4, <1>5

\* A byte of the magic was matched.
LEMMA MagicByteIInv ==
  ASSUME IInv, MagicByte
  PROVE  IInv'
<1> USE DEF IInv
<1>1. InChunk /\ tag = "MAGIC" /\ next_byte /\ UNCHANGED <<input, namespace, handled>>
  BY DEF MagicByte
<1>2. /\ Offset \in Nat /\ Offset + 1 <= Len(stream.bytes) /\ Len(stream.bytes) \in Nat
      /\ Offset' = Offset + 1 /\ stream' = stream
      /\ base' = base /\ chunk_size' = chunk_size /\ chunk_index' \in 0..chunk_size
  BY <1>1, Cursor, OneByte DEF TypeOK
<1>3. HandledFromMessage'
  BY <1>1, <1>2, HandledKept
<1>4. /\ header_pos \in Nat /\ header_pos <= Offset
      /\ Len(Magic) \in Nat /\ Len(Magic) > 1 /\ header_pos < Len(Magic)
      /\ stream.bytes[Offset + 1] = Magic[header_pos + 1]
      /\ \A i \in 1..header_pos : stream.bytes[Offset - header_pos + i] = Magic[i]
  BY <1>1, MagicAssumption DEF MagicByte, TypeOK, TagInv, current_byte
<1>5. \A i \in 1..(header_pos + 1) : stream.bytes[Offset - header_pos + i] = Magic[i]
  <2> SUFFICES ASSUME NEW i \in 1..(header_pos + 1)
               PROVE  stream.bytes[Offset - header_pos + i] = Magic[i]
    OBVIOUS
  <2>1. CASE i \in 1..header_pos
    BY <1>4, <2>1
  <2>2. CASE i = header_pos + 1
    <3>1. Offset - header_pos + i = Offset + 1
      BY <1>2, <1>4, <2>2
    <3> QED
      BY <1>4, <2>2, <3>1
  <2> QED
    BY <1>4, <2>1, <2>2
<1>6. CASE header_pos + 1 < Len(Magic)
  <2>1. header_pos' = header_pos + 1 /\ UNCHANGED <<tag, len, pos, buffer>>
    BY <1>6 DEF MagicByte
  <2>2. TypeOK'
    BY <1>1, <1>2, <1>4, <1>6, <2>1 DEF TypeOK
  <2>3. /\ tag' = "MAGIC" /\ header_pos' \in Nat /\ header_pos' <= Offset'
        /\ Offset' - header_pos' = Offset - header_pos
    <3>1. Offset \in Nat /\ Offset' = Offset + 1
      BY <1>2
    <3>2. header_pos \in Nat /\ header_pos <= Offset /\ header_pos' = header_pos + 1
      BY <1>4, <2>1
    <3>3. tag' = "MAGIC"
      BY <1>1, <2>1
    <3> HIDE DEF IInv
    <3> QED
      BY <3>1, <3>2, <3>3
  <2>4. \A i \in 1..header_pos' : stream'.bytes[Offset' - header_pos' + i] = Magic[i]
    BY <1>2, <1>5, <2>1, <2>3
  <2>5. TagInv'
    BY <2>3, <2>4 DEF TagInv
  <2> QED
    BY <1>1, <1>3, <2>1, <2>2, <2>5 DEF BufferIsInput
<1>7. CASE header_pos + 1 >= Len(Magic)
  <2>1. header_pos + 1 = Len(Magic)
    BY <1>4, <1>7
  <2>2. tag' = "PROTOCOL_VERSION" /\ header_pos' = 0 /\ len' = 0 /\ pos' = 0
    BY <1>4, <1>7 DEF MagicByte, enter_state
  <2>3. TypeOK'
    BY <1>1, <1>2, <1>4, <2>2, ByteAssumption DEF TypeOK, Tags, Byte
  <2>4. At(Magic, Offset - Len(Magic))'
    <3>1. Offset' - Len(Magic) = Offset - header_pos
      BY <1>2, <1>4, <2>1
    <3>2. At(Magic, Offset - header_pos)
      BY <1>2, <1>4, <1>5, <2>1 DEF At, Occurs
    <3> QED
      BY <3>1, <3>2, <1>2 DEF At, Occurs
  <2> QED
    BY <1>3, <2>2, <2>3, <2>4 DEF BufferIsInput, TagInv
<1> QED
  BY <1>4, <1>6, <1>7

\* A byte of the magic was not matched, or the namespace length was zero.
LEMMA MismatchIInv ==
  ASSUME IInv, MagicMismatch \/ NamespaceLenZero \/ NamespaceUnknown
  PROVE  IInv'
<1> USE DEF IInv
<1>1. /\ InChunk /\ next_byte /\ UNCHANGED <<input, handled>> /\ restart(current_byte)
  BY DEF MagicMismatch, NamespaceLenZero, NamespaceUnknown
<1>2. /\ tag' = "MAGIC" /\ header_pos' \in 0..(Len(Magic) - 1)
      /\ len' = 0 /\ pos' = 0 /\ namespace' = 0 /\ TagInv' /\ BufferIsInput'
  BY <1>1, Restarted
<1>3. /\ stream' = stream /\ base' = base /\ chunk_size' = chunk_size
      /\ chunk_index' \in 0..chunk_size
  BY <1>1, OneByte
<1>4. TypeOK'
  BY <1>1, <1>2, <1>3, ByteAssumption, NamesAssumption DEF TypeOK, Tags, Byte
<1> QED
  BY <1>1, <1>2, <1>3, <1>4, HandledKept

\* The version was matched.
LEMMA ProtocolVersionIInv ==
  ASSUME IInv, ProtocolVersion
  PROVE  IInv'
<1> USE DEF IInv
<1>1. /\ InChunk /\ tag = "PROTOCOL_VERSION" /\ next_byte /\ current_byte = Version
      /\ UNCHANGED <<input, namespace, handled>>
      /\ tag' = "NAMESPACE_LEN" /\ header_pos' = 0 /\ len' = 0 /\ pos' = 0
  BY DEF ProtocolVersion, enter_state
<1>2. /\ Offset \in Nat /\ Offset' = Offset + 1 /\ stream' = stream
      /\ base' = base /\ chunk_size' = chunk_size /\ chunk_index' \in 0..chunk_size
  BY <1>1, Cursor, OneByte
<1>3. Len(Magic) \in Nat /\ Len(Magic) > 1
  BY MagicAssumption
<1>4. TypeOK'
  BY <1>1, <1>2, <1>3, ByteAssumption DEF TypeOK, Tags, Byte
<1>5. VersionBefore(Offset)'
  <2>1. At(Magic, Offset - Len(Magic)) /\ stream.bytes[Offset + 1] = Version
    BY <1>1 DEF TagInv, FellThrough, current_byte
  <2>2. Offset' - 1 - Len(Magic) = Offset - Len(Magic)
    BY <1>2, <1>3
  <2> QED
    BY <1>2, <2>1, <2>2 DEF VersionBefore, FellThrough, At, Occurs
<1>6. TagInv' /\ BufferIsInput'
  BY <1>1, <1>5 DEF TagInv, BufferIsInput
<1> QED
  BY <1>1, <1>2, <1>4, <1>6, HandledKept

\* The namespace length was read, after the version or in place of it.
LEMMA NamespaceLenIInv ==
  ASSUME IInv, InChunk, tag \in {"PROTOCOL_VERSION", "NAMESPACE_LEN"}, current_byte # 0,
         tag = "PROTOCOL_VERSION" => current_byte # Version,
         enter_state("NAMESPACE", current_byte), next_byte,
         UNCHANGED <<input, namespace, handled>>
  PROVE  IInv'
<1> USE DEF IInv
<1>1. /\ tag' = "NAMESPACE" /\ header_pos' = 0 /\ len' = current_byte /\ pos' = 0
      /\ buffer' = <<>>
  BY DEF enter_state
<1>2. /\ Offset \in Nat /\ Offset' = Offset + 1 /\ stream' = stream /\ current_byte \in Byte
      /\ base' = base /\ chunk_size' = chunk_size /\ chunk_index' \in 0..chunk_size
      /\ Offset + 1 <= Len(stream.bytes) /\ stream.bytes \in Seq(Byte)
  BY Cursor, OneByte DEF TypeOK
<1>3. Len(Magic) \in Nat /\ Len(Magic) > 1
  BY MagicAssumption
<1>4. TypeOK'
  BY <1>1, <1>2, <1>3, ByteAssumption DEF TypeOK, Tags, Byte
<1>5. BufferIsInput'
  BY <1>1, <1>2 DEF BufferIsInput
<1>6. TagInv'
  <2>1. /\ VersionBefore(Offset) \/ FellThrough(Offset)
        /\ stream.bytes[Offset + 1] = len'
    BY <1>1 DEF TagInv, FellThrough, current_byte
  <2>2. Offset' - pos' - 1 = Offset
    BY <1>1, <1>2
  <2>3. LET p == Offset' - pos' - 1
        IN  /\ VersionBefore(p) \/ FellThrough(p)
            /\ stream.bytes[p + 1] = len'
    BY <2>1, <2>2
  <2> QED
    BY <1>1, <1>2, <2>3 DEF TagInv, At, Occurs, VersionBefore, FellThrough
<1> QED
  BY <1>2, <1>4, <1>5, <1>6, HandledKept

\* Another version is either zero or taken for the namespace length.
LEMMA OtherVersionIInv ==
  ASSUME IInv, OtherVersion
  PROVE  IInv'
<1>1. CASE current_byte # 0
  BY <1>1, NamespaceLenIInv DEF OtherVersion
<1>2. CASE current_byte = 0
  <2> USE DEF IInv
  <2>1. /\ InChunk /\ next_byte /\ UNCHANGED <<input, handled>> /\ restart(current_byte)
    BY <1>2 DEF OtherVersion
  <2>2. /\ tag' = "MAGIC" /\ header_pos' \in 0..(Len(Magic) - 1)
        /\ len' = 0 /\ pos' = 0 /\ namespace' = 0 /\ TagInv' /\ BufferIsInput'
    BY <2>1, Restarted
  <2>3. /\ stream' = stream /\ base' = base /\ chunk_size' = chunk_size
        /\ chunk_index' \in 0..chunk_size
    BY <2>1, OneByte
  <2>4. TypeOK'
    BY <2>1, <2>2, <2>3, ByteAssumption, NamesAssumption DEF TypeOK, Tags, Byte
  <2> QED
    BY <2>1, <2>2, <2>3, <2>4, HandledKept
<1> QED
  BY <1>1, <1>2

\* In the namespace, the bytes copied so far lie before the cursor.
LEMMA NamespaceCursor ==
  ASSUME TypeOK, TagInv, tag = "NAMESPACE"
  PROVE  pos \in Nat /\ len \in Nat /\ pos < len /\ Offset \in Nat /\ pos + 1 + Len(Magic) <= Offset
<1>1. pos \in Nat /\ len \in Nat /\ pos < len /\ Offset \in Nat
  BY DEF TypeOK, Byte, Offset
<1>2. Len(Magic) \in Nat
  BY MagicAssumption
<1>3. VersionBefore(Offset - pos - 1) \/ FellThrough(Offset - pos - 1)
  BY DEF TagInv
<1> QED
  BY <1>1, <1>2, <1>3 DEF VersionBefore, FellThrough, At, Occurs

\* Part of the namespace was copied.
LEMMA NamespacePartIInv ==
  ASSUME IInv, NamespacePart
  PROVE  IInv'
<1> USE DEF IInv
<1>1. /\ InChunk /\ tag = "NAMESPACE" /\ pos + Available < len
      /\ pos' = pos + Available /\ buffer' = Copied
      /\ chunk_index' = chunk_index + Available
      /\ UNCHANGED <<input, tag, header_pos, len, namespace, handled>>
  BY DEF NamespacePart
<1>2. /\ pos \in Nat /\ len \in Nat /\ Offset \in Nat /\ pos <= Offset
      /\ Available \in Nat /\ Available <= chunk_size - chunk_index
  <2>1. Len(Magic) \in Nat
    BY MagicAssumption
  <2> QED
    BY <1>1, <2>1, NamespaceCursor, Cursor
<1>3. Offset' = Offset + Available /\ stream' = stream
  BY <1>1, <1>2 DEF Offset, input, TypeOK
<1>4. TypeOK'
  <2>1. chunk_index' \in 0..chunk_size'
    BY <1>1, <1>2, ChunkAssumption DEF TypeOK, input
  <2> QED
    BY <1>1, <1>2, <2>1 DEF TypeOK, input
<1>5. BufferIsInput'
  <2>1. Copied = SubSeq(stream.bytes, Offset - pos + 1, Offset + Available)
        /\ Len(Copied) = pos + Available
    BY <1>1, <1>2, CopiedIsInput
  <2>2. Offset' - pos' + 1 = Offset - pos + 1
    BY <1>1, <1>2, <1>3
  <2> QED
    BY <1>1, <1>3, <2>1, <2>2 DEF BufferIsInput
<1>6. TagInv'
  <2>1. Offset' - pos' - 1 = Offset - pos - 1
    BY <1>1, <1>2, <1>3
  <2> QED
    BY <1>1, <1>3, <2>1 DEF TagInv, At, Occurs, VersionBefore, FellThrough
<1> QED
  BY <1>1, <1>3, <1>4, <1>5, <1>6, HandledKept

\* The namespace was resolved.
LEMMA NamespaceResolvedIInv ==
  ASSUME IInv, NamespaceResolved
  PROVE  IInv'
<1> USE DEF IInv
<1>1. /\ InChunk /\ tag = "NAMESPACE" /\ pos + Available >= len
      /\ Resolve(Copied) # 0 /\ namespace' = Resolve(Copied)
      /\ chunk_index' = chunk_index + Available
      /\ UNCHANGED <<input, handled>>
      /\ tag' = "COMMAND_ID" /\ header_pos' = 0 /\ len' = 0 /\ pos' = 0
  BY DEF NamespaceResolved, enter_state
<1>2. Len(Magic) \in Nat /\ Len(Magic) > 1
  BY MagicAssumption
<1>3. /\ pos \in Nat /\ len \in Nat /\ Offset \in Nat /\ pos <= Offset /\ pos < len
      /\ Available \in Nat /\ Available <= chunk_size - chunk_index /\ Available <= len - pos
  BY <1>1, <1>2, NamespaceCursor, Cursor
<1>4. Offset' = Offset + Available /\ stream' = stream /\ pos + Available = len
  BY <1>1, <1>3 DEF Offset, input, TypeOK
<1>5. TypeOK'
  <2>1. chunk_index' \in 0..chunk_size'
    BY <1>1, <1>3, ChunkAssumption DEF TypeOK, input
  <2>2. namespace' \in 0..Len(Namespaces) /\ namespace' # 0
    BY <1>1, ResolveType
  <2> QED
    BY <1>1, <1>2, <1>3, <2>1, <2>2, ByteAssumption DEF TypeOK, input, Tags, Byte
<1>6. NameBefore(Offset, namespace)'
  <2>1. Copied = SubSeq(stream.bytes, Offset - pos + 1, Offset + Available)
    BY <1>1, <1>3, CopiedIsInput
  <2>2. len \in 1..(ByteMod - 1)
    BY <1>3, ByteAssumption DEF TypeOK, Byte
  <2> DEFINE p == Offset - pos - 1
  <2>3. p = Offset' - len - 1 /\ p + 2 = Offset - pos + 1
    BY <1>3, <1>4
  <2>4. /\ VersionBefore(p) \/ FellThrough(p)
        /\ stream.bytes[p + 1] = len
    BY <1>1 DEF TagInv
  <2>5. Resolve(SubSeq(stream.bytes, p + 2, Offset')) = namespace'
    BY <1>1, <1>4, <2>1, <2>3
  <2> HIDE DEF p
  <2>6. LET q == Offset' - len - 1
        IN  /\ VersionBefore(q) \/ FellThrough(q)
            /\ stream.bytes[q + 1] = len
            /\ Resolve(SubSeq(stream.bytes, q + 2, Offset')) = namespace'
    BY <2>3, <2>4, <2>5
  <2> QED
    BY <1>4, <2>2, <2>6 DEF NameBefore, At, Occurs, VersionBefore, FellThrough
<1>7. TagInv' /\ BufferIsInput'
  BY <1>1, <1>6 DEF TagInv, BufferIsInput
<1> QED
  BY <1>1, <1>4, <1>5, <1>7, HandledKept

\* A command was handled.
LEMMA CommandIdIInv ==
  ASSUME IInv, CommandId
  PROVE  IInv'
<1> USE DEF IInv
<1> DEFINE h == [namespace |-> namespace, id |-> current_byte, at |-> Offset + 1]
           R == [namespace : 1..Len(Namespaces), id : Byte, at : Nat]
<1>1. /\ InChunk /\ tag = "COMMAND_ID" /\ next_byte /\ UNCHANGED input /\ restart(-1)
      /\ handled' = Append(handled, h)
  BY DEF CommandId
<1>2. /\ tag' = "MAGIC" /\ header_pos' \in 0..(Len(Magic) - 1)
      /\ len' = 0 /\ pos' = 0 /\ namespace' = 0 /\ TagInv' /\ BufferIsInput'
  BY <1>1, Restarted
<1>3. /\ stream' = stream /\ base' = base /\ chunk_size' = chunk_size
      /\ chunk_index' \in 0..chunk_size /\ Offset \in Nat /\ current_byte \in Byte
  BY <1>1, OneByte, Cursor
<1>4. handled \in Seq(R) /\ h \in R
  BY <1>1, <1>3, NamesAssumption DEF TypeOK
<1>5. /\ handled' \in Seq(R)
      /\ DOMAIN handled' = 1..(Len(handled) + 1) /\ DOMAIN handled = 1..Len(handled)
      /\ Len(handled) \in Nat
      /\ \A i \in 1..Len(handled) : handled'[i] = handled[i]
      /\ handled'[Len(handled) + 1] = h
  BY <1>1, <1>4
<1>6. TypeOK'
  <2>1. /\ stream.bytes \in Seq(Byte) /\ base \in Nat /\ chunk_size \in 0..ChunkSize
        /\ base + chunk_size <= Len(stream.bytes)
    BY DEF TypeOK
  <2>2. tag' \in Tags /\ len' \in Byte /\ pos' \in Nat
    BY <1>2, ByteAssumption DEF Tags, Byte
  <2>3. namespace' \in 0..Len(Namespaces)
    BY <1>2, NamesAssumption
  <2> QED
    BY <1>2, <1>3, <1>5, <2>1, <2>2, <2>3 DEF TypeOK
<1>7. HandledFromMessage'
  <2> SUFFICES ASSUME NEW i \in DOMAIN handled'
               PROVE  /\ NameBefore(handled[i].at - 1, handled[i].namespace)'
                      /\ stream.bytes'[handled'[i].at] = handled'[i].id
    BY DEF HandledFromMessage
  <2>1. CASE i \in DOMAIN handled
    <3>1. handled'[i] = handled[i]
      BY <2>1, <1>5
    <3>2. NameBefore(handled[i].at - 1, handled[i].namespace)
          /\ stream.bytes[handled[i].at] = handled[i].id
      BY <2>1 DEF HandledFromMessage
    <3> QED
      BY <3>1, <3>2, <1>3 DEF NameBefore, At, Occurs, VersionBefore, FellThrough
  <2>2. CASE i \notin DOMAIN handled
    <3>1. handled'[i] = h
      BY <2>2, <1>5
    <3>2. handled'[i].at - 1 = Offset /\ handled'[i].namespace = namespace
          /\ handled'[i].at = Offset + 1 /\ handled'[i].id = stream.bytes[Offset + 1]
      BY <3>1, <1>3 DEF current_byte
    <3>3. NameBefore(Offset, namespace)
      BY <1>1 DEF TagInv
    <3> QED
      BY <3>2, <3>3, <1>3 DEF NameBefore, At, Occurs, VersionBefore, FellThrough
  <2> QED
    BY <2>1, <2>2
<1> QED
  BY <1>2, <1>6, <1>7

\* Every step keeps the inductive invariant.
LEMMA NextIInv == IInv /\ [Next]_vars => IInv'
<1> SUFFICES ASSUME IInv, [Next]_vars PROVE IInv'
  OBVIOUS
<1>1. CASE UNCHANGED vars
  BY <1>1 DEF vars, input, parser, IInv, TypeOK, BufferIsInput, TagInv, HandledFromMessage,
              NameBefore, VersionBefore, FellThrough, At, Occurs, Offset
<1>2. ASSUME NEW n \in 1..ChunkSize, ReceiveChunk(n)
      PROVE  IInv'
  BY <1>2, ReceiveChunkIInv
<1>3. CASE MagicByte
  BY <1>3, MagicByteIInv
<1>4. CASE MagicMismatch \/ NamespaceLenZero \/ NamespaceUnknown
  BY <1>4, MismatchIInv
<1>5. CASE ProtocolVersion
  BY <1>5, ProtocolVersionIInv
<1>6. CASE OtherVersion
  BY <1>6, OtherVersionIInv
<1>7. CASE NamespaceLen
  BY <1>7, NamespaceLenIInv DEF NamespaceLen
<1>8. CASE NamespacePart
  BY <1>8, NamespacePartIInv
<1>9. CASE NamespaceResolved
  BY <1>9, NamespaceResolvedIInv
<1>10. CASE CommandId
  BY <1>10, CommandIdIInv
<1> QED
  BY <1>1, <1>2, <1>3, <1>4, <1>5, <1>6, <1>7, <1>8, <1>9, <1>10 DEF Next, ParserStep

\* The inductive invariant holds in every reachable state.
THEOREM ParserIInv == Spec => []IInv
  BY InitIInv, NextIInv, PTL DEF Spec

\* The documented invariants of the parser state (header_pos, the namespace
\* length and position) hold for every stream, chunking, magic and registry.
THEOREM ParserTypeOK == Spec => []TypeOK
  BY ParserIInv, PTL DEF IInv

\* The namespace buffer holds the bytes before the cursor, however many chunks
\* they came in.
THEOREM ParserBufferIsInput == Spec => []BufferIsInput
  BY ParserIInv, PTL DEF IInv

\* No command is handled that is not the end of a message in the stream.
THEOREM ParserHandledFromMessage == Spec => []HandledFromMessage
  BY ParserIInv, PTL DEF IInv

-----------------------------------------------------------------------------
(* Commands as sent *)

\* Where the message of a command begins, and how many commands there are.
Start(i) == stream.at[i]
Commands == Len(stream.at)
Handled  == Len(handled)
Pending  == (Handled + 1)..Commands

\* The handled messages end before the first p bytes do, and the others begin after them.
Between(p) ==
  /\ \A i \in 1..Handled : NameEnd(stream.bytes, Start(i)) < p
  /\ \A i \in Pending : p <= Start(i)

\* The parser has read, of what begins after the first p bytes, what its tag says.
Reading(p) ==
  /\ tag = "MAGIC" =>
       p = Offset - header_pos /\ \A i \in Pending : Start(i) = p \/ Start(i) >= Offset
  /\ tag # "MAGIC" => Occurs(Magic, stream.bytes, p)
  /\ tag = "PROTOCOL_VERSION" => Offset = p + Len(Magic)
  /\ tag = "NAMESPACE_LEN" => Offset = p + Len(Magic) + 1 /\ HasVersion(stream.bytes, p)
  /\ tag = "NAMESPACE" =>
       Offset - pos = LenAt(stream.bytes, p) /\ len = NameLen(stream.bytes, p)
  /\ tag = "COMMAND_ID" =>
       /\ Offset = NameEnd(stream.bytes, p) /\ NameLen(stream.bytes, p) # 0
       /\ namespace = Resolve(NameAt(stream.bytes, p))

\* The commands handled are the first ones sent.
HandledAsSent ==
  /\ Handled <= Commands
  /\ \A i \in 1..Handled :
       /\ handled[i].namespace = stream.commands[i].namespace
       /\ handled[i].id = stream.commands[i].id

SentInv == HandledAsSent /\ \E p \in Nat : Between(p) /\ Reading(p)

\* What the operators on a message give.
LEMMA MessageFacts ==
  ASSUME NEW b \in Seq(Byte), NEW p \in Nat
  PROVE  /\ Len(Magic) \in Nat /\ Len(Magic) > 1
         /\ HasVersion(b, p) => LenAt(b, p) = p + Len(Magic) + 2
         /\ ~HasVersion(b, p) => LenAt(b, p) = p + Len(Magic) + 1
         /\ LenAt(b, p) > p + Len(Magic)
         /\ LenAt(b, p) \in Nat /\ NameLen(b, p) \in Nat
         /\ NameEnd(b, p) \in Nat /\ NameEnd(b, p) = LenAt(b, p) + NameLen(b, p)
<1>1. Len(Magic) \in Nat /\ Len(Magic) > 1
  BY MagicAssumption
<1>2. /\ HasVersion(b, p) => LenAt(b, p) = p + Len(Magic) + 2
      /\ ~HasVersion(b, p) => LenAt(b, p) = p + Len(Magic) + 1
  BY DEF LenAt
<1>3. LenAt(b, p) \in Nat /\ LenAt(b, p) >= 1
  BY <1>1, <1>2
<1>4. NameLen(b, p) \in Byte
  <2>1. Len(b) \in Nat /\ \A q \in 1..Len(b) : b[q] \in Byte
    OBVIOUS
  <2>2. 0 \in Byte
    BY ByteAssumption DEF Byte
  <2>3. CASE LenAt(b, p) <= Len(b)
    BY <1>3, <2>1, <2>3 DEF NameLen, ByteAt
  <2>4. CASE ~(LenAt(b, p) <= Len(b))
    BY <2>2, <2>4 DEF NameLen, ByteAt
  <2> QED
    BY <2>3, <2>4
<1>5. NameLen(b, p) \in Nat
  BY <1>4, ByteAssumption DEF Byte
<1> QED
  BY <1>1, <1>2, <1>3, <1>5 DEF NameEnd

\* What the control client sends for a command is a message as Sent describes one:
\* the version, the name and the command id are found where it put them, and it is
\* no command only if the name is not registered.
THEOREM EncodedMessage ==
  ASSUME NEW b \in Seq(Byte), NEW p \in Nat, NEW name \in Seq(Byte), NEW id \in Byte,
         Len(name) \in 1..(ByteMod - 1), Occurs(Encode(name, id), b, p)
  PROVE  /\ Occurs(Magic, b, p) /\ HasVersion(b, p)
         /\ NameAt(b, p) = name
         /\ NameEnd(b, p) < Len(b) /\ b[NameEnd(b, p) + 1] = id
         /\ Ignored(b, p) <=> Resolve(name) = 0
<1> DEFINE e == Encode(name, id)
           h == Magic \o <<Version, Len(name)>>
           m == Len(Magic)
           k == Len(name)
           g == h \o name
<1>1. m \in Nat /\ k \in Nat /\ k # 0 /\ Len(b) \in Nat /\ Magic \in Seq(Byte)
  BY MagicAssumption, ByteAssumption
<1>2. <<Version, k>> \in Seq(Byte) /\ Len(<<Version, k>>) = 2 /\ <<id>> \in Seq(Byte) /\ Len(<<id>>) = 1
  <2>1. Version \in Byte /\ k \in Byte
    BY ByteAssumption DEF Byte
  <2> QED
    BY <2>1
<1>3. /\ h \in Seq(Byte) /\ Len(h) = m + 2
      /\ \A i \in 1..m : h[i] = Magic[i]
      /\ h[m + 1] = Version /\ h[m + 2] = k
  BY <1>1, <1>2, ConcatProperties
<1> HIDE DEF h
<1>4. /\ g \in Seq(Byte) /\ Len(g) = m + 2 + k
      /\ \A i \in 1..(m + 2 + k) : g[i] = IF i <= m + 2 THEN h[i] ELSE name[i - (m + 2)]
  <2>1. /\ g \in Seq(Byte) /\ Len(g) = Len(h) + k
        /\ \A i \in 1..(Len(h) + k) : g[i] = IF i <= Len(h) THEN h[i] ELSE name[i - Len(h)]
    BY <1>3, ConcatProperties
  <2> HIDE DEF g, m, k
  <2> QED
    BY <1>3, <2>1, Zenon
<1>5. e = g \o <<id>>
  BY DEF Encode, h
<1> HIDE DEF e, g
<1>6. /\ Len(e) = m + 3 + k
      /\ \A i \in 1..(m + 3 + k) : e[i] = IF i <= m + 2 + k THEN g[i] ELSE <<id>>[i - (m + 2 + k)]
  <2> DEFINE t == <<id>>
  <2>1. t \in Seq(Byte) /\ Len(t) = 1
    BY <1>2
  <2> HIDE DEF t
  <2>2. /\ Len(e) = Len(g) + 1
        /\ \A i \in 1..(Len(g) + 1) : e[i] = IF i <= Len(g) THEN g[i] ELSE t[i - Len(g)]
    <3>1. e = g \o t /\ g \in Seq(Byte)
      BY <1>4, <1>5 DEF t
    <3>2. /\ Len(g \o t) = Len(g) + Len(t)
          /\ \A i \in 1..(Len(g) + Len(t)) : (g \o t)[i] = IF i <= Len(g) THEN g[i] ELSE t[i - Len(g)]
      BY <2>1, <3>1, ConcatProperties, Zenon
    <3> QED
      BY <2>1, <3>1, <3>2, Zenon
  <2> HIDE DEF m, k
  <2>3. m + 2 + k + 1 = m + 3 + k
    BY <1>1
  <2> QED
    BY <1>4, <2>2, <2>3, Zenon DEF t
<1>7. /\ p + (m + 3 + k) <= Len(b)
      /\ \A i \in 1..(m + 3 + k) : b[p + i] = e[i]
  BY <1>1, <1>6 DEF Occurs, e
<1> HIDE DEF m, k
<1>8. ASSUME NEW i \in 1..(m + 2) PROVE b[p + i] = h[i]
  <2>1. i \in 1..(m + 3 + k) /\ i \in 1..(m + 2 + k) /\ i <= m + 2 /\ i <= m + 2 + k
    BY <1>1
  <2> QED
    BY <1>4, <1>6, <1>7, <2>1
<1>9. ASSUME NEW i \in 1..k PROVE b[p + m + 2 + i] = name[i]
  <2> DEFINE j == m + 2 + i
  <2>1. /\ j \in 1..(m + 3 + k) /\ j \in 1..(m + 2 + k) /\ ~(j <= m + 2) /\ j <= m + 2 + k
        /\ j - (m + 2) = i /\ p + j = p + m + 2 + i
    BY <1>1
  <2> HIDE DEF j
  <2>2. b[p + j] = name[j - (m + 2)]
    BY <1>4, <1>6, <1>7, <2>1
  <2> QED
    BY <2>1, <2>2
<1>10. b[p + (m + 3 + k)] = id
  <2> DEFINE j == m + 3 + k
  <2>1. j \in 1..(m + 3 + k) /\ ~(j <= m + 2 + k) /\ j - (m + 2 + k) = 1
    BY <1>1
  <2> HIDE DEF j
  <2>2. b[p + j] = <<id>>[j - (m + 2 + k)]
    BY <1>6, <1>7, <2>1
  <2> QED
    BY <2>1, <2>2 DEF j
<1>11. Occurs(Magic, b, p)
  <2>1. \A i \in 1..m : b[p + i] = Magic[i]
    BY <1>1, <1>3, <1>8
  <2> QED
    <3>1. p + m <= Len(b)
      BY <1>1, <1>7
    <3> QED
      BY <2>1, <3>1 DEF Occurs, m
<1>12. b[p + m + 1] = Version /\ b[p + m + 2] = k
  <2>1. m + 1 \in 1..(m + 2) /\ m + 2 \in 1..(m + 2)
    BY <1>1
  <2>2. b[p + (m + 1)] = Version /\ b[p + (m + 2)] = k
    BY <1>3, <2>1, <1>8
  <2>3. p + (m + 1) = p + m + 1 /\ p + (m + 2) = p + m + 2
    BY <1>1
  <2> QED
    BY <2>2, <2>3
<1>13. HasVersion(b, p) /\ LenAt(b, p) = p + m + 2
  BY <1>1, <1>7, <1>12 DEF HasVersion, ByteAt, LenAt, m
<1>14. NameLen(b, p) = k /\ NameEnd(b, p) = p + m + 2 + k
  BY <1>1, <1>7, <1>12, <1>13 DEF NameLen, ByteAt, NameEnd
<1>15. NameAt(b, p) = name
  <2> DEFINE w == SubSeq(b, p + m + 3, p + m + 2 + k)
  <2>1. w \in Seq(Byte) /\ Len(w) = k /\ \A i \in 1..k : w[i] = b[p + m + 2 + i]
    BY <1>1, <1>7
  <2>3. NameAt(b, p) = w
    BY <1>1, <1>13, <1>14 DEF NameAt
  <2> HIDE DEF w
  <2> QED
    BY <2>1, <2>3, <1>9, SeqEqual DEF k
<1>16. NameEnd(b, p) < Len(b) /\ b[NameEnd(b, p) + 1] = id
  <2>1. p + (m + 3 + k) = NameEnd(b, p) + 1
    BY <1>1, <1>14
  <2> QED
    BY <1>1, <1>7, <1>14, <1>10, <2>1
<1>17. Ignored(b, p) <=> Resolve(name) = 0
  BY <1>1, <1>7, <1>14, <1>15 DEF Ignored
<1> QED
  BY <1>11, <1>13, <1>15, <1>16, <1>17

\* What a sent stream says of the messages of its commands.
LEMMA SentFacts ==
  ASSUME TypeOK, Sent(stream)
  PROVE  /\ Commands \in Nat /\ Len(stream.commands) = Commands
         /\ stream.commands \in Seq([namespace : Nat, id : Byte])
         /\ \A i \in 1..Commands :
              /\ Start(i) \in Nat
              /\ Occurs(Magic, stream.bytes, Start(i)) /\ HasVersion(stream.bytes, Start(i))
              /\ ~Ignored(stream.bytes, Start(i))
              /\ NameEnd(stream.bytes, Start(i)) < Len(stream.bytes)
              /\ stream.commands[i].namespace = Resolve(NameAt(stream.bytes, Start(i)))
              /\ stream.commands[i].id = stream.bytes[NameEnd(stream.bytes, Start(i)) + 1]
              /\ \A j \in (i + 1)..Commands : NameEnd(stream.bytes, Start(i)) < Start(j)
         /\ \A p \in 0..Len(stream.bytes) :
              /\ Occurs(Magic, stream.bytes, p)
              /\ \A i \in 1..Commands : p < Start(i) \/ p > NameEnd(stream.bytes, Start(i))
              => /\ Ignored(stream.bytes, p)
                 /\ \A i \in 1..Commands : p < Start(i) => NameEnd(stream.bytes, p) <= Start(i)
<1>1. stream.at \in Seq(Nat)
  BY DEF Sent
<1>2. Commands \in Nat /\ \A i \in 1..Commands : Start(i) \in Nat
  BY <1>1 DEF Commands, Start
<1> QED
  BY <1>2 DEF Sent, Commands, Start

\* Magic bytes between the handled messages and the others are those of the next
\* message, or they begin no command and what follows them ends before the next one.
LEMMA NextOrIgnored ==
  ASSUME TypeOK, Sent(stream), Handled <= Commands, NEW p \in Nat, Between(p),
         Occurs(Magic, stream.bytes, p)
  PROVE  \/ Handled + 1 \in Pending /\ p = Start(Handled + 1)
         \/ Ignored(stream.bytes, p) /\ \A i \in Pending : NameEnd(stream.bytes, p) <= Start(i)
<1>1. /\ Handled \in Nat /\ Commands \in Nat /\ Len(stream.bytes) \in Nat
      /\ stream.bytes \in Seq(Byte)
  BY SentFacts DEF TypeOK, Handled
<1>2. \A i \in 1..Commands : Start(i) \in Nat /\ Start(i) <= NameEnd(stream.bytes, Start(i))
  <2> SUFFICES ASSUME NEW i \in 1..Commands
               PROVE  Start(i) \in Nat /\ Start(i) <= NameEnd(stream.bytes, Start(i))
    OBVIOUS
  <2>1. Start(i) \in Nat
    BY SentFacts
  <2>2. /\ Len(Magic) \in Nat /\ LenAt(stream.bytes, Start(i)) > Start(i) + Len(Magic)
        /\ LenAt(stream.bytes, Start(i)) \in Nat /\ NameLen(stream.bytes, Start(i)) \in Nat
        /\ NameEnd(stream.bytes, Start(i)) = LenAt(stream.bytes, Start(i)) + NameLen(stream.bytes, Start(i))
    BY <1>1, <2>1, MessageFacts
  <2> QED
    BY <2>1, <2>2
<1>3. CASE \E i \in Pending : p = Start(i)
  <2>1. PICK i \in Pending : p = Start(i)
    BY <1>3
  <2>2. Handled + 1 \in Pending /\ Handled + 1 \in 1..Commands /\ i \in 1..Commands
        /\ p <= Start(Handled + 1)
    BY <1>1, <2>1 DEF Pending, Between
  <2>3. ASSUME i # Handled + 1
        PROVE  FALSE
    <3>1. i \in (Handled + 1 + 1)..Commands
      BY <1>1, <2>1, <2>3 DEF Pending
    <3>2. NameEnd(stream.bytes, Start(Handled + 1)) < Start(i)
      BY <2>2, <3>1, SentFacts
    <3>3. NameEnd(stream.bytes, Start(Handled + 1)) \in Nat
      BY <1>1, <1>2, <2>2, MessageFacts
    <3> QED
      BY <1>2, <2>1, <2>2, <3>2, <3>3
  <2> QED
    BY <2>1, <2>2, <2>3
<1>4. CASE \A i \in Pending : p # Start(i)
  <2>1. \A i \in Pending : p < Start(i) /\ i \in 1..Commands
    BY <1>1, <1>2, <1>4 DEF Between, Pending
  <2>2. \A i \in 1..Commands : p < Start(i) \/ p > NameEnd(stream.bytes, Start(i))
    <3> SUFFICES ASSUME NEW i \in 1..Commands
                 PROVE  p < Start(i) \/ p > NameEnd(stream.bytes, Start(i))
      OBVIOUS
    <3>1. NameEnd(stream.bytes, Start(i)) \in Nat
      BY <1>1, <1>2, MessageFacts
    <3>2. i \in 1..Handled \/ i \in Pending
      BY <1>1 DEF Pending
    <3> QED
      BY <2>1, <3>1, <3>2 DEF Between
  <2>3. p \in 0..Len(stream.bytes)
    BY <1>1, MagicAssumption DEF Occurs
  <2> QED
    BY <2>1, <2>2, <2>3, SentFacts
<1> QED
  BY <1>3, <1>4

\* Past the magic bytes, the cursor is not behind the end of the name.
LEMMA PastMagic ==
  ASSUME IInv, NEW p \in Nat, Reading(p), tag # "MAGIC"
  PROVE  p + Len(Magic) <= Offset /\ Offset <= NameEnd(stream.bytes, p)
<1>1. Offset \in Nat /\ stream.bytes \in Seq(Byte) /\ pos \in Nat /\ len \in Byte
      /\ (tag = "NAMESPACE" => pos < len) /\ tag \in Tags
  BY DEF IInv, TypeOK, Offset
<1>2. len \in Nat
  BY <1>1, ByteAssumption DEF Byte
<1>3. /\ Len(Magic) \in Nat /\ LenAt(stream.bytes, p) > p + Len(Magic)
      /\ HasVersion(stream.bytes, p) => LenAt(stream.bytes, p) = p + Len(Magic) + 2
      /\ LenAt(stream.bytes, p) \in Nat /\ NameLen(stream.bytes, p) \in Nat
      /\ NameEnd(stream.bytes, p) = LenAt(stream.bytes, p) + NameLen(stream.bytes, p)
  BY <1>1, MessageFacts
<1> QED
  BY <1>1, <1>2, <1>3 DEF Reading, Tags

\* A step that handles no command keeps the place of the message it reads.
LEMMA KeptAsSent ==
  ASSUME HandledAsSent, NEW p \in Nat, Between(p), stream' = stream, handled' = handled,
         Reading(p)'
  PROVE  SentInv'
<1>1. HandledAsSent' /\ Between(p)'
  BY DEF HandledAsSent, Between, Handled, Commands, Pending, Start
<1> QED
  BY <1>1 DEF SentInv

\* A restart at the current byte, when the messages of the commands are before it or
\* not: it is then their first byte.
LEMMA RestartAsSent ==
  ASSUME IInv, Sent(stream), HandledAsSent, InChunk, next_byte, restart(current_byte),
         UNCHANGED <<input, handled>>,
         \A i \in 1..Handled : NameEnd(stream.bytes, Start(i)) < Offset,
         \A i \in Pending : Offset <= Start(i)
  PROVE  SentInv'
<1> USE DEF IInv
<1>1. /\ tag' = "MAGIC" /\ Offset \in Nat /\ Offset' = Offset + 1 /\ stream' = stream
      /\ handled' = handled
      /\ header_pos' = IF current_byte = Magic[1] THEN 1 ELSE 0
  BY Cursor, OneByte DEF restart, enter_state
<1>2. Handled \in Nat /\ Commands \in Nat /\ stream.bytes \in Seq(Byte)
  BY SentFacts DEF TypeOK, Handled
<1>3. PICK p \in Nat : p = Offset' - header_pos' /\ p >= Offset /\ p <= Offset + 1
  BY <1>1
<1>4. ASSUME NEW i \in Pending
      PROVE  Start(i) = p \/ Start(i) >= Offset + 1
  <2>1. i \in 1..Commands /\ Start(i) >= Offset
    BY <1>2 DEF Pending
  <2>2. Start(i) \in Nat /\ Occurs(Magic, stream.bytes, Start(i))
    BY <2>1, SentFacts
  <2>3. CASE Start(i) = Offset
    <3>1. stream.bytes[Offset + 1] = Magic[1]
      BY <2>2, <2>3, MagicAssumption DEF Occurs
    <3> QED
      BY <1>1, <1>3, <2>3, <3>1 DEF current_byte
  <2> QED
    BY <1>1, <2>1, <2>2, <2>3
<1>5. Between(p)
  <2>1. ASSUME NEW i \in 1..Handled
        PROVE  NameEnd(stream.bytes, Start(i)) < p
    <3>1. i \in 1..Commands
      BY <1>2 DEF HandledAsSent
    <3>2. NameEnd(stream.bytes, Start(i)) \in Nat
      BY <1>2, <3>1, SentFacts, MessageFacts
    <3>3. NameEnd(stream.bytes, Start(i)) < Offset
      OBVIOUS
    <3> QED
      BY <1>1, <1>3, <3>2, <3>3
  <2>2. ASSUME NEW i \in Pending
        PROVE  p <= Start(i)
    <3>1. i \in 1..Commands
      BY <1>2 DEF Pending
    <3>2. Start(i) \in Nat
      BY <3>1, SentFacts
    <3> QED
      BY <1>1, <1>3, <1>4, <3>2
  <2> QED
    BY <2>1, <2>2 DEF Between
<1>6. Reading(p)'
  <2>1. \A i \in Pending : Start(i) = p \/ Start(i) >= Offset'
    BY <1>1, <1>4
  <2> QED
    BY <1>1, <1>3, <2>1 DEF Reading, Pending, Handled, Commands, Start
<1> QED
  BY <1>1, <1>3, <1>5, <1>6, KeptAsSent

\* A message that is no command is given up before the next message begins.
LEMMA IgnoredAsSent ==
  ASSUME IInv, Sent(stream), HandledAsSent, NEW p \in Nat, Between(p), Reading(p),
         tag # "MAGIC", Ignored(stream.bytes, p) \/ ~HasVersion(stream.bytes, p),
         InChunk, next_byte, restart(current_byte), UNCHANGED <<input, handled>>
  PROVE  SentInv'
<1> USE DEF IInv
<1>1. /\ Handled \in Nat /\ Commands \in Nat /\ Handled <= Commands
      /\ stream.bytes \in Seq(Byte) /\ Offset \in Nat /\ Len(Magic) \in Nat
  BY SentFacts, Cursor, MagicAssumption DEF TypeOK, Handled, HandledAsSent
<1>2. p + Len(Magic) <= Offset /\ Offset <= NameEnd(stream.bytes, p) /\ NameEnd(stream.bytes, p) \in Nat
  BY <1>1, PastMagic, MessageFacts
<1>3. \A i \in Pending : NameEnd(stream.bytes, p) <= Start(i)
  <2>1. Occurs(Magic, stream.bytes, p)
    BY DEF Reading
  <2>2. ~(Handled + 1 \in Pending /\ p = Start(Handled + 1))
    <3>1. Handled + 1 \in Pending => Handled + 1 \in 1..Commands
      BY <1>1 DEF Pending
    <3> QED
      BY <3>1, SentFacts
  <2> QED
    BY <1>1, <2>1, <2>2, NextOrIgnored
<1>4. ASSUME NEW i \in 1..Handled
      PROVE  NameEnd(stream.bytes, Start(i)) < Offset
  <2>1. i \in 1..Commands
    BY <1>1
  <2>2. NameEnd(stream.bytes, Start(i)) \in Nat
    BY <1>1, <2>1, SentFacts, MessageFacts
  <2>3. NameEnd(stream.bytes, Start(i)) < p
    BY DEF Between
  <2> QED
    BY <1>1, <1>2, <2>2, <2>3
<1>5. ASSUME NEW i \in Pending
      PROVE  Offset <= Start(i)
  <2>1. i \in 1..Commands
    BY <1>1 DEF Pending
  <2>2. Start(i) \in Nat
    BY <2>1, SentFacts
  <2> QED
    BY <1>1, <1>2, <1>3, <2>2
<1> QED
  BY <1>4, <1>5, RestartAsSent

\* A byte of the magic was matched: no message begins at it but one that is being
\* read, because the first magic byte occurs once in the magic.
LEMMA MagicByteAsSent ==
  ASSUME IInv, IInv', Sent(stream), HandledAsSent, NEW p \in Nat, Between(p), Reading(p), MagicByte
  PROVE  SentInv'
<1> USE DEF IInv
<1>1. /\ InChunk /\ tag = "MAGIC" /\ next_byte /\ UNCHANGED <<input, namespace, handled>>
      /\ stream.bytes[Offset + 1] = Magic[header_pos + 1]
  BY DEF MagicByte, current_byte
<1>2. /\ Offset \in Nat /\ Offset' = Offset + 1 /\ stream' = stream /\ handled' = handled
      /\ header_pos \in Nat /\ header_pos < Len(Magic) /\ Len(Magic) \in Nat /\ Len(Magic) > 1
      /\ p = Offset - header_pos
  <2>1. Offset \in Nat /\ Offset' = Offset + 1 /\ stream' = stream /\ handled' = handled
    BY <1>1, Cursor, OneByte
  <2>2. header_pos \in Nat /\ header_pos < Len(Magic) /\ Len(Magic) \in Nat /\ Len(Magic) > 1
    <3>1. Len(Magic) \in Nat /\ Len(Magic) > 1
      BY MagicAssumption
    <3>2. header_pos \in 0..(Len(Magic) - 1)
      BY DEF TypeOK
    <3> QED
      BY <3>1, <3>2
  <2> QED
    BY <1>1, <2>1, <2>2 DEF Reading
<1>3. Handled \in Nat /\ Commands \in Nat
  BY SentFacts DEF TypeOK, Handled
<1>4. ASSUME NEW i \in Pending
      PROVE  Start(i) = p \/ Start(i) >= Offset + 1
  <2>1. i \in 1..Commands /\ (Start(i) = p \/ Start(i) >= Offset)
    BY <1>1, <1>3 DEF Pending, Reading
  <2>2. Start(i) \in Nat /\ Occurs(Magic, stream.bytes, Start(i))
    BY <2>1, SentFacts
  <2>3. ASSUME Start(i) = Offset, header_pos # 0
        PROVE  FALSE
    <3>1. stream.bytes[Offset + 1] = Magic[1]
      BY <1>2, <2>2, <2>3 DEF Occurs
    <3>2. header_pos + 1 \in 2..Len(Magic)
      BY <1>2, <2>3
    <3> QED
      BY <1>1, <3>1, <3>2, FirstByteUnique
  <2> QED
    BY <1>2, <2>1, <2>2, <2>3
<1>5. CASE header_pos + 1 < Len(Magic)
  <2>1. header_pos' = header_pos + 1 /\ tag' = "MAGIC"
    BY <1>1, <1>5 DEF MagicByte
  <2>2. p = Offset' - header_pos' /\ \A i \in Pending : Start(i) = p \/ Start(i) >= Offset'
    BY <1>2, <1>4, <2>1
  <2>3. Reading(p)'
    BY <1>2, <2>1, <2>2 DEF Reading, Pending, Handled, Commands, Start
  <2> QED
    BY <1>2, <2>3, KeptAsSent
<1>6. CASE ~(header_pos + 1 < Len(Magic))
  <2>1. tag' = "PROTOCOL_VERSION"
    BY <1>6 DEF MagicByte, enter_state
  <2>2. Offset' = p + Len(Magic)
    BY <1>2, <1>6
  <2>3. Occurs(Magic, stream.bytes', p)
    <3>1. At(Magic, Offset - Len(Magic))'
      BY <2>1 DEF TagInv
    <3>2. Offset' - Len(Magic) = p
      BY <1>2, <2>2
    <3> QED
      BY <3>1, <3>2 DEF At
  <2>4. Reading(p)'
    BY <2>1, <2>2, <2>3 DEF Reading
  <2> QED
    BY <1>2, <2>4, KeptAsSent
<1> QED
  BY <1>5, <1>6

\* A byte of the magic was not matched: what was matched is not the start of a message.
LEMMA MagicMismatchAsSent ==
  ASSUME IInv, Sent(stream), HandledAsSent, NEW p \in Nat, Between(p), Reading(p), MagicMismatch
  PROVE  SentInv'
<1> USE DEF IInv
<1>1. /\ InChunk /\ tag = "MAGIC" /\ next_byte /\ restart(current_byte)
      /\ UNCHANGED <<input, handled>> /\ stream.bytes[Offset + 1] # Magic[header_pos + 1]
  BY DEF MagicMismatch, current_byte
<1>2. /\ Offset \in Nat /\ header_pos \in Nat /\ header_pos < Len(Magic) /\ Len(Magic) \in Nat
      /\ p = Offset - header_pos /\ stream.bytes \in Seq(Byte)
  BY <1>1, Cursor, MagicAssumption DEF TypeOK, Reading
<1>3. Handled \in Nat /\ Commands \in Nat /\ Handled <= Commands
  BY SentFacts DEF TypeOK, Handled, HandledAsSent
<1>4. ASSUME NEW i \in Pending
      PROVE  Offset <= Start(i)
  <2>1. i \in 1..Commands /\ (Start(i) = p \/ Start(i) >= Offset)
    BY <1>1, <1>3 DEF Pending, Reading
  <2>2. Start(i) \in Nat /\ Occurs(Magic, stream.bytes, Start(i))
    BY <2>1, SentFacts
  <2>3. ASSUME Start(i) = p
        PROVE  FALSE
    <3>1. header_pos + 1 \in 1..Len(Magic) /\ p + (header_pos + 1) = Offset + 1
      BY <1>2
    <3>2. stream.bytes[p + (header_pos + 1)] = Magic[header_pos + 1]
      BY <2>2, <2>3, <3>1 DEF Occurs
    <3> QED
      BY <1>1, <3>1, <3>2
  <2> QED
    BY <2>1, <2>3
<1>5. ASSUME NEW i \in 1..Handled
      PROVE  NameEnd(stream.bytes, Start(i)) < Offset
  <2>1. i \in 1..Commands
    BY <1>3
  <2>2. NameEnd(stream.bytes, Start(i)) \in Nat
    BY <1>2, <2>1, SentFacts, MessageFacts
  <2>3. NameEnd(stream.bytes, Start(i)) < p
    BY DEF Between
  <2> QED
    BY <1>2, <2>2, <2>3
<1> QED
  BY <1>1, <1>4, <1>5, RestartAsSent

\* The version was matched.
LEMMA ProtocolVersionAsSent ==
  ASSUME IInv, HandledAsSent, NEW p \in Nat, Between(p), Reading(p), ProtocolVersion
  PROVE  SentInv'
<1> USE DEF IInv
<1>1. /\ InChunk /\ tag = "PROTOCOL_VERSION" /\ next_byte /\ UNCHANGED <<input, handled>>
      /\ stream.bytes[Offset + 1] = Version /\ tag' = "NAMESPACE_LEN"
  BY DEF ProtocolVersion, current_byte, enter_state
<1>2. /\ Offset \in Nat /\ Offset + 1 <= Len(stream.bytes)
      /\ Offset' = Offset + 1 /\ stream' = stream /\ handled' = handled
  BY <1>1, Cursor, OneByte
<1>3. Occurs(Magic, stream.bytes, p) /\ Offset = p + Len(Magic) /\ Len(Magic) \in Nat
  BY <1>1, MagicAssumption DEF Reading
<1>4. HasVersion(stream.bytes, p)
  BY <1>1, <1>2, <1>3 DEF HasVersion, ByteAt
<1>5. Reading(p)'
  BY <1>1, <1>2, <1>3, <1>4 DEF Reading
<1> QED
  BY <1>2, <1>5, KeptAsSent

\* The current byte is the length of the name: after the version, or in its place.
LEMMA LengthByte ==
  ASSUME IInv, InChunk, NEW p \in Nat, Reading(p),
         tag = "NAMESPACE_LEN" \/ (tag = "PROTOCOL_VERSION" /\ current_byte # Version)
  PROVE  /\ Occurs(Magic, stream.bytes, p)
         /\ Offset + 1 = LenAt(stream.bytes, p) /\ current_byte = NameLen(stream.bytes, p)
         /\ tag = "PROTOCOL_VERSION" => ~HasVersion(stream.bytes, p)
<1>1. /\ Offset \in Nat /\ Offset + 1 <= Len(stream.bytes) /\ stream.bytes \in Seq(Byte)
      /\ Len(Magic) \in Nat
  BY Cursor, MagicAssumption DEF IInv, TypeOK
<1>2. tag = "PROTOCOL_VERSION" => ~HasVersion(stream.bytes, p) /\ Offset = p + Len(Magic)
  BY <1>1 DEF Reading, HasVersion, ByteAt, current_byte
<1>3. tag = "NAMESPACE_LEN" => HasVersion(stream.bytes, p) /\ Offset = p + Len(Magic) + 1
  BY DEF Reading
<1>4. Offset + 1 = LenAt(stream.bytes, p)
  BY <1>1, <1>2, <1>3 DEF LenAt
<1>5. current_byte = NameLen(stream.bytes, p)
  BY <1>1, <1>4 DEF NameLen, ByteAt, current_byte
<1> QED
  BY <1>2, <1>4, <1>5 DEF Reading

\* The namespace length was read, after the version or in place of it.
LEMMA NamespaceLenAsSent ==
  ASSUME IInv, Sent(stream), HandledAsSent, NEW p \in Nat, Between(p), Reading(p),
         NamespaceLen \/ NamespaceLenZero \/ OtherVersion
  PROVE  SentInv'
<1> USE DEF IInv
<1>1. /\ InChunk /\ next_byte /\ UNCHANGED <<input, handled>> /\ tag # "MAGIC"
      /\ tag = "NAMESPACE_LEN" \/ (tag = "PROTOCOL_VERSION" /\ current_byte # Version)
      /\ \/ current_byte = 0 /\ restart(current_byte)
         \/ current_byte # 0 /\ enter_state("NAMESPACE", current_byte)
  <2>1. tag # "MAGIC"
    BY DEF NamespaceLen, NamespaceLenZero, OtherVersion
  <2>2. \/ current_byte = 0 /\ restart(current_byte)
        \/ current_byte # 0 /\ enter_state("NAMESPACE", current_byte)
    BY Zenon DEF NamespaceLen, NamespaceLenZero, OtherVersion
  <2>3. UNCHANGED <<input, handled>>
    BY DEF NamespaceLen, NamespaceLenZero, OtherVersion
  <2>4. /\ InChunk /\ next_byte
        /\ tag = "NAMESPACE_LEN" \/ (tag = "PROTOCOL_VERSION" /\ current_byte # Version)
    BY Zenon DEF NamespaceLen, NamespaceLenZero, OtherVersion
  <2> QED
    BY <2>1, <2>2, <2>3, <2>4, Zenon
<1>2. /\ Occurs(Magic, stream.bytes, p)
      /\ Offset + 1 = LenAt(stream.bytes, p) /\ current_byte = NameLen(stream.bytes, p)
  BY <1>1, LengthByte
<1>3. CASE current_byte = 0
  <2>1. Ignored(stream.bytes, p) /\ restart(current_byte)
    BY <1>1, <1>2, <1>3 DEF Ignored
  <2> QED
    BY <1>1, <2>1, IgnoredAsSent
<1>4. CASE current_byte # 0
  <2>1. tag' = "NAMESPACE" /\ len' = current_byte /\ pos' = 0
    BY <1>1, <1>4 DEF enter_state
  <2>2. Offset \in Nat /\ Offset' = Offset + 1 /\ stream' = stream /\ handled' = handled
    BY <1>1, Cursor, OneByte
  <2>3. Offset' - pos' = LenAt(stream.bytes, p)
    BY <1>2, <2>1, <2>2
  <2>4. Reading(p)'
    BY <1>2, <2>1, <2>2, <2>3 DEF Reading
  <2> QED
    BY <2>2, <2>4, KeptAsSent
<1> QED
  BY <1>3, <1>4

\* In the namespace, what the chunk has of it ends at the end of the name or before;
\* when the name is complete, the copy is the name.
LEMMA NameCopied ==
  ASSUME IInv, InChunk, tag = "NAMESPACE", NEW p \in Nat, Reading(p)
  PROVE  /\ Offset \in Nat /\ pos \in Nat /\ len \in Nat /\ pos < len
         /\ Available \in Nat /\ Occurs(Magic, stream.bytes, p)
         /\ Offset = LenAt(stream.bytes, p) + pos /\ len = NameLen(stream.bytes, p)
         /\ pos + Available >= len =>
              /\ Offset + Available = NameEnd(stream.bytes, p)
              /\ Copied = NameAt(stream.bytes, p)
<1> USE DEF IInv
<1>1. /\ Offset \in Nat /\ pos \in Nat /\ len \in Nat /\ pos < len /\ pos <= Offset
      /\ Available \in Nat /\ Available <= len - pos
  BY NamespaceCursor, Cursor, MagicAssumption
<1>2. /\ Occurs(Magic, stream.bytes, p)
      /\ Offset - pos = LenAt(stream.bytes, p) /\ len = NameLen(stream.bytes, p)
  BY DEF Reading
<1>3. Offset = LenAt(stream.bytes, p) + pos
  BY <1>1, <1>2
<1>4. ASSUME pos + Available >= len
      PROVE  /\ Offset + Available = NameEnd(stream.bytes, p)
             /\ Copied = NameAt(stream.bytes, p)
  <2>1. Offset + Available = NameEnd(stream.bytes, p)
    BY <1>1, <1>2, <1>4 DEF NameEnd
  <2>2. Copied = SubSeq(stream.bytes, Offset - pos + 1, Offset + Available)
    BY <1>1, CopiedIsInput
  <2> QED
    BY <1>2, <2>1, <2>2 DEF NameAt
<1> QED
  BY <1>1, <1>2, <1>3, <1>4

\* Part of the namespace was copied.
LEMMA NamespacePartAsSent ==
  ASSUME IInv, HandledAsSent, NEW p \in Nat, Between(p), Reading(p), NamespacePart
  PROVE  SentInv'
<1>1. /\ InChunk /\ tag = "NAMESPACE" /\ pos' = pos + Available
      /\ chunk_index' = chunk_index + Available
      /\ UNCHANGED <<input, tag, len, handled>>
  BY DEF NamespacePart
<1>2. /\ Offset \in Nat /\ pos \in Nat /\ Available \in Nat /\ Occurs(Magic, stream.bytes, p)
      /\ Offset = LenAt(stream.bytes, p) + pos /\ len = NameLen(stream.bytes, p)
  BY <1>1, NameCopied
<1>3. Offset' = Offset + Available /\ stream' = stream /\ handled' = handled
  BY <1>1, <1>2 DEF Offset, input, IInv, TypeOK
<1>4. Offset' - pos' = LenAt(stream.bytes, p)
  <2>1. Offset - pos = LenAt(stream.bytes, p)
    BY <1>1 DEF Reading
  <2> QED
    BY <1>1, <1>2, <1>3, <2>1
<1>5. Reading(p)'
  BY <1>1, <1>2, <1>3, <1>4 DEF Reading
<1> QED
  BY <1>3, <1>5, KeptAsSent

\* The name is complete and registered.
LEMMA NamespaceResolvedAsSent ==
  ASSUME IInv, HandledAsSent, NEW p \in Nat, Between(p), Reading(p), NamespaceResolved
  PROVE  SentInv'
<1>1. /\ InChunk /\ tag = "NAMESPACE" /\ pos + Available >= len
      /\ namespace' = Resolve(Copied) /\ chunk_index' = chunk_index + Available
      /\ UNCHANGED <<input, handled>> /\ tag' = "COMMAND_ID"
  BY DEF NamespaceResolved, enter_state
<1>2. /\ pos \in Nat /\ len \in Nat /\ pos < len /\ Available \in Nat
      /\ Occurs(Magic, stream.bytes, p) /\ len = NameLen(stream.bytes, p)
      /\ Offset + Available = NameEnd(stream.bytes, p) /\ Copied = NameAt(stream.bytes, p)
  BY <1>1, NameCopied
<1>3. Offset' = Offset + Available /\ stream' = stream /\ handled' = handled
  BY <1>1, <1>2 DEF Offset, input, IInv, TypeOK
<1>4. NameLen(stream.bytes, p) # 0 /\ Offset' = NameEnd(stream.bytes, p)
  BY <1>2, <1>3
<1>5. Reading(p)'
  BY <1>1, <1>2, <1>3, <1>4 DEF Reading
<1> QED
  BY <1>3, <1>5, KeptAsSent

\* The name is complete and not registered.
LEMMA NamespaceUnknownAsSent ==
  ASSUME IInv, Sent(stream), HandledAsSent, NEW p \in Nat, Between(p), Reading(p), NamespaceUnknown
  PROVE  SentInv'
<1>1. /\ InChunk /\ tag = "NAMESPACE" /\ pos + Available >= len /\ Resolve(Copied) = 0
      /\ next_byte /\ restart(current_byte) /\ UNCHANGED <<input, handled>> /\ tag # "MAGIC"
  BY DEF NamespaceUnknown
<1>2. Copied = NameAt(stream.bytes, p)
  BY <1>1, NameCopied
<1>3. Ignored(stream.bytes, p)
  BY <1>1, <1>2 DEF Ignored
<1> QED
  BY <1>1, <1>3, IgnoredAsSent

\* A command was handled: its message is the next one that was sent.
LEMMA CommandIdAsSent ==
  ASSUME IInv, Sent(stream), HandledAsSent, NEW p \in Nat, Between(p), Reading(p), CommandId
  PROVE  SentInv'
<1> USE DEF IInv
<1> DEFINE h == [namespace |-> namespace, id |-> current_byte, at |-> Offset + 1]
           R == [namespace : 1..Len(Namespaces), id : Byte, at : Nat]
           q == Handled + 1
<1>1. /\ InChunk /\ tag = "COMMAND_ID" /\ next_byte /\ UNCHANGED input /\ restart(-1)
      /\ handled' = Append(handled, h)
  BY DEF CommandId
<1>2. /\ Offset \in Nat /\ Offset' = Offset + 1 /\ stream' = stream /\ current_byte \in Byte
      /\ stream.bytes \in Seq(Byte)
  BY <1>1, Cursor, OneByte DEF TypeOK
<1>3. tag' = "MAGIC" /\ header_pos' = 0
  <2>1. Magic[1] \in Byte
    BY MagicAssumption
  <2>2. -1 # Magic[1]
    BY <2>1, ByteAssumption DEF Byte
  <2> QED
    BY <1>1, <2>2 DEF restart, enter_state
<1>4. /\ Handled \in Nat /\ Handled' = q /\ handled'[q] = h
      /\ \A i \in 1..Handled : handled'[i] = handled[i]
  <2>1. handled \in Seq(R) /\ h \in R
    BY <1>1, <1>2, NamesAssumption DEF TypeOK
  <2> HIDE DEF h, R
  <2> QED
    BY <1>1, <2>1 DEF Handled
<1>5. Commands \in Nat /\ Handled <= Commands
  BY SentFacts DEF HandledAsSent
<1>6. /\ Occurs(Magic, stream.bytes, p) /\ Offset = NameEnd(stream.bytes, p)
      /\ NameLen(stream.bytes, p) # 0 /\ namespace = Resolve(NameAt(stream.bytes, p))
  BY <1>1 DEF Reading
<1>7. ~Ignored(stream.bytes, p)
  <2>1. namespace # 0 /\ Offset <= Len(stream.bytes) /\ Len(stream.bytes) \in Nat
    BY <1>1, <1>2, Cursor DEF TypeOK
  <2>2. ~(NameEnd(stream.bytes, p) > Len(stream.bytes))
    BY <1>2, <1>6, <2>1
  <2>3. Resolve(NameAt(stream.bytes, p)) # 0
    BY <1>6, <2>1
  <2> QED
    BY <1>6, <2>2, <2>3, Zenon DEF Ignored
<1>8. q \in Pending /\ q \in 1..Commands /\ p = Start(q)
  <2>1. q \in Pending /\ p = Start(q)
    BY <1>5, <1>6, <1>7, NextOrIgnored
  <2> QED
    BY <1>4, <1>5, <2>1 DEF Pending
<1>9. HandledAsSent'
  <2>1. Handled' <= Commands'
    BY <1>2, <1>4, <1>5, <1>8 DEF Commands
  <2>2. ASSUME NEW i \in 1..Handled'
        PROVE  /\ handled'[i].namespace = stream.commands[i].namespace
               /\ handled'[i].id = stream.commands[i].id
    <3>1. CASE i \in 1..Handled
      BY <1>4, <3>1 DEF HandledAsSent
    <3>2. CASE i = q
      <4>1. stream.commands[q].namespace = namespace /\ stream.commands[q].id = current_byte
        BY <1>6, <1>8, SentFacts DEF current_byte
      <4> QED
        BY <1>4, <3>2, <4>1
    <3> QED
      BY <1>4, <2>2, <3>1, <3>2
  <2> QED
    BY <1>2, <2>1, <2>2 DEF HandledAsSent
<1>10. PICK r \in Nat : r = Offset + 1
  BY <1>2
<1>11. Between(r)'
  <2>1. ASSUME NEW i \in 1..Handled'
        PROVE  NameEnd(stream.bytes, Start(i)) < r
    <3>1. CASE i \in 1..Handled
      <4>1. i \in 1..Commands
        BY <1>4, <1>5, <3>1
      <4>2. NameEnd(stream.bytes, Start(i)) \in Nat
        BY <1>2, <4>1, SentFacts, MessageFacts
      <4>3. NameEnd(stream.bytes, Start(i)) < p
        BY <3>1 DEF Between
      <4>4. p <= Offset
        BY <1>1, <1>2, PastMagic, MagicAssumption
      <4> QED
        BY <1>2, <1>10, <4>2, <4>3, <4>4
    <3>2. CASE i = q
      BY <1>2, <1>6, <1>8, <1>10, <3>2
    <3> QED
      BY <1>4, <2>1, <3>1, <3>2
  <2>2. ASSUME NEW i \in (Handled' + 1)..Commands
        PROVE  r <= Start(i)
    <3>1. i \in (q + 1)..Commands /\ i \in 1..Commands
      BY <1>4, <1>5
    <3>2. Start(i) \in Nat /\ Offset < Start(i)
      BY <1>6, <1>8, <3>1, SentFacts
    <3> QED
      BY <1>2, <1>10, <3>2
  <2> QED
    BY <1>2, <2>1, <2>2 DEF Between, Pending, Start, Commands
<1>12. Reading(r)'
  <2>1. r = Offset' - header_pos' /\ r = Offset'
    BY <1>2, <1>3, <1>10
  <2>2. \A i \in Pending' : Start(i)' >= Offset'
    <3>1. \A i \in Pending' : r <= Start(i)'
      BY <1>11 DEF Between
    <3>2. \A i \in Pending' : Start(i)' \in Nat
      BY <1>2, <1>4, <1>5, SentFacts DEF Pending, Start, Commands
    <3> QED
      BY <2>1, <3>1, <3>2
  <2> QED
    BY <1>3, <2>1, <2>2 DEF Reading
<1> QED
  BY <1>9, <1>11, <1>12 DEF SentInv

\* The parser is at the start of the stream.
LEMMA InitAsSent ==
  ASSUME Init, Sent(stream)
  PROVE  SentInv
<1>1. Handled = 0 /\ Offset = 0 /\ tag = "MAGIC" /\ header_pos = 0
  BY DEF Init, Handled, Offset
<1>2. TypeOK
  BY InitIInv DEF IInv
<1>3. Commands \in Nat /\ \A i \in 1..Commands : Start(i) \in Nat
  BY <1>2, SentFacts
<1>4. HandledAsSent
  BY <1>1, <1>3 DEF HandledAsSent
<1>5. Between(0) /\ Reading(0)
  BY <1>1, <1>3 DEF Between, Reading, Pending
<1> QED
  BY <1>4, <1>5 DEF SentInv

\* Every step keeps the invariant of a sent stream.
LEMMA NextAsSent ==
  ASSUME IInv, [Next]_vars, Sent(stream) => SentInv
  PROVE  (Sent(stream) => SentInv)'
<1>1. stream' = stream
  BY DEF Next, ParserStep, vars, input, ReceiveChunk, MagicByte, MagicMismatch, ProtocolVersion,
         OtherVersion, NamespaceLenZero, NamespaceLen, NamespacePart, NamespaceResolved,
         NamespaceUnknown, CommandId
<1> SUFFICES ASSUME Sent(stream) PROVE SentInv'
  BY <1>1 DEF Sent
<1>2. HandledAsSent
  BY DEF SentInv
<1>3. PICK p \in Nat : Between(p) /\ Reading(p)
  BY DEF SentInv
<1>4. CASE UNCHANGED vars
  <2>1. Reading(p)' /\ handled' = handled
    BY <1>1, <1>3, <1>4 DEF vars, input, parser, Reading, Offset, Pending, Handled, Commands, Start
  <2> QED
    BY <1>1, <1>2, <1>3, <2>1, KeptAsSent
<1>5. ASSUME NEW n \in 1..ChunkSize, ReceiveChunk(n)
      PROVE  SentInv'
  <2>1. UNCHANGED <<stream, parser, handled>> /\ Offset' = Offset
    BY <1>5 DEF ReceiveChunk, IInv, TypeOK, InChunk, Offset
  <2>2. Reading(p)' /\ handled' = handled
    BY <1>3, <2>1 DEF parser, Reading, Pending, Handled, Commands, Start
  <2> QED
    BY <1>1, <1>2, <1>3, <2>2, KeptAsSent
<1>6. CASE MagicByte
  BY <1>2, <1>3, <1>6, NextIInv, MagicByteAsSent
<1>7. CASE MagicMismatch
  BY <1>2, <1>3, <1>7, MagicMismatchAsSent
<1>8. CASE ProtocolVersion
  BY <1>2, <1>3, <1>8, ProtocolVersionAsSent
<1>9. CASE NamespaceLen \/ NamespaceLenZero \/ OtherVersion
  BY <1>2, <1>3, <1>9, NamespaceLenAsSent
<1>10. CASE NamespacePart
  BY <1>2, <1>3, <1>10, NamespacePartAsSent
<1>11. CASE NamespaceResolved
  BY <1>2, <1>3, <1>11, NamespaceResolvedAsSent
<1>12. CASE NamespaceUnknown
  BY <1>2, <1>3, <1>12, NamespaceUnknownAsSent
<1>13. CASE CommandId
  BY <1>2, <1>3, <1>13, CommandIdAsSent
<1> QED
  BY <1>4, <1>5, <1>6, <1>7, <1>8, <1>9, <1>10, <1>11, <1>12, <1>13 DEF Next, ParserStep

\* At the end of the stream no message is left.
LEMMA ConsumedAll ==
  ASSUME IInv, Sent(stream), SentInv, Consumed
  PROVE  Handled = Commands
<1> USE DEF IInv
<1>1. /\ Handled \in Nat /\ Commands \in Nat /\ Handled <= Commands
      /\ stream.bytes \in Seq(Byte) /\ Len(stream.bytes) \in Nat
      /\ Len(Magic) \in Nat /\ Len(Magic) > 1
  BY SentFacts, MagicAssumption DEF TypeOK, Handled, SentInv, HandledAsSent
<1>2. Offset = Len(stream.bytes)
  <2>1. base \in Nat /\ chunk_size \in Nat /\ chunk_index \in 0..chunk_size
    BY ChunkAssumption DEF TypeOK
  <2> QED
    BY <2>1 DEF Consumed, InChunk, Offset
<1>3. PICK p \in Nat : Between(p) /\ Reading(p)
  BY DEF SentInv
<1> SUFFICES ASSUME Handled # Commands PROVE FALSE
  OBVIOUS
<1> DEFINE q == Handled + 1
<1>4. q \in 1..Commands /\ q \in Pending
  BY <1>1 DEF Pending
<1>5. /\ Start(q) \in Nat /\ Start(q) + Len(Magic) <= Len(stream.bytes)
      /\ NameEnd(stream.bytes, Start(q)) < Len(stream.bytes)
      /\ NameEnd(stream.bytes, Start(q)) \in Nat
  BY <1>1, <1>4, SentFacts, MessageFacts DEF Occurs
<1>6. CASE tag = "MAGIC"
  <2>1. p = Offset - header_pos /\ (Start(q) = p \/ Start(q) >= Offset)
    BY <1>3, <1>4, <1>6 DEF Reading
  <2>2. header_pos \in Nat /\ header_pos < Len(Magic)
    BY <1>1 DEF TypeOK
  <2> QED
    BY <1>1, <1>2, <1>5, <2>1, <2>2
<1>7. CASE tag # "MAGIC"
  <2>1. Offset <= NameEnd(stream.bytes, p) /\ NameEnd(stream.bytes, p) \in Nat
        /\ Occurs(Magic, stream.bytes, p)
    BY <1>1, <1>3, <1>7, PastMagic, MessageFacts DEF Reading
  <2>2. p = Start(q) \/ NameEnd(stream.bytes, p) <= Start(q)
    BY <1>1, <1>3, <1>4, <2>1, NextOrIgnored
  <2> QED
    BY <1>1, <1>2, <1>5, <2>1, <2>2
<1> QED
  BY <1>6, <1>7

\* A function on the first n numbers is a sequence of length n.
LEMMA FunctionIsSeq ==
  ASSUME NEW S, NEW n \in Nat, NEW f \in [1..n -> S]
  PROVE  f \in Seq(S) /\ Len(f) = n
  OBVIOUS

\* The invariant says what the property does.
LEMMA SentInvCommands ==
  ASSUME IInv, Sent(stream), SentInv
  PROVE  AsSent
<1> DEFINE C == [namespace : Nat, id : Byte]
           T == 1..Len(Namespaces)
<1>1. /\ handled \in Seq([namespace : T, id : Byte, at : Nat])
      /\ Handled \in Nat /\ DOMAIN handled = 1..Handled
  BY DEF IInv, TypeOK, Handled
<1>2. /\ Commands \in Nat /\ Len(stream.commands) = Commands /\ stream.commands \in Seq(C)
      /\ Handled <= Commands
  BY SentFacts DEF IInv, SentInv, HandledAsSent
<1>3. \A i \in 1..Handled : handled[i].namespace \in Nat /\ handled[i].id \in Byte
  <2> SUFFICES ASSUME NEW i \in 1..Handled
               PROVE  handled[i].namespace \in Nat /\ handled[i].id \in Byte
    OBVIOUS
  <2>1. Len(Namespaces) \in Nat
    BY NamesAssumption
  <2>2. handled[i] \in [namespace : T, id : Byte, at : Nat]
    BY <1>1, ElementOfSeq DEF Handled
  <2> QED
    BY <2>1, <2>2
<1>4. Calls \in Seq(C) /\ Len(Calls) = Handled
  <2>1. Calls \in [1..Handled -> C]
    BY <1>1, <1>3 DEF Calls
  <2> HIDE DEF C
  <2> QED
    BY <1>1, <2>1, FunctionIsSeq
<1>5. \A i \in 1..Handled : Calls[i] = stream.commands[i]
  <2> SUFFICES ASSUME NEW i \in 1..Handled PROVE Calls[i] = stream.commands[i]
    OBVIOUS
  <2>1. stream.commands[i] \in C
    <3>1. i \in 1..Len(stream.commands)
      BY <1>1, <1>2
    <3> HIDE DEF C
    <3> QED
      BY <1>2, <3>1, ElementOfSeq
  <2>2. /\ handled[i].namespace = stream.commands[i].namespace
        /\ handled[i].id = stream.commands[i].id
    BY DEF SentInv, HandledAsSent
  <2>3. Calls[i] = [namespace |-> handled[i].namespace, id |-> handled[i].id]
    BY <1>1 DEF Calls
  <2> QED
    BY <2>1, <2>2, <2>3
<1>6. Calls = SubSeq(stream.commands, 1, Len(Calls))
  <2> DEFINE w == SubSeq(stream.commands, 1, Handled)
  <2> HIDE DEF C
  <2>1. w \in Seq(C) /\ Len(w) = Handled /\ \A i \in 1..Handled : w[i] = stream.commands[i]
    BY <1>1, <1>2
  <2> HIDE DEF w
  <2>2. Calls = w
    BY <1>1, <1>4, <1>5, <2>1, SeqEqual
  <2> QED
    BY <1>4, <2>2 DEF w
<1>7. ASSUME Consumed PROVE Calls = stream.commands
  <2>1. Handled = Commands
    BY <1>7, ConsumedAll
  <2> HIDE DEF C
  <2> QED
    BY <1>2, <1>4, <1>5, <2>1, SeqEqual
<1> QED
  BY <1>2, <1>4, <1>6, <1>7 DEF AsSent

\* For every stream of messages, whatever stands between them that is no command,
\* and however it is cut into chunks, the commands are handled as they were sent: in
\* order, each once, and none is left out when the stream is consumed.
THEOREM ParserCommandsAsSent == Spec => []CommandsAsSent
<1>1. Init => (Sent(stream) => SentInv)
  BY InitAsSent
<1>2. IInv /\ (Sent(stream) => SentInv) /\ [Next]_vars => (Sent(stream) => SentInv)'
  BY NextAsSent
<1>3. IInv /\ (Sent(stream) => SentInv) => CommandsAsSent
  BY SentInvCommands DEF CommandsAsSent
<1> QED
  BY <1>1, <1>2, <1>3, ParserIInv, PTL DEF Spec

(* Progress of the loop *)

\* Bytes that recv() returned, and bytes that are parsed.
Progress == base + chunk_size + Offset

\* What the loop counts, as numbers.
LEMMA ProgressType ==
  ASSUME TypeOK
  PROVE  /\ base \in Nat /\ chunk_size \in Nat /\ chunk_index \in Nat
         /\ Offset \in Nat /\ Progress \in Nat /\ Progress <= 2 * Len(stream.bytes)
BY ChunkAssumption DEF TypeOK, Offset, Progress

\* The bytes available for the namespace: some, if remaining_bytes_in_chunk has not
\* become zero.
LEMMA SomeAvailable ==
  ASSUME TypeOK, InChunk, tag = "NAMESPACE"
  PROVE  /\ Remaining \in Nat /\ Available \in Nat
         /\ Remaining > 0 <=> Available > 0
<1>1. len - pos \in Nat /\ len - pos > 0
  BY ByteAssumption DEF TypeOK, Byte
<1>2. chunk_size - chunk_index \in Nat
  BY DEF TypeOK, InChunk
<1>3. Remaining \in Nat
  BY <1>2, ByteAssumption, RemainderBound DEF Remaining
<1> QED
  BY <1>1, <1>3 DEF Available, Min2, Required

\* Each iteration of the loop in es_control_command_parser_handle_chunk parses a byte and
\* each call of recv() brings one, whatever the bytes are and wherever they are cut, as
\* long as the assertion on remaining_bytes_in_chunk holds; and there are only so many.
\* No byte is read again for ever after a restart.
THEOREM ParserProgress ==
  Spec => /\ [](Progress <= 2 * Len(stream.bytes))
          /\ [][RemainingPositive => Progress' > Progress]_vars
<1>1. IInv => Progress <= 2 * Len(stream.bytes)
  BY ProgressType DEF IInv
<1>2. ASSUME IInv, Next, RemainingPositive
      PROVE  Progress' > Progress
  <2>1. /\ base \in Nat /\ chunk_size \in Nat /\ chunk_index \in Nat
        /\ chunk_index <= chunk_size
    BY <1>2, ProgressType DEF IInv, TypeOK
  <2>2. ASSUME InChunk, next_byte, UNCHANGED input
        PROVE  Progress' > Progress
    BY <2>1, <2>2 DEF next_byte, input, Progress, Offset
  <2>3. CASE NamespacePart \/ NamespaceResolved
    <3>1. InChunk /\ tag = "NAMESPACE" /\ chunk_index' = chunk_index + Available /\ UNCHANGED input
      BY <2>3 DEF NamespacePart, NamespaceResolved
    <3>2. Available \in Nat /\ Available > 0
      BY <1>2, <3>1, SomeAvailable DEF IInv, RemainingPositive
    <3> QED
      BY <2>1, <3>1, <3>2 DEF input, Progress, Offset
  <2>4. CASE ParserStep /\ ~NamespacePart /\ ~NamespaceResolved
    <3>1. InChunk /\ next_byte /\ UNCHANGED input
      BY <2>4, Zenon DEF ParserStep, MagicByte, MagicMismatch, ProtocolVersion, OtherVersion,
         NamespaceLenZero, NamespaceLen, NamespaceUnknown, CommandId
    <3> QED
      BY <2>2, <3>1
  <2>5. ASSUME NEW n \in 1..ChunkSize, ReceiveChunk(n)
        PROVE  Progress' > Progress
    <3>1. chunk_index = chunk_size
      BY <2>1, <2>5 DEF ReceiveChunk, InChunk
    <3> QED
      BY <2>1, <2>5, <3>1, ChunkAssumption DEF ReceiveChunk, Progress, Offset
  <2> QED
    BY <1>2, <2>3, <2>4, <2>5 DEF Next
<1>3. IInv /\ [Next]_vars => [RemainingPositive => Progress' > Progress]_vars
  BY <1>2
<1> QED
  BY <1>1, <1>3, ParserIInv, PTL DEF Spec

\* If a chunk is smaller than what a uint8_t counts, the assertion on
\* remaining_bytes_in_chunk holds.  (CHUNK_SIZE is 256.)
THEOREM SmallChunksSafe ==
  ASSUME ChunkSize < ByteMod
  PROVE  Spec => []RemainingPositive
<1>1. IInv => RemainingPositive
  <2> SUFFICES ASSUME IInv, InChunk
               PROVE  Remaining > 0
    BY DEF RemainingPositive
  <2>1. chunk_size - chunk_index \in 1..(ByteMod - 1)
    BY ByteAssumption, ChunkAssumption DEF IInv, TypeOK, InChunk
  <2>2. \A d \in 1..(ByteMod - 1) : d % ByteMod = d
    BY ByteAssumption
  <2> QED
    BY <2>1, <2>2, ByteAssumption DEF Remaining
<1> QED
  BY <1>1, ParserIInv, PTL

\* Without the assertion, a full chunk that begins inside a namespace is never left: the
\* loop copies nothing and stays where it is.
THEOREM FullChunkStuck == Spec => [](~RemainingPositive => []~RemainingPositive)
<1>1. IInv /\ ~RemainingPositive /\ [Next]_vars => (~RemainingPositive)'
  <2> SUFFICES ASSUME IInv, ~RemainingPositive, [Next]_vars
               PROVE  (~RemainingPositive)'
    OBVIOUS
  <2>1. InChunk /\ tag = "NAMESPACE" /\ ~(Remaining > 0)
    BY DEF RemainingPositive
  <2>2. Available = 0 /\ pos \in Nat /\ len \in Nat /\ pos < len /\ chunk_index \in Nat
    BY <2>1, SomeAvailable, ByteAssumption, ProgressType DEF IInv, TypeOK, Byte
  <2>3. UNCHANGED <<chunk_index, chunk_size, tag>>
    <3>1. CASE NamespacePart
      BY <2>2, <3>1 DEF NamespacePart, input
    <3>2. ~NamespaceResolved /\ ~NamespaceUnknown
      BY <2>2 DEF NamespaceResolved, NamespaceUnknown
    <3>3. CASE ParserStep
      BY <2>1, <3>1, <3>2, <3>3 DEF ParserStep, MagicByte, MagicMismatch, ProtocolVersion,
         OtherVersion, NamespaceLenZero, NamespaceLen, CommandId
    <3>4. \A n \in 1..ChunkSize : ~ReceiveChunk(n)
      BY <2>1 DEF ReceiveChunk
    <3> QED
      BY <3>3, <3>4 DEF Next, vars, input, parser
  <2> QED
    BY <2>1, <2>3 DEF RemainingPositive, InChunk, Remaining
<1> QED
  BY <1>1, ParserIInv, PTL DEF Spec
=============================================================================
