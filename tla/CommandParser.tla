--------------------------- MODULE CommandParser ---------------------------
(***************************************************************************)
(* The incremental parser of control commands, from the byte stream of one *)
(* connection to the calls of es_control_command_handle.  The stream is    *)
(* cut into chunks of any size up to CHUNK_SIZE, as recv() returns them;   *)
(* the parser state survives from one chunk to the next.  One action is    *)
(* one iteration of the loop in es_control_command_parser_handle_chunk.    *)
(*                                                                         *)
(* A byte is a number below ByteMod (256 in the code).  The registered     *)
(* namespaces are fixed here; module Registry is about how they come about.*)
(***************************************************************************)
EXTENDS Integers, Sequences, ControlNames

CONSTANTS
  ByteMod,     \* 2^8
  ChunkSize,   \* CHUNK_SIZE
  Magic,       \* g_control_magic
  Version,     \* EVENTLOG_SOCKET_CONTROL_PROTOCOL_VERSION
  Namespaces,  \* names in the namespace registry, in list order
  Stream       \* what a client may send: [bytes, commands, at], the last two auxiliary

Byte == 0..(ByteMod - 1)

ASSUME ByteAssumption   == ByteMod \in Nat \ {0, 1} /\ Version \in Byte
ASSUME ChunkAssumption  == ChunkSize \in Nat \ {0}
ASSUME MagicAssumption  == Magic \in Seq(Byte) /\ Len(Magic) > 1
ASSUME FirstByteUnique  == \A i \in 2..Len(Magic) : Magic[i] # Magic[1]
ASSUME NamesAssumption  == Namespaces \in Seq(Seq(Byte))
ASSUME StreamAssumption == \A s \in Stream : s.bytes \in Seq(Byte)

VARIABLES
  stream,      \* what the client sends
  base,        \* bytes of the chunks before the current one
  chunk_size,
  chunk_index,
  tag, header_pos, len, pos, buffer, namespace, \* g_control_command_parser_state
  handled      \* calls of es_control_command_handle: [namespace, id, at]

input  == <<stream, base, chunk_size>>
parser == <<tag, header_pos, len, pos, buffer, namespace>>
vars   == <<input, chunk_index, parser, handled>>

Tags == {"MAGIC", "PROTOCOL_VERSION", "NAMESPACE_LEN", "NAMESPACE", "COMMAND_ID"}

\* The message of a command, as the control client encodes it.
Encode(name, id) == Magic \o <<Version, Len(name)>> \o name \o <<id>>

\* es_control_namespace_store_resolve, 0 for NULL.
Resolve(name) == FirstMatch(name, Namespaces)

Init ==
  /\ stream \in Stream
  /\ base = 0 /\ chunk_size = 0 /\ chunk_index = 0
  /\ tag = "MAGIC" /\ header_pos = 0
  /\ len = 0 /\ pos = 0 /\ buffer = <<>> /\ namespace = 0
  /\ handled = <<>>

-----------------------------------------------------------------------------
InChunk == chunk_index < chunk_size

\* The number of bytes before the current one, and the current one.
Offset       == base + chunk_index
current_byte == stream.bytes[Offset + 1]

\* es_control_command_parser_enter_state; b is the byte given as data, -1 for NULL.
\* The members of the union that the new state does not use are cleared.
enter_state(t, b) ==
  /\ tag' = t
  /\ header_pos' = IF t = "MAGIC" /\ b = Magic[1] THEN 1 ELSE 0
  /\ len' = IF t = "NAMESPACE" THEN b ELSE 0
  /\ pos' = 0
  /\ buffer' = <<>>

restart(b) == enter_state("MAGIC", b) /\ namespace' = 0

next_byte == chunk_index' = chunk_index + 1

\* recv() returned the next n bytes.
ReceiveChunk(n) ==
  /\ ~InChunk
  /\ n <= Len(stream.bytes) - (base + chunk_size)
  /\ base' = base + chunk_size
  /\ chunk_size' = n
  /\ chunk_index' = 0
  /\ UNCHANGED <<stream, parser, handled>>

\* Variant: the end of the magic bytes is found one byte too late.
MagicByte_OffByOne ==
  /\ InChunk /\ tag = "MAGIC"
  /\ current_byte = Magic[header_pos + 1]
  /\ IF header_pos + 1 <= Len(Magic)
       THEN header_pos' = header_pos + 1 /\ UNCHANGED <<tag, len, pos, buffer>>
       ELSE enter_state("PROTOCOL_VERSION", -1)
  /\ next_byte
  /\ UNCHANGED <<input, namespace, handled>>

MagicByte ==
  /\ InChunk /\ tag = "MAGIC"
  /\ current_byte = Magic[header_pos + 1]
  /\ IF header_pos + 1 < Len(Magic)
       THEN header_pos' = header_pos + 1 /\ UNCHANGED <<tag, len, pos, buffer>>
       ELSE enter_state("PROTOCOL_VERSION", -1)
  /\ next_byte
  /\ UNCHANGED <<input, namespace, handled>>

\* Variant: the mismatching byte is read again from the restarted state.
MagicMismatch_Again ==
  /\ InChunk /\ tag = "MAGIC"
  /\ current_byte # Magic[header_pos + 1]
  /\ restart(-1)
  /\ UNCHANGED <<input, chunk_index, handled>>

\* Variant: the mismatching byte is skipped and the magic bytes go on after it.
MagicMismatch_Skip ==
  /\ InChunk /\ tag = "MAGIC"
  /\ current_byte # Magic[header_pos + 1]
  /\ next_byte
  /\ UNCHANGED <<input, parser, handled>>

MagicMismatch ==
  /\ InChunk /\ tag = "MAGIC"
  /\ current_byte # Magic[header_pos + 1]
  /\ restart(current_byte)
  /\ next_byte
  /\ UNCHANGED <<input, handled>>

ProtocolVersion ==
  /\ InChunk /\ tag = "PROTOCOL_VERSION"
  /\ current_byte = Version
  /\ enter_state("NAMESPACE_LEN", -1)
  /\ next_byte
  /\ UNCHANGED <<input, namespace, handled>>

\* The case of another version has no "continue": after the restart, control
\* falls through to the case of NAMESPACE_LEN with the same byte.
OtherVersion ==
  /\ InChunk /\ tag = "PROTOCOL_VERSION"
  /\ current_byte # Version
  /\ IF current_byte = 0 THEN restart(current_byte)
                         ELSE enter_state("NAMESPACE", current_byte) /\ UNCHANGED namespace
  /\ next_byte
  /\ UNCHANGED <<input, handled>>

NamespaceLenZero ==
  /\ InChunk /\ tag = "NAMESPACE_LEN"
  /\ current_byte = 0
  /\ restart(current_byte)
  /\ next_byte
  /\ UNCHANGED <<input, handled>>

NamespaceLen ==
  /\ InChunk /\ tag = "NAMESPACE_LEN"
  /\ current_byte # 0
  /\ enter_state("NAMESPACE", current_byte)
  /\ next_byte
  /\ UNCHANGED <<input, namespace, handled>>

\* required_bytes_for_namespace, remaining_bytes_in_chunk (a uint8_t) and
\* available_bytes.
Required  == len - pos
Remaining == (chunk_size - chunk_index) % ByteMod
Available == Min2(Remaining, Required)

\* The namespace buffer after the copy.
Copied == buffer \o SubSeq(stream.bytes, Offset + 1, Offset + Available)

\* The namespace goes on in the next chunk.
NamespacePart ==
  /\ InChunk /\ tag = "NAMESPACE"
  /\ pos + Available < len
  /\ pos' = pos + Available
  /\ buffer' = Copied
  /\ chunk_index' = chunk_index + Available
  /\ UNCHANGED <<input, tag, header_pos, len, namespace, handled>>

NamespaceResolved ==
  /\ InChunk /\ tag = "NAMESPACE"
  /\ pos + Available >= len
  /\ Resolve(Copied) # 0
  /\ enter_state("COMMAND_ID", -1)
  /\ namespace' = Resolve(Copied)
  /\ chunk_index' = chunk_index + Available
  /\ UNCHANGED <<input, handled>>

\* The cursor only moves on by the current byte: what this chunk holds of the
\* namespace is read again, as the start of a message.
NamespaceUnknown ==
  /\ InChunk /\ tag = "NAMESPACE"
  /\ pos + Available >= len
  /\ Resolve(Copied) = 0
  /\ restart(current_byte)
  /\ next_byte
  /\ UNCHANGED <<input, handled>>

\* Variant: the command id is tried as the first byte of the magic.
CommandId_RestartWith ==
  /\ InChunk /\ tag = "COMMAND_ID"
  /\ handled' = Append(handled, [namespace |-> namespace, id |-> current_byte, at |-> Offset + 1])
  /\ restart(current_byte)
  /\ next_byte
  /\ UNCHANGED input

CommandId ==
  /\ InChunk /\ tag = "COMMAND_ID"
  /\ handled' = Append(handled, [namespace |-> namespace, id |-> current_byte, at |-> Offset + 1])
  /\ restart(-1)
  /\ next_byte
  /\ UNCHANGED input

ParserStep ==
  \/ MagicByte \/ MagicMismatch \/ ProtocolVersion \/ OtherVersion
  \/ NamespaceLenZero \/ NamespaceLen
  \/ NamespacePart \/ NamespaceResolved \/ NamespaceUnknown \/ CommandId

Next == ParserStep \/ \E n \in 1..ChunkSize : ReceiveChunk(n)

Spec == Init /\ [][Next]_vars

\* recv() returns what the client sent, and the loop runs.
FairSpec == Spec /\ WF_vars(Next)

-----------------------------------------------------------------------------
(* Properties *)

\* The documented invariants of the parser state: header_pos is an index into
\* the magic bytes, the namespace length is not zero and pos is below it, and a
\* command id is only expected with a resolved namespace.
TypeOK ==
  /\ stream.bytes \in Seq(Byte)
  /\ base \in Nat /\ chunk_size \in 0..ChunkSize /\ chunk_index \in 0..chunk_size
  /\ base + chunk_size <= Len(stream.bytes)
  /\ tag \in Tags
  /\ header_pos \in 0..(Len(Magic) - 1)
  /\ len \in Byte /\ pos \in Nat
  /\ tag = "NAMESPACE" => pos < len
  /\ tag = "COMMAND_ID" => namespace # 0
  /\ namespace \in 0..Len(Namespaces)
  /\ handled \in Seq([namespace : 1..Len(Namespaces), id : Byte, at : Nat])

\* The namespace buffer holds the bytes of the stream just before the cursor,
\* also when they came in several chunks.
BufferIsInput ==
  tag = "NAMESPACE" =>
    /\ Len(buffer) = pos
    /\ buffer = SubSeq(stream.bytes, Offset - pos + 1, Offset)

\* The commands handled so far.
Calls == [i \in DOMAIN handled |-> [namespace |-> handled[i].namespace, id |-> handled[i].id]]

Consumed == base + chunk_size = Len(stream.bytes) /\ ~InChunk

\* The bytes b have the bytes s after their first p ones.
Occurs(s, b, p) ==
  /\ p >= 0 /\ p + Len(s) <= Len(b)
  /\ \A i \in 1..Len(s) : b[p + i] = s[i]

At(s, p) == Occurs(s, stream.bytes, p)

\* What follows magic bytes after the first p bytes of b: the version or none, the
\* position of the length, the length, and the name up to its last byte.
ByteAt(b, q)     == IF q <= Len(b) THEN b[q] ELSE 0
HasVersion(b, p) == ByteAt(b, p + Len(Magic) + 1) = Version
LenAt(b, p)      == p + Len(Magic) + (IF HasVersion(b, p) THEN 2 ELSE 1)
NameLen(b, p)    == ByteAt(b, LenAt(b, p))
NameEnd(b, p)    == LenAt(b, p) + NameLen(b, p)
NameAt(b, p)     == SubSeq(b, LenAt(b, p) + 1, NameEnd(b, p))

\* It is no command: no name, one that is cut off or one that is not registered.
Ignored(b, p) ==
  NameLen(b, p) = 0 \/ NameEnd(b, p) > Len(b) \/ Resolve(NameAt(b, p)) = 0

\* After at[i] bytes the stream s holds a message for its i-th command; magic bytes
\* that begin outside of these messages are no command and end before the next one.
Sent(s) ==
  LET b == s.bytes
      n == Len(s.at)
  IN  /\ s.at \in Seq(Nat) /\ s.commands \in Seq([namespace : Nat, id : Byte])
      /\ Len(s.commands) = n
      /\ \A i \in 1..n :
           /\ Occurs(Magic, b, s.at[i]) /\ HasVersion(b, s.at[i])
           /\ ~Ignored(b, s.at[i]) /\ NameEnd(b, s.at[i]) < Len(b)
           /\ s.commands[i].namespace = Resolve(NameAt(b, s.at[i]))
           /\ s.commands[i].id = b[NameEnd(b, s.at[i]) + 1]
           /\ \A j \in (i + 1)..n : NameEnd(b, s.at[i]) < s.at[j]
      /\ \A p \in 0..Len(b) :
           Occurs(Magic, b, p) /\ (\A i \in 1..n : p < s.at[i] \/ p > NameEnd(b, s.at[i]))
             => Ignored(b, p) /\ \A i \in 1..n : p < s.at[i] => NameEnd(b, p) <= s.at[i]

AsSent ==
  /\ Len(Calls) <= Len(stream.commands)
  /\ Calls = SubSeq(stream.commands, 1, Len(Calls))
  /\ Consumed => Calls = stream.commands

\* However the stream is cut into chunks, and whatever noise without the magic
\* bytes or messages for unknown namespaces stand between the messages, the
\* commands are handled as they were sent: in order, each once, none left out.
CommandsAsSent == AsSent \/ ~Sent(stream)

\* The first p bytes of the stream end in the magic bytes and the version.
VersionBefore(p) == At(Magic, p - 1 - Len(Magic)) /\ stream.bytes[p] = Version

\* They end in the magic bytes, and the next one is not the version: OtherVersion takes it
\* for the length.
FellThrough(p) == At(Magic, p - Len(Magic)) /\ stream.bytes[p + 1] # Version

\* The first q bytes of the stream end in a message up to its name, or in one of another
\* version that fell through, and the name resolves to namespace ns.
NameBefore(q, ns) ==
  \E n \in 1..(ByteMod - 1) :
    LET p == q - n - 1   \* bytes before the length
    IN  /\ VersionBefore(p) \/ FellThrough(p)
        /\ stream.bytes[p + 1] = n
        /\ Resolve(SubSeq(stream.bytes, p + 2, q)) = ns

\* For any bytes, cut in any way: a command is handled only at the end of a message with
\* its namespace and its id, the one exception being messages of another version: the
\* parser parses them as if they had no version (FellThrough; see VersionChecked).
\* Nothing that it kept from an earlier chunk or from an abandoned message leaks into a
\* later command.
HandledFromMessage ==
  \A i \in DOMAIN handled :
    /\ NameBefore(handled[i].at - 1, handled[i].namespace)
    /\ stream.bytes[handled[i].at] = handled[i].id

(* What an assertion and a comment say and the code does not do *)

\* The assertion remaining_bytes_in_chunk > 0.
RemainingPositive == InChunk /\ tag = "NAMESPACE" => Remaining > 0

\* A message of another version is not parsed: every command was sent with the version.
VersionChecked ==
  \A i \in DOMAIN handled :
    \E n \in 1..(ByteMod - 1) :
      VersionBefore(handled[i].at - n - 2) /\ stream.bytes[handled[i].at - n - 1] = n

(* Liveness *)

\* For any bytes, cut in any way: every byte is consumed, unless a chunk of the largest
\* size begins inside of a name, on which the assertion fails and, without assertions, the
\* loop does not end.
AllConsumed == <>(Consumed \/ ~RemainingPositive)
=============================================================================
