-------------------------- MODULE MCCommandParser --------------------------
EXTENDS CommandParser, SequencesExt

MagicBytes == <<3, 1, 2>>
Registered == << <<1>>, <<2, 3>> >>

-----------------------------------------------------------------------------
(* Two messages, with something before each that is not a command. *)

Noise == BoundedSeq({1, 2, 3}, 2)

\* A name of length zero, another version before an unknown name, and a message
\* whose magic bytes are interrupted.
Malformed == {MagicBytes \o <<0, 0>>, MagicBytes \o <<2, 0, 0>>, <<3, 0, 1, 2, 0, 1, 1, 1>>}

\* The command id 3 is also the first magic byte.  <<3, 0>> is not registered
\* and starts like no registered name.
Message(name, id) ==
  [bytes    |-> Encode(name, id),
   commands |-> IF Resolve(name) = 0 THEN <<>>
                ELSE << [namespace |-> Resolve(name), id |-> id] >>]

Messages == {Message(name, id) : name \in ToSet(Registered), id \in {1, 3}}
              \cup {Message(<<3, 0>>, 1)}

\* The place of a message, if it is a command.
Place(m, p) == IF m.commands = <<>> THEN <<>> ELSE <<p>>

TwoMessages ==
  {[bytes    |-> n1 \o m1.bytes \o n2 \o m2.bytes,
    commands |-> m1.commands \o m2.commands,
    at       |-> Place(m1, Len(n1)) \o Place(m2, Len(n1 \o m1.bytes \o n2))] :
      n1 \in Noise \cup Malformed, m1 \in Messages, n2 \in Noise \cup Malformed, m2 \in Messages}

\* These streams are as Sent describes them: noise and malformed messages included.
ASSUME StreamsSent == \A s \in TwoMessages : Sent(s)

-----------------------------------------------------------------------------
\* Every stream of at most seven bytes, the length of a short message; one that falls
\* through for its version has six.
AnyBytes == {[bytes |-> b, commands |-> <<>>, at |-> <<>>] : b \in BoundedSeq(Byte, 7)}

Streams == TwoMessages \cup AnyBytes
=============================================================================
