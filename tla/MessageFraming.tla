--------------------------- MODULE MessageFraming ----------------------------
(***************************************************************************)
(* send_message, receive_exact and receive_message of kem_key_server.py,   *)
(* used by both sides of the key exchange, over one direction of a TCP     *)
(* connection: a length in HeaderSize bytes, then the message, over a      *)
(* stream that is cut into pieces anywhere, closed or silent.              *)
(*                                                                         *)
(* The peer is one of ours, which sends a program of messages, or another, *)
(* which sends whatever bytes it likes.                                    *)
(***************************************************************************)
EXTENDS Integers, Sequences, FiniteSets

CONSTANTS
    Base,              \* values of a byte, 256 in the code
    HeaderSize,        \* bytes of a length, 4 in the code
    MaxMessageSize,    \* MAX_MESSAGE_SIZE
    Capacity,          \* bytes the connection holds
    Messages,          \* encoded messages that are JSON objects
    Programs,          \* what a peer of ours may set out to send
    ForeignStreams,    \* what another peer may send
    NoLength           \* the header of the message has not been read

Bytes == 0 .. (Base - 1)

\* How much a byte counts that k bytes follow.
Power[k \in 0 .. HeaderSize] == IF k = 0 THEN 1 ELSE Base * Power[k - 1]

ASSUME FramingAssumption ==
    /\ Base \in Nat \ {0, 1} /\ HeaderSize \in Nat \ {0} /\ Capacity \in Nat \ {0}
    /\ MaxMessageSize \in Nat /\ HeaderSize <= MaxMessageSize
    /\ MaxMessageSize < Power[HeaderSize]
    /\ Messages \subseteq Seq(Bytes) \ {<<>>}
    /\ Programs \subseteq Seq(Messages) \ {<<>>}
    /\ ForeignStreams \subseteq Seq(Bytes)
    /\ NoLength \notin Nat

VARIABLES
    toSend,            \* messages the peer has still to send
    pending,           \* bytes of the current message still to be written
    peer,              \* "sending", "closed": its end of the connection
    stream,            \* bytes on their way
    expected,          \* messages the receiver has still to receive
    header,            \* the length it has read, or NoLength
    received_data,     \* bytes receive_exact has collected
    receiver,          \* "receiving", "done" or "failed"
    accepted,          \* messages the peer has begun to send
    result,            \* messages the receiver has returned
    broken             \* the connection is no longer reliable

senderVars == <<toSend, pending, accepted>>
receiverVars == <<expected, header, received_data, receiver, result>>
vars == <<toSend, pending, peer, stream, expected, header, received_data, receiver,
          accepted, result, broken>>

------------------------------------------------------------------------------
(* The length: struct.pack and struct.unpack of "!I", most significant first. *)

Pack(n) == [i \in 1 .. HeaderSize |-> (n \div Power[HeaderSize - i]) % Base]

Unpack(b) ==
    LET value[i \in 0 .. HeaderSize] == IF i = 0 THEN 0 ELSE value[i - 1] * Base + b[i]
    IN  value[HeaderSize]

ValidAny(n) == n # 0           \* mutant of ValidLength: no upper limit

ValidLength(n) == n \in 1 .. MaxMessageSize

------------------------------------------------------------------------------
Init ==
    /\ \/ toSend \in Programs /\ pending = <<>> /\ broken = FALSE
       \/ toSend = <<>> /\ pending \in ForeignStreams /\ broken = TRUE
    /\ peer = "sending"
    /\ stream = <<>>
    /\ expected \in 1 .. (IF toSend = <<>> THEN 1 ELSE Len(toSend))
    /\ header = NoLength
    /\ received_data = <<>>
    /\ receiver = "receiving"
    /\ accepted = <<>>
    /\ result = <<>>

SendMessageUnchecked ==        \* mutant of SendMessage: no size check
    /\ peer = "sending" /\ pending = <<>> /\ toSend # <<>>
    /\ pending' = Pack(Len(Head(toSend))) \o Head(toSend)
    /\ toSend' = Tail(toSend)
    /\ accepted' = Append(accepted, Head(toSend))
    /\ UNCHANGED <<peer, stream, broken, receiverVars>>

\* send_message: the header and the message are handed to sendall one after the
\* other.
SendMessage ==
    /\ peer = "sending" /\ pending = <<>> /\ toSend # <<>>
    /\ Len(Head(toSend)) <= MaxMessageSize
    /\ pending' = Pack(Len(Head(toSend))) \o Head(toSend)
    /\ toSend' = Tail(toSend)
    /\ accepted' = Append(accepted, Head(toSend))
    /\ UNCHANGED <<peer, stream, broken, receiverVars>>

\* "Outgoing message is too large": nothing of it is written and the run ends.
SendTooLarge ==
    /\ peer = "sending" /\ pending = <<>> /\ toSend # <<>>
    /\ Len(Head(toSend)) > MaxMessageSize
    /\ peer' = "closed"
    /\ broken' = TRUE
    /\ UNCHANGED <<stream, senderVars, receiverVars>>

\* sendall hands over as many bytes as the connection takes.
Write ==
    /\ peer = "sending" /\ pending # <<>> /\ receiver = "receiving"
    /\ \E k \in 1 .. Len(pending) :
           /\ Len(stream) + k <= Capacity
           /\ stream' = stream \o SubSeq(pending, 1, k)
           /\ pending' = SubSeq(pending, k + 1, Len(pending))
    /\ UNCHANGED <<toSend, peer, accepted, broken, receiverVars>>

\* The peer's run is over and closes the connection after its last byte.
Close ==
    /\ peer = "sending" /\ pending = <<>> /\ toSend = <<>>
    /\ peer' = "closed"
    /\ UNCHANGED <<stream, senderVars, broken, receiverVars>>

\* The peer ends anywhere else: it is killed, its sendall times out, or the receiver
\* has closed.  What is under way may be thrown away.
PeerFails ==
    /\ peer = "sending" /\ (pending # <<>> \/ toSend # <<>>)
    /\ peer' = "closed"
    /\ stream' \in {stream, <<>>}
    /\ broken' = TRUE
    /\ UNCHANGED <<senderVars, receiverVars>>

\* The network or the peer falls silent for as long as the timeout.
Stall ==
    /\ peer = "sending" /\ ~broken
    /\ broken' = TRUE
    /\ UNCHANGED <<peer, stream, senderVars, receiverVars>>

------------------------------------------------------------------------------
(* The receiver                                                            *)

ReceiverFails ==
    /\ receiver' = "failed"
    /\ UNCHANGED <<expected, header, result>>

Required == IF header = NoLength THEN HeaderSize ELSE header

\* What receive_message does with a complete header and with a complete message.
HeaderComplete(data) ==
    \/ /\ ValidLength(Unpack(data))
       /\ header' = Unpack(data)
       /\ received_data' = <<>>
       /\ UNCHANGED <<expected, receiver, result>>
    \/ /\ ~ValidLength(Unpack(data))
       /\ received_data' = data
       /\ ReceiverFails

MessageComplete(data) ==
    \/ /\ data \in Messages
       /\ result' = Append(result, data)
       /\ expected' = expected - 1
       /\ receiver' = IF expected = 1 THEN "done" ELSE "receiving"
       /\ header' = NoLength
       /\ received_data' = <<>>
    \/ /\ data \notin Messages
       /\ received_data' = data
       /\ ReceiverFails

RequestWhole(n) == Required    \* mutant of Request: recv(required_size)

\* The bytes asked of recv when n have been received.
Request(n) == Required - n

\* receive_exact takes a piece of what is there, at most what is missing.
Receive ==
    /\ receiver = "receiving" /\ stream # <<>>
    /\ \E k \in 1 .. Len(stream) :
           LET data == received_data \o SubSeq(stream, 1, k) IN
           /\ k <= Request(Len(received_data))
           /\ stream' = SubSeq(stream, k + 1, Len(stream))
           /\ \/ /\ Len(data) < Required
                 /\ received_data' = data
                 /\ UNCHANGED <<expected, header, receiver, result>>
              \/ Len(data) >= Required /\ header = NoLength /\ HeaderComplete(data)
              \/ Len(data) >= Required /\ header # NoLength /\ MessageComplete(data)
    /\ UNCHANGED <<peer, senderVars, broken>>

ReceiveClosedRetries ==        \* mutant of ReceiveClosed: an empty piece is no end
    /\ receiver = "receiving" /\ stream = <<>> /\ peer = "closed"
    /\ UNCHANGED vars

\* An empty piece: "Connection closed before the complete message arrived".
ReceiveClosed ==
    /\ receiver = "receiving" /\ stream = <<>> /\ peer = "closed"
    /\ ReceiverFails
    /\ UNCHANGED <<received_data, peer, stream, senderVars, broken>>

\* recv waits no longer than the timeout of the connection.
ReceiveTimeout ==
    /\ receiver = "receiving" /\ stream = <<>> /\ peer = "sending" /\ broken
    /\ ReceiverFails
    /\ UNCHANGED <<received_data, peer, stream, senderVars, broken>>

Next ==
    \/ SendMessage
    \/ SendTooLarge
    \/ Write
    \/ Close
    \/ PeerFails
    \/ Stall
    \/ Receive
    \/ ReceiveClosed
    \/ ReceiveTimeout

Spec == Init /\ [][Next]_vars

\* The receiver runs, and its timeout expires; the sender and the network are only
\* relied on while nothing has gone wrong.
Fairness ==
    /\ WF_vars(~broken /\ (SendMessage \/ SendTooLarge \/ Write \/ Close))
    /\ WF_vars(Receive)
    /\ WF_vars(ReceiveClosed)
    /\ WF_vars(ReceiveTimeout)

FairSpec == Spec /\ Fairness

------------------------------------------------------------------------------
(* Properties                                                              *)

TypeOK ==
    /\ toSend \in Seq(Messages)
    /\ pending \in Seq(Bytes)
    /\ peer \in {"sending", "closed"}
    /\ stream \in Seq(Bytes) /\ Len(stream) <= Capacity
    /\ expected \in Nat
    /\ header \in 1 .. MaxMessageSize \union {NoLength}
    /\ received_data \in Seq(Bytes)
    /\ receiver \in {"receiving", "done", "failed"}
    /\ accepted \in Seq({m \in Messages : Len(m) <= MaxMessageSize})
    /\ result \in Seq(Messages)
    /\ broken \in BOOLEAN

\* However the stream is cut, the receiver returns the messages of a peer of ours
\* whole, in order and once, and gives up only on a broken connection.
Channel == INSTANCE MessageChannel WITH
    offered <- accepted,
    taken <- result,
    failed <- receiver = "failed"

ChannelSpec == Channel!Spec

\* Whatever another peer sends, the receiver never collects more than the largest
\* message it accepts.
MemoryBounded == Len(received_data) <= MaxMessageSize

\* While nothing goes wrong, everything a receiver waits for arrives.
AllReceived == <>(broken \/ receiver = "done")

\* Whatever goes wrong, a receiver does not wait for ever.
ReceiverEnds == <>(receiver # "receiving")
==============================================================================
