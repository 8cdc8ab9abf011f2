-------------------------- MODULE HandshakeMessages --------------------------
(***************************************************************************)
(* send_handshake_msg and recv_handshake_msg over send_all and recv_all:   *)
(* the handshake messages of one direction, byte by byte, through a socket *)
(* that holds a few of them, may end or be reset at any byte, and may      *)
(* deliver bytes its checksum failed to protect.                           *)
(*                                                                         *)
(* Module Handshake takes a message for one element of its stream, altered *)
(* or not.  Here is what that rests on: there is no length a receiver      *)
(* accepts on its way to the next message but the one it expects.          *)
(*                                                                         *)
(* A caller stops at the first call that fails: both programs then go to   *)
(* their end label and close the socket.                                   *)
(***************************************************************************)
EXTENDS Framing, Integers

CONSTANTS
    Script,       \* the messages of this direction: type, length, and whether it is signed
    Contents,     \* the bytes a body is made of
    SocketBuffer, \* the bytes the kernel holds between the two ends
    MaxAltered    \* how many bytes the network may alter

\* A signed message is CertificateVerify, the only one whose receiver accepts
\* a shorter body, and then verifies it.
ASSUME ScriptAssumption ==
    /\ Script \in Seq([type : Byte, length : 1..TLS_HANDSHAKE_MAX_BODY_LEN, signed : BOOLEAN])
    /\ Contents \subseteq Byte
ASSUME BoundsAssumption == SocketBuffer \in Nat \ {0} /\ MaxAltered \in Nat

Bodies(k) == [1..Script[k].length -> Contents]
Messages  == UNION {[type : {Script[k].type}, body : [1..Script[k].length -> Byte]] : k \in DOMAIN Script}

\* A byte on its way.  Which message it was sent for, and where in it, is
\* history: no step of either side looks at it.
SentByte(k, i, value) == [of |-> k, at |-> i, value |-> value]
Bytes == [of : Nat, at : Nat, value : Byte]
Values(bytes) == [i \in DOMAIN bytes |-> bytes[i].value]

NoLength == -1  \* body_len before the first call that succeeds

-----------------------------------------------------------------------------
(* State *)

VARIABLES
    sender,     \* "ready", in a call ("sending"), or its socket "closed" or "reset"
    started,    \* the messages send_handshake_msg was called for
    unsent,     \* the bytes of the latest the kernel has not taken
    stream,     \* the bytes sent and not yet read
    receiver,   \* in a call ("header", "body"), back from it ("returned"), or ended
    header,     \* the bytes of the header read so far
    body,       \* the bytes of the caller's buffer this call has written
    result,     \* what the last call returned: -1, 0 or 1
    bodyLen,    \* body_len of main, which all calls share
    delivered,  \* the messages the program went on with
    touched,    \* the numbers of the messages with an altered byte
    altered     \* how many bytes were altered so far

sending   == <<sender, started, unsent>>
receiving == <<receiver, header, body, result, bodyLen, delivered>>
vars == <<sending, stream, receiving, touched, altered>>

SenderStopped   == {"closed", "reset"}
ReceiverStopped == {"done", "refused", "disconnected", "failed"}

Init ==
    /\ sender = "ready" /\ started = <<>> /\ unsent = <<>>
    /\ stream = <<>>
    /\ receiver = "header" /\ header = <<>> /\ body = <<>>
    /\ result = 0 /\ bodyLen = NoLength
    /\ delivered = <<>>
    /\ touched = {} /\ altered = 0

-----------------------------------------------------------------------------
(* send_handshake_msg *)

Tagged(k, bytes) == [i \in DOMAIN bytes |-> SentByte(k, i, bytes[i])]

\* The check of the length, and the header.
Start(content) ==
    LET k == Len(started) + 1
        m == [type |-> Script[k].type, body |-> content] IN
    /\ sender = "ready"
    /\ Len(content) <= TLS_HANDSHAKE_MAX_BODY_LEN
    /\ started' = Append(started, m)
    /\ unsent' = Tagged(k, Encode(m))
    /\ sender' = "sending"
    /\ UNCHANGED <<stream, receiving, touched, altered>>

Room == receiver \in ReceiverStopped \/ Len(stream) < SocketBuffer

\* One turn of the loop in send_all, for the header and then the body: the
\* kernel takes what it has room for, a byte in each step here.
SendByte ==
    /\ sender = "sending"
    /\ unsent # <<>>
    /\ Room
    /\ stream' = IF receiver \in ReceiverStopped THEN stream ELSE Append(stream, Head(unsent))
    /\ unsent' = Tail(unsent)
    /\ UNCHANGED <<sender, started, receiving, touched, altered>>

SendReturns ==
    /\ sender = "sending"
    /\ unsent = <<>>
    /\ sender' = "ready"
    /\ UNCHANGED <<started, unsent, stream, receiving, touched, altered>>

\* The program has sent all it wants, or a call failed part of the way.
SenderStops ==
    /\ sender \notin SenderStopped
    /\ sender' \in SenderStopped
    /\ UNCHANGED <<started, unsent, stream, receiving, touched, altered>>

-----------------------------------------------------------------------------
(* recv_handshake_msg *)

\* What the caller asks for.  body_capacity is the exact length it expects.
Expected == Script[Len(delivered) + 1]

HeaderRead == Len(header) = TLS_HANDSHAKE_HEADER_LEN
Announced  == BodyLength(Values(header))

Mutant_AnyLength == header[1].value = Expected.type
HeaderAccepted == header[1].value = Expected.type /\ Announced <= Expected.length

\* One turn of the loop in recv_all.
RecvHeaderByte ==
    /\ receiver = "header"
    /\ ~HeaderRead
    /\ stream # <<>>
    /\ header' = Append(header, Head(stream))
    /\ stream' = Tail(stream)
    /\ UNCHANGED <<sending, receiver, body, result, bodyLen, delivered, touched, altered>>

\* The first byte of the header and its length are checked.
BodyStarts ==
    /\ receiver = "header"
    /\ HeaderRead
    /\ HeaderAccepted
    /\ receiver' = "body"
    /\ UNCHANGED <<sending, stream, header, body, result, bodyLen, delivered, touched, altered>>

RecvBodyByte ==
    /\ receiver = "body"
    /\ Len(body) < Announced
    /\ stream # <<>>
    /\ body' = Append(body, Head(stream))
    /\ stream' = Tail(stream)
    /\ UNCHANGED <<sending, receiver, header, result, bodyLen, delivered, touched, altered>>

\* The call returns: *body_len is set only if it succeeds.
Returns(rc) ==
    /\ receiver' = "returned"
    /\ result' = rc
    /\ bodyLen' = IF rc = 0 THEN Announced ELSE bodyLen
    /\ UNCHANGED <<sending, stream, header, body, delivered, touched, altered>>

Mutant_OneRecvForAll == receiver = "body" /\ body # <<>> /\ Returns(0)
RecvSucceeds == receiver = "body" /\ Len(body) = Announced /\ Returns(0)

RecvRefuses == receiver = "header" /\ HeaderRead /\ ~HeaderAccepted /\ Returns(-1)

\* recv returns 0 when the sender has closed and no byte is left, -1 when the
\* connection was reset: recv_all hands on 1 and -1.
EndOfStream == IF sender = "reset" THEN -1 ELSE 1

RecvEnds ==
    /\ \/ receiver = "header" /\ ~HeaderRead
       \/ receiver = "body" /\ Len(body) < Announced
    /\ sender = "reset" \/ (sender = "closed" /\ stream = <<>>)
    /\ Returns(EndOfStream)

-----------------------------------------------------------------------------
(* The caller *)

\* The socket is closed at the end of the program, with what is still unread.
ReceiverStopsAs(outcome) ==
    /\ receiver' = outcome
    /\ stream' = <<>>
    /\ header' = <<>>
    /\ body' = <<>>
    /\ UNCHANGED <<sending, result, bodyLen, delivered, touched, altered>>

\* received_bytes == -1, else received_bytes == 1
Failed(rc) == rc = -1 \/ rc = 1

\* The length must be the one of the key, ciphertext or Finished; a signature
\* may be shorter and is verified, which only the one that was sent passes.
Mutant_ShortBodyAccepted == bodyLen <= Expected.length
Mutant_SignatureNotVerified ==
    IF Expected.signed THEN bodyLen \in 1..Expected.length ELSE bodyLen = Expected.length
BodyAccepted ==
    IF Expected.signed
    THEN bodyLen \in 1..Expected.length /\ Values(body) = started[Len(delivered) + 1].body
    ELSE bodyLen = Expected.length

\* The program hashes the message and goes on to its next call, if there is one.
CallerGoesOn ==
    /\ receiver = "returned"
    /\ ~Failed(result)
    /\ BodyAccepted
    /\ delivered' = Append(delivered, [type |-> Expected.type, body |-> Values(body)])
    /\ receiver' = IF Len(delivered') = Len(Script) THEN "done" ELSE "header"
    /\ header' = <<>>
    /\ body' = <<>>
    /\ UNCHANGED <<sending, stream, result, bodyLen, touched, altered>>

CallerStops ==
    /\ receiver = "returned"
    /\ Failed(result) \/ ~BodyAccepted
    /\ ReceiverStopsAs(IF HeaderRead /\ (result = 0 \/ ~HeaderAccepted)
                       THEN "refused" ELSE "disconnected")

\* recv, the library calls between two messages, a check of the contents that
\* an earlier alteration makes fail, anything else.
ReceiverFails ==
    /\ receiver \notin ReceiverStopped
    /\ ReceiverStopsAs("failed")

-----------------------------------------------------------------------------
(* The network, and the whole direction *)

Garble ==
    /\ altered < MaxAltered
    /\ \E i \in DOMAIN stream : \E value \in Byte \ {stream[i].value} :
          /\ stream' = [stream EXCEPT ![i] = [stream[i] EXCEPT !.value = value]]
          /\ touched' = touched \union {stream[i].of}
    /\ altered' = altered + 1
    /\ UNCHANGED <<sending, receiving>>

BothStopped ==
    /\ sender \in SenderStopped
    /\ receiver \in ReceiverStopped
    /\ UNCHANGED vars

SenderStep   == SendByte \/ SendReturns
ReceiverStep ==
    \/ RecvHeaderByte \/ BodyStarts \/ RecvBodyByte
    \/ RecvSucceeds \/ RecvRefuses \/ RecvEnds
    \/ CallerGoesOn \/ CallerStops

Next ==
    \/ Len(started) < Len(Script) /\ \E content \in Bodies(Len(started) + 1) : Start(content)
    \/ SenderStep \/ SenderStops
    \/ ReceiverStep \/ ReceiverFails
    \/ Garble
    \/ BothStopped

Spec == Init /\ [][Next]_vars

\* A call that can go on goes on.  Nothing has to be sent, and nothing has to fail.
FairSpec == Spec /\ WF_vars(SenderStep) /\ WF_vars(ReceiverStep)

-----------------------------------------------------------------------------
(* Properties *)

TypeOK ==
    /\ sender \in {"ready", "sending"} \union SenderStopped
    /\ started \in Seq(Messages) /\ Len(started) <= Len(Script)
    /\ unsent \in Seq(Bytes)
    /\ stream \in Seq(Bytes)
    /\ receiver \in {"header", "body", "returned"} \union ReceiverStopped
    /\ header \in Seq(Bytes) /\ Len(header) <= TLS_HANDSHAKE_HEADER_LEN
    /\ body \in Seq(Bytes)
    /\ result \in {-1, 0, 1}
    /\ bodyLen \in Nat \union {NoLength}
    /\ delivered \in Seq(Messages)
    /\ touched \subseteq DOMAIN Script
    /\ altered \in 0..MaxAltered

\* A receiver never loses the boundary between two messages, whatever is
\* altered: what it takes for byte i of the next message was sent as that.
BoundaryKept ==
    LET k == Len(delivered) + 1 IN
    /\ \A i \in DOMAIN header : header[i].of = k /\ header[i].at = i
    /\ \A i \in DOMAIN body : body[i].of = k /\ body[i].at = TLS_HANDSHAKE_HEADER_LEN + i

\* A receiver refuses a message only if a byte of this very message was
\* altered: every length up to the largest survives its three bytes, and
\* however sends and receives are cut, nothing is lost or read twice.
RefusesOnlyAltered == receiver = "refused" => Len(delivered) + 1 \in touched

\* The messages whose last byte the kernel has taken.
SentMessages ==
    IF unsent = <<>> THEN started ELSE SubSeq(started, 1, Len(started) - 1)

\* What module Handshake takes for granted: whole messages in order, and an
\* altered one changes nothing but its own contents.
Stream == INSTANCE MessageStream WITH
    Messages  <- Messages,
    sent      <- SentMessages,
    delivered <- delivered,
    touched   <- touched
StreamSpec == Stream!Spec

\* A handshake message that was handed over is accepted or refused: unlike a
\* record, an altered one cannot make its receiver wait for more bytes.
NeverStalls ==
    \A n \in 1..Len(Script) :
        Len(SentMessages) >= n ~> Len(delivered) >= n \/ receiver \in ReceiverStopped

\* tls_handshake.h:23 says of recv_handshake_msg "0 if success; -1 if error".
ReturnsAsDocumented == result \in {0, -1}
==============================================================================
