----------------------------- MODULE RecordLayer -----------------------------
(***************************************************************************)
(* src/tls_record.c: one direction of the application data of a session,   *)
(* for any number of calls of send_encrypted_record on one side and of     *)
(* recv_encrypted_record on the other.  The socket between them is a       *)
(* bounded buffer of bytes that may break at any byte, or deliver bytes    *)
(* its checksum failed to protect.                                         *)
(*                                                                         *)
(* Both ends start with the same key and static IV of this direction (what *)
(* module Handshake guarantees), so of tls_record_state only the sequence  *)
(* number is state.  Encryption is symbolic: a byte of an encrypted        *)
(* fragment names the record it belongs to and its place in it, and the    *)
(* tag matches exactly what was sealed under the same key, nonce and       *)
(* header.  The five bytes of a header travel as one.                      *)
(*                                                                         *)
(* A caller stops at the first call that fails: both programs then go to   *)
(* their end label and close the socket.                                   *)
(***************************************************************************)
EXTENDS Naturals, Sequences

\* An operator named Mutant_... is no part of the specification: it is what a
\* bug in the code would make of the definition it precedes.

CONSTANTS
    Texts,          \* what a plaintext may say
    MaxPlaintext,   \* TLS_RECORD_MAX_PLAINTEXT_LEN
    Capacity,       \* plaintext_capacity, sizeof(plaintext) - 1 in both programs
    TagLen,         \* AES_GCM_TAG_LEN
    Modulus,        \* the values of a sequence number, 2^64
    SocketBuffer,   \* the bytes the kernel holds between the two ends
    MaxRecords,     \* how many records the sender encrypts
    MaxGarbled      \* how many bytes the network may alter

ASSUME SizeAssumption ==
    /\ MaxPlaintext \in Nat \ {0}
    /\ Capacity \in Nat
    /\ TagLen \in Nat \ {0}
    /\ SocketBuffer \in Nat \ {0}
    /\ MaxGarbled \in Nat
\* No session sends more records than there are sequence numbers: the code
\* does not check it.
ASSUME RecordsAssumption == MaxRecords \in Nat /\ Modulus \in Nat \ {0} /\ MaxRecords <= Modulus

-----------------------------------------------------------------------------
(* Values *)

\* static_iv XOR sequence_number: for one static IV, as many nonces as numbers.
Mutant_LowByteOnly(sequence_number) == [static_iv |-> "iv", xor |-> sequence_number % 2]
Nonce(sequence_number) == [static_iv |-> "iv", xor |-> sequence_number]

\* sequence_number++ on a uint64_t
NextSequence(sequence_number) == (sequence_number + 1) % Modulus

Nonces  == {Nonce(n) : n \in 0..(Modulus - 1)}
Records == [nonce : Nonces, text : Texts, length : 1..MaxPlaintext]

EncryptedLen(r) == r.length + TagLen

Header(length)  == [part |-> "header", length |-> length]
BadHeader       == [part |-> "bad header"]   \* another content type or version
FragmentByte(r, i) == [part |-> "fragment", of |-> r, at |-> i]
Noise           == [part |-> "noise"]        \* a byte of no record
GarbledText     == "garbled"

\* Ciphertext and tag.
Fragment(r) == [i \in 1..EncryptedLen(r) |-> FragmentByte(r, i)]

Bytes ==
    [part : {"header"}, length : Nat] \union {BadHeader, Noise}
      \union [part : {"fragment"}, of : Records, at : Nat]

-----------------------------------------------------------------------------
(* State *)

VARIABLES
    sender,     \* "ready", in a call ("header", "fragment"), or its socket "closed" or "reset"
    current,    \* how many bytes of the current fragment the kernel has taken
    sendSeq,    \* send_state.sequence_number
    stream,     \* the bytes sent and not yet read
    receiver,   \* waits for a "header" or a "fragment", or ended
    header,     \* the header the receiver has read
    fragment,   \* the bytes of the fragment it has read so far
    recvSeq,    \* recv_state.sequence_number
    sealed,     \* every record encrypted so far
    sent,       \* the records whose last byte the kernel has taken
    delivered,  \* what the receiver's calls have returned
    garbled     \* how many bytes were altered so far

sending   == <<sender, current, sendSeq, sealed, sent>>
receiving == <<receiver, header, fragment, recvSeq, delivered>>
vars == <<sending, stream, receiving, garbled>>

SenderStopped   == {"closed", "reset"}
ReceiverStopped == {"rejected", "disconnected", "failed"}

Init ==
    /\ sender = "ready" /\ current = 0 /\ sendSeq = 0
    /\ stream = <<>>
    /\ receiver = "header" /\ header = BadHeader /\ fragment = <<>> /\ recvSeq = 0
    /\ sealed = <<>> /\ sent = <<>> /\ delivered = <<>>
    /\ garbled = 0

-----------------------------------------------------------------------------
(* send_encrypted_record *)

\* The record send_all is working on.
Latest == sealed[Len(sealed)]

\* Check the length, build the header and the nonce, encrypt.
Seal(text, length) ==
    /\ sender = "ready"
    /\ Len(sealed) < MaxRecords
    /\ sealed' = Append(sealed, [nonce |-> Nonce(sendSeq), text |-> text, length |-> length])
    /\ sender' = "header"
    /\ UNCHANGED <<current, sendSeq, sent, stream, receiving, garbled>>

\* The kernel has room for one more byte, or the other end has closed and
\* what is sent is lost.
Room == receiver \in ReceiverStopped \/ Len(stream) < SocketBuffer
Put(byte) == stream' = IF receiver \in ReceiverStopped THEN stream ELSE Append(stream, byte)

SendHeader ==
    /\ sender = "header"
    /\ Room
    /\ Put(Header(EncryptedLen(Latest)))
    /\ sender' = "fragment"
    /\ UNCHANGED <<current, sendSeq, sealed, sent, receiving, garbled>>

\* One turn of the loop in send_all, for the ciphertext and then the tag: the
\* kernel takes what it has room for, a byte in each step here.
SendByte ==
    /\ sender = "fragment"
    /\ current < EncryptedLen(Latest)
    /\ Room
    /\ Put(FragmentByte(Latest, current + 1))
    /\ current' = current + 1
    /\ sent' = IF current' = EncryptedLen(Latest) THEN Append(sent, Latest) ELSE sent
    /\ UNCHANGED <<sender, sendSeq, sealed, receiving, garbled>>

Mutant_ReturnsUncounted ==
    /\ sender = "fragment"
    /\ current = EncryptedLen(Latest)
    /\ sender' = "ready"
    /\ current' = 0
    /\ UNCHANGED <<sendSeq, sealed, sent, stream, receiving, garbled>>
SendReturns ==
    /\ sender = "fragment"
    /\ current = EncryptedLen(Latest)
    /\ sendSeq' = NextSequence(sendSeq)
    /\ sender' = "ready"
    /\ current' = 0
    /\ UNCHANGED <<sealed, sent, stream, receiving, garbled>>

\* The caller has sent all it wants; or the call returned -1 (a length of 0 or
\* too long, AES, or a send_all part of the way), and the caller goes to its
\* end label.  Closing with unread data resets the connection.
SenderStops ==
    /\ sender \notin SenderStopped
    /\ sender' \in SenderStopped
    /\ current' = 0
    /\ UNCHANGED <<sendSeq, sealed, sent, stream, receiving, garbled>>

-----------------------------------------------------------------------------
(* recv_encrypted_record *)

\* The type, the version and the two bounds on the length.
Mutant_CapacityExclusive(h) ==
    /\ h.part = "header"
    /\ h.length > TagLen
    /\ h.length - TagLen <= MaxPlaintext
    /\ h.length - TagLen < Capacity
HeaderAccepted(h) ==
    /\ h.part = "header"
    /\ h.length > TagLen
    /\ h.length - TagLen <= MaxPlaintext
    /\ h.length - TagLen <= Capacity

\* The socket is closed at the end of the program, with what is still unread.
ReceiverStopsAs(outcome) ==
    /\ receiver' = outcome
    /\ stream' = <<>>
    /\ header' = BadHeader
    /\ fragment' = <<>>
    /\ UNCHANGED <<sending, recvSeq, delivered, garbled>>

RecvHeader ==
    /\ receiver = "header"
    /\ stream # <<>>
    /\ HeaderAccepted(Head(stream))
    /\ header' = Head(stream)
    /\ stream' = Tail(stream)
    /\ receiver' = "fragment"
    /\ UNCHANGED <<sending, fragment, recvSeq, delivered, garbled>>

RejectHeader ==
    /\ receiver = "header"
    /\ stream # <<>>
    /\ ~HeaderAccepted(Head(stream))
    /\ ReceiverStopsAs("rejected")

\* recv returns as soon as there is a byte.
Mutant_WaitsForWholeFragment == Len(stream) >= header.length - Len(fragment)
Readable == stream # <<>>

\* One turn of the loop in recv_all, for the ciphertext and then the tag.
RecvByte ==
    /\ receiver = "fragment"
    /\ Readable
    /\ Len(fragment) < header.length
    /\ fragment' = Append(fragment, Head(stream))
    /\ stream' = Tail(stream)
    /\ UNCHANGED <<sending, receiver, header, recvSeq, delivered, garbled>>

\* aes_gcm_decrypt: the tag, over the header too, under the receiver's nonce.
Mutant_TagNotChecked(nonce) == TRUE
TagMatches(nonce) ==
    \E i \in DOMAIN sealed :
        /\ sealed[i].nonce = nonce
        /\ header = Header(EncryptedLen(sealed[i]))
        /\ fragment = Fragment(sealed[i])

\* What decryption makes of the bytes, whatever the tag; its length is that of
\* the ciphertext.
Mutant_LengthWithTag ==
    [nonce |-> Nonce(recvSeq), text |-> fragment[1].of.text, length |-> header.length]
Plaintext ==
    LET Made(r) == r.nonce = Nonce(recvSeq) /\ fragment = Fragment(r) IN
    IF \E i \in DOMAIN sealed : Made(sealed[i])
    THEN sealed[CHOOSE i \in DOMAIN sealed : Made(sealed[i])]
    ELSE [nonce |-> Nonce(recvSeq), text |-> GarbledText, length |-> header.length - TagLen]

Deliver ==
    /\ receiver = "fragment"
    /\ Len(fragment) = header.length
    /\ TagMatches(Nonce(recvSeq))
    /\ delivered' = Append(delivered, Plaintext)
    /\ recvSeq' = NextSequence(recvSeq)
    /\ receiver' = "header"
    /\ header' = BadHeader
    /\ fragment' = <<>>
    /\ UNCHANGED <<sending, stream, garbled>>

RejectTag ==
    /\ receiver = "fragment"
    /\ Len(fragment) = header.length
    /\ ~TagMatches(Nonce(recvSeq))
    /\ ReceiverStopsAs("rejected")

\* recv returns 0 when the sender has closed and no byte is left, -1 when the
\* connection was reset.
Mutant_EndOfStreamRetried(wanted) == sender = "reset" /\ wanted
EndOfStream(wanted) == wanted /\ (sender = "reset" \/ (sender = "closed" /\ stream = <<>>))

RecvEnds ==
    /\ EndOfStream(receiver = "header" \/ (receiver = "fragment" /\ Len(fragment) < header.length))
    /\ ReceiverStopsAs("disconnected")

\* recv, AES or a caller that wants no more.
ReceiverFails ==
    /\ receiver \notin ReceiverStopped
    /\ ReceiverStopsAs("failed")

-----------------------------------------------------------------------------
(* The network, and the whole direction *)

\* A header may turn into one with another length; no altered byte is one the
\* sender would have sent.
Altered(byte) ==
    IF byte.part = "header"
    THEN {BadHeader} \union {Header(n) : n \in (0..(MaxPlaintext + TagLen + 1)) \ {byte.length}}
    ELSE {Noise}

Garble ==
    /\ garbled < MaxGarbled
    /\ \E i \in DOMAIN stream : \E byte \in Altered(stream[i]) :
          stream' = [stream EXCEPT ![i] = byte]
    /\ garbled' = garbled + 1
    /\ UNCHANGED <<sending, receiving>>

BothStopped ==
    /\ sender \in SenderStopped
    /\ receiver \in ReceiverStopped
    /\ UNCHANGED vars

SenderStep   == SendHeader \/ SendByte \/ SendReturns
ReceiverStep == RecvHeader \/ RejectHeader \/ RecvByte \/ Deliver \/ RejectTag \/ RecvEnds

Next ==
    \/ \E text \in Texts, length \in 1..MaxPlaintext : Seal(text, length)
    \/ SenderStep \/ SenderStops
    \/ ReceiverStep \/ ReceiverFails
    \/ Garble
    \/ BothStopped

Spec == Init /\ [][Next]_vars

\* A call that can go on goes on, and the receiving program calls until its
\* peer has closed.  Nothing has to be sent, and nothing has to fail.
FairSpec == Spec /\ WF_vars(SenderStep) /\ WF_vars(ReceiverStep)

-----------------------------------------------------------------------------
(* Properties *)

TypeOK ==
    /\ sender \in {"ready", "header", "fragment"} \union SenderStopped
    /\ current \in 0..(MaxPlaintext + TagLen)
    /\ sendSeq \in 0..(Modulus - 1)
    /\ stream \in Seq(Bytes)
    /\ receiver \in {"header", "fragment"} \union ReceiverStopped
    /\ header \in [part : {"header"}, length : Nat] \union {BadHeader}
    /\ fragment \in Seq(Bytes)
    /\ recvSeq \in 0..(Modulus - 1)
    /\ sealed \in Seq(Records)
    /\ sent \in Seq(Records)
    /\ delivered \in Seq(Records)
    /\ garbled \in 0..MaxGarbled

\* README.md:57.  GCM breaks when a nonce is used twice under one key: no two
\* calls of send_encrypted_record encrypt under the same nonce, although the
\* number is incremented only after the last of three sends.
NonceUnique ==
    \A i, j \in DOMAIN sealed : sealed[i].nonce = sealed[j].nonce => i = j

\* Nothing carries a sequence number on the wire, so the two ends must count
\* alike: between calls, with no byte on its way, the two numbers are equal,
\* whatever was altered before.
InStep ==
    sender = "ready" /\ stream = <<>> /\ receiver = "header" => sendSeq = recvSeq

\* A receiver refuses a record only if a byte was altered or the record is
\* larger than its buffer: however sends and receives are cut, it never loses
\* the boundary between two records.
RejectsOnlyAltered ==
    receiver = "rejected" =>
        garbled > 0 \/ \E i \in DOMAIN sealed : sealed[i].length > Capacity

\* This direction is a FIFO of whole records: what recv_encrypted_record
\* returned is a prefix of what was sent, however the bytes were altered.
Channel == INSTANCE SecureChannel WITH sent <- sent, delivered <- delivered
ChannelSpec == Channel!Spec

Undisturbed == garbled = 0 /\ sender # "reset" /\ receiver # "failed"

\* A record whose last byte was handed to the kernel arrives, also when the
\* sender has closed since: unless a byte was altered, the connection reset,
\* the receiver failed by itself, or a record was larger than its buffer.
Delivery ==
    \A n \in 1..MaxRecords :
        Len(sent) >= n ~>
            \/ Len(delivered) >= n
            \/ ~Undisturbed
            \/ \E i \in DOMAIN sent : i <= n /\ sent[i].length > Capacity

\* A call of send_encrypted_record does not block for ever: a receiver that has
\* stopped no longer fills the buffer, one that has not empties it.
SendEnds == sender \in {"header", "fragment"} ~> sender \in {"ready"} \union SenderStopped

\* A receiver does not outlive its sender's socket, even inside a record that
\* never arrives in full.
ReceiverEnds == sender \in SenderStopped ~> receiver \in ReceiverStopped
==============================================================================
