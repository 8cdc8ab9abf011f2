---------------------- MODULE HandshakeMessagesInvariant ----------------------
(***************************************************************************)
(* The inductive invariant behind the properties of HandshakeMessages.     *)
(*                                                                         *)
(* While the receiver is running, the bytes it has read of the message it  *)
(* expects, those on their way and those the kernel has not taken yet form *)
(* one chain: the message the receiver expects from its first byte, then   *)
(* every later one that was started, each whole and in its place.  Reading *)
(* and sending move a byte along the chain, which stays the same; to start *)
(* a message adds it at the end, and to go on with one takes it off the    *)
(* front.                                                                  *)
(***************************************************************************)
EXTENDS HandshakeMessages

Size(k) == TLS_HANDSHAKE_HEADER_LEN + Script[k].length

Chain == header \o body \o stream \o unsent

\* The bytes of a message stand together and in order, and the next message
\* after them.
Contiguous(c) ==
    \A i \in DOMAIN c : \A j \in DOMAIN c : i <= j =>
        /\ c[i].of <= c[j].of
        /\ c[i].at + (j - i) <= Size(c[i].of) =>
              c[j].of = c[i].of /\ c[j].at = c[i].at + (j - i)
        /\ c[i].at = Size(c[i].of) /\ j = i + 1 =>
              c[j].of = c[i].of + 1 /\ c[j].at = 1

\* The chain holds the messages from k to the last one of ms.
Ends(c, k, ms) ==
    IF c = <<>> THEN k = Len(ms) + 1
    ELSE /\ c[1].of = k /\ c[1].at = 1
         /\ c[Len(c)].of = Len(ms) /\ c[Len(c)].at = Size(Len(ms))

\* A byte of a message that was not altered has the value that was sent.
Unaltered(c, ms, dirty) ==
    \A i \in DOMAIN c :
        /\ c[i].of \in 1..Len(ms) /\ c[i].at \in 1..Size(c[i].of)
        /\ c[i].of \notin dirty => c[i].value = Encode(ms[c[i].of])[c[i].at]

ChainOf(c, k, ms, dirty) ==
    Contiguous(c) /\ Ends(c, k, ms) /\ Unaltered(c, ms, dirty)

ChainInv ==
    receiver \notin ReceiverStopped => ChainOf(Chain, Len(delivered) + 1, started, touched)

\* The messages that were started are those of the script, and only during a
\* call is there something the kernel has not taken.
StartedInv ==
    /\ \A k \in 1..Len(started) :
          started[k] \in [type : {Script[k].type}, body : [1..Script[k].length -> Byte]]
    /\ Len(started) <= Len(Script) /\ Len(delivered) <= Len(started)
    /\ sender = "ready" => unsent = <<>>

\* What a call of recv_handshake_msg has established so far.
Reading == HeaderRead /\ HeaderAccepted /\ Len(body) <= Announced
CallInv ==
    /\ receiver = "header" => body = <<>>
    /\ receiver = "body" => Reading
    /\ receiver = "returned" =>
          IF result = 0 THEN Reading /\ Len(body) = Announced /\ bodyLen = Announced
          ELSE body = <<>> \/ Reading
    /\ receiver \in ReceiverStopped => header = <<>> /\ body = <<>> /\ stream = <<>>

\* A step keeps all of it together; that BoundaryKept holds follows.
MessagesInv ==
    TypeOK /\ StartedInv /\ CallInv /\ ChainInv /\ RefusesOnlyAltered
==============================================================================
