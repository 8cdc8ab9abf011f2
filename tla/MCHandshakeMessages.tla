------------------------- MODULE MCHandshakeMessages -------------------------
(***************************************************************************)
(* The instances of HandshakeMessages that TLC checks.  With bytes of one  *)
(* bit a length of 5 needs the first and the last of its three bytes.      *)
(***************************************************************************)
EXTENDS HandshakeMessagesInvariant

\* As the server sends: one message of a fixed length, one with a signature,
\* one more of a fixed length.
Answer == <<[type |-> 0, length |-> 5, signed |-> FALSE],
            [type |-> 1, length |-> 2, signed |-> TRUE],
            [type |-> 0, length |-> 1, signed |-> FALSE]>>
==============================================================================
