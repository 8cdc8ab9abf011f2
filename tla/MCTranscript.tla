----------------------------- MODULE MCTranscript -----------------------------
(***************************************************************************)
(* The instance of Transcript that TLC checks: two types, bodies of up to  *)
(* two bits, and one body that is too long.  The two sides are model       *)
(* values, interchangeable in all that Transcript says.                    *)
(***************************************************************************)
EXTENDS Transcript, TLC

TooLong == [i \in 1..(TLS_HANDSHAKE_MAX_BODY_LEN + 1) |-> 0]

SmallMessages ==
    [type : Byte, body : {<<>>, <<0>>, <<1>>, <<0, 1>>}]
        \union {[type |-> 0, body |-> TooLong]}

Symmetry == Permutations(Transcripts)
==============================================================================
