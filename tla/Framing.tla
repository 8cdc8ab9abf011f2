------------------------------- MODULE Framing -------------------------------
(***************************************************************************)
(* src/tls_handshake.c: the bytes of a handshake message, which are also   *)
(* what the transcript hashes: the type in one byte, the length of the     *)
(* body in three, the most significant first, and the body.                *)
(*                                                                         *)
(* A byte is a digit to the base Base: a shift by eight is a division by   *)
(* it, a mask with 0xff the remainder, and "or" of shifted bytes the sum.  *)
(***************************************************************************)
EXTENDS Naturals, Sequences

\* An operator named Mutant_... is no part of the specification: it is what a
\* bug in the code would make of the definition it precedes.

CONSTANT Base   \* the values of a byte, 256

ASSUME BaseAssumption == Base \in Nat \ {0, 1}

Byte == 0..(Base - 1)

TLS_HANDSHAKE_HEADER_LEN   == 4
TLS_HANDSHAKE_MAX_BODY_LEN == Base * Base * Base - 1

LowByte(n)    == n % Base       \* n & 0xff
ShiftRight(n) == n \div Base    \* n >> 8

Mutant_MiddleByteLost(type, length) == <<type, LowByte(ShiftRight(length)), 0, LowByte(length)>>
HandshakeHeader(type, length) ==
    <<type, LowByte(ShiftRight(ShiftRight(length))), LowByte(ShiftRight(length)), LowByte(length)>>

BodyLength(header) == Base * (Base * header[2] + header[3]) + header[4]

\* What is sent, and what encode_handshake_msg gives the transcript.
Mutant_HeaderHashedAlone(m) == HandshakeHeader(m.type, Len(m.body))
Mutant_LengthNotHashed(m) == <<m.type>> \o m.body
Encode(m) == HandshakeHeader(m.type, Len(m.body)) \o m.body
==============================================================================
