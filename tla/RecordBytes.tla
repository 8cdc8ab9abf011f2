----------------------------- MODULE RecordBytes -----------------------------
(***************************************************************************)
(* src/tls_record.c: the bytes of a nonce and of a record header, for the  *)
(* records of one session.  Module RecordLayer takes the nonce for the     *)
(* number it is made of and the header for the length it announces; here   *)
(* is why it may.                                                          *)
(***************************************************************************)
EXTENDS Framing, FiniteSets

CONSTANTS
    Xor,          \* exclusive or of two bytes
    StaticIv,     \* static_iv of one direction: AES_GCM_IV_LEN bytes
    NumberBytes,  \* sizeof(sequence_number)
    Lengths       \* values of encrypted_len

ASSUME XorAssumption ==
    /\ Xor \in [Byte -> [Byte -> Byte]]
    /\ \A a, b, c \in Byte : Xor[a][b] = Xor[a][c] => b = c
ASSUME IvAssumption ==
    /\ StaticIv \in Seq(Byte)
    /\ NumberBytes \in 0..Len(StaticIv)
ASSUME LengthAssumption == Lengths \subseteq 1..(Base * Base - 1)

VARIABLES
    sequence_number,  \* of the record state both ends keep alike
    used,             \* the nonces made so far
    sealed,           \* how many records they are of
    header,           \* the header of the latest record
    encrypted_len     \* the length it was made for

vars == <<sequence_number, used, sealed, header, encrypted_len>>

\* What byte i of a number counts for: 256 to the power of i.
Place[i \in Nat] == IF i = 0 THEN 1 ELSE Base * Place[i - 1]

Numbers == Place[NumberBytes]

-----------------------------------------------------------------------------
(* The code *)

\* The byte that is left of sequence_number >> (8 * i).
Mutant_ShiftByBits(number, i) == LowByte(number \div (2 ^ i))
ByteOf(number, i) == LowByte(number \div Place[i])

\* Byte i of the number goes into the i-th byte from the end of the nonce.
make_record_nonce(number) ==
    [j \in DOMAIN StaticIv |->
        LET i == Len(StaticIv) - j IN
        IF i < NumberBytes THEN Xor[StaticIv[j]][ByteOf(number, i)] ELSE StaticIv[j]]

\* The content type and the version, then the length in two bytes.
Mutant_BytesSwapped(length) == <<"type", "version", "version", LowByte(length), LowByte(ShiftRight(length))>>
encode_record_header(length) ==
    <<"type", "version", "version", LowByte(ShiftRight(length)), LowByte(length)>>

recv_record_header(bytes) == Base * bytes[4] + bytes[5]

Init ==
    /\ sequence_number = 0
    /\ used = {}
    /\ sealed = 0
    /\ \E length \in Lengths : encrypted_len = length /\ header = encode_record_header(length)

\* send_encrypted_record, as often as there are sequence numbers.
SealRecord(length) ==
    /\ sealed < Numbers
    /\ header' = encode_record_header(length)
    /\ encrypted_len' = length
    /\ used' = used \union {make_record_nonce(sequence_number)}
    /\ sealed' = sealed + 1
    /\ sequence_number' = (sequence_number + 1) % Numbers

Next == \E length \in Lengths : SealRecord(length)

Spec == Init /\ [][Next]_vars

-----------------------------------------------------------------------------
(* Properties *)

\* Every number up to the last has a nonce of its own: no bit of the number
\* is lost on its way into the bytes of the nonce.
NoncesDiffer == Cardinality(used) = sealed

\* The receiver reads the length the sender wrote, for every length that two
\* bytes hold.
LengthIsRead == recv_record_header(header) = encrypted_len
==============================================================================
