---------------------------- MODULE MCRecordBytes ----------------------------
(***************************************************************************)
(* The instance of RecordBytes that TLC checks: bytes of two bits, a       *)
(* number of three of them in a nonce of four, and every length.           *)
(***************************************************************************)
EXTENDS RecordBytes

BitXor == [a \in Byte |-> [b \in Byte |->
    LET bit(n, i) == (n \div (2 ^ i)) % 2
        xor(i)    == (bit(a, i) + bit(b, i)) % 2
    IN  xor(0) + 2 * xor(1)]]

Iv == <<1, 2, 3, 0>>

AllLengths == 1..(Base * Base - 1)
==============================================================================
