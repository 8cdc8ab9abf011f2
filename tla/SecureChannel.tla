---------------------------- MODULE SecureChannel ----------------------------
(***************************************************************************)
(* What one direction of the record layer promises the program above it: a *)
(* FIFO of whole texts.  What is delivered is what was sent, in the same   *)
(* order, nothing twice and nothing altered.  The channel may stop         *)
(* delivering at any time; it never skips.                                 *)
(*                                                                         *)
(* Module RecordLayer implements this specification.                       *)
(***************************************************************************)
EXTENDS Naturals, Sequences

CONSTANT Records    \* what can be sent

VARIABLES
    sent,       \* every record handed to the network in full
    delivered   \* every record the receiver accepted

vars == <<sent, delivered>>

Init == sent = <<>> /\ delivered = <<>>

Send(r) ==
    /\ sent' = Append(sent, r)
    /\ UNCHANGED delivered

Deliver ==
    /\ Len(delivered) < Len(sent)
    /\ delivered' = Append(delivered, sent[Len(delivered) + 1])
    /\ UNCHANGED sent

Next == Deliver \/ \E r \in Records : Send(r)

Spec == Init /\ [][Next]_vars
==============================================================================
