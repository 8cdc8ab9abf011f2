---------------------------- MODULE MessageStream ----------------------------
(***************************************************************************)
(* What one direction of handshake messages promises the program above it: *)
(* whole messages, in order, none skipped and none twice.  Nothing at this *)
(* level protects their contents: the body of a message that was altered   *)
(* on its way may differ, but only its own, and neither its type nor its   *)
(* length.  The stream may stop at any time.                               *)
(*                                                                         *)
(* Module HandshakeMessages implements this specification.                 *)
(***************************************************************************)
EXTENDS Naturals, Sequences

CONSTANT Messages   \* what can be sent: records with a type and a body

VARIABLES
    sent,       \* the messages handed to the network in full
    delivered,  \* the messages the receiver went on with
    touched     \* the numbers of the messages altered on their way

vars == <<sent, delivered, touched>>

Init == sent = <<>> /\ delivered = <<>> /\ touched = {}

Send(m) ==
    /\ sent' = Append(sent, m)
    /\ UNCHANGED <<delivered, touched>>

\* A message may be altered while it is being sent, and until it is read.
Alter(k) ==
    /\ k > Len(delivered)
    /\ touched' = touched \union {k}
    /\ UNCHANGED <<sent, delivered>>

Deliver(m) ==
    LET k == Len(delivered) + 1 IN
    /\ k <= Len(sent)
    /\ m.type = sent[k].type
    /\ Len(m.body) = Len(sent[k].body)
    /\ k \notin touched => m = sent[k]
    /\ delivered' = Append(delivered, m)
    /\ UNCHANGED <<sent, touched>>

Next ==
    \/ \E m \in Messages : Send(m) \/ Deliver(m)
    \/ \E k \in 1..(Len(sent) + 1) : Alter(k)

Spec == Init /\ [][Next]_vars
==============================================================================
