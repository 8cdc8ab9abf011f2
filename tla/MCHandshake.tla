---------------------------- MODULE MCHandshake ----------------------------
(***************************************************************************)
(* Model checking of Handshake.  Clients and key pairs are model values.   *)
(* Clients are interchangeable, and so are the pairs, in everything the    *)
(* safety properties say: the runs without liveness use that symmetry.     *)
(***************************************************************************)
EXTENDS HandshakeInvariant, TLC

Symmetry == Permutations(Clients) \union Permutations(KeyPairs)
=============================================================================
