---------------------------- MODULE SecureSession ----------------------------
(***************************************************************************)
(* What secure_server and secure_client promise together, with the         *)
(* messages, the sockets and the cryptography left out.  A server process  *)
(* serves one client.  It offers that client one set of application keys;  *)
(* the client may adopt exactly the offered keys, the server adopts them   *)
(* only after the client did, and then one text travels in each direction, *)
(* the client's first.  Either side may stop anywhere: a run that goes no  *)
(* further stutters for ever.                                              *)
(*                                                                         *)
(* Module Handshake implements this specification with the same variables. *)
(***************************************************************************)

CONSTANTS
    Clients,        \* the client processes
    NoClient,       \* value of conn before accept()
    None,           \* no keys
    NoText,         \* nothing printed yet
    ClientMessage,  \* the text a client sends
    ServerMessage   \* the text the server sends

VARIABLES
    conn,           \* the client the server serves
    offered,        \* the keys the server's Finished commits it to
    clientKeys,     \* the application keys each client derived
    serverKeys,     \* the application keys the server derived
    serverGot,      \* the text the server decrypted and printed
    clientGot       \* the text each client decrypted and printed

vars == <<conn, offered, clientKeys, serverKeys, serverGot, clientGot>>

Init ==
    /\ conn = NoClient
    /\ offered = None
    /\ clientKeys = [c \in Clients |-> None]
    /\ serverKeys = None
    /\ serverGot = NoText
    /\ clientGot = [c \in Clients |-> NoText]

Serve(c) ==
    /\ conn = NoClient
    /\ conn' = c
    /\ UNCHANGED <<offered, clientKeys, serverKeys, serverGot, clientGot>>

\* The server names the keys of the session, once.
Offer ==
    /\ conn \in Clients
    /\ offered = None
    /\ offered' # None
    /\ UNCHANGED <<conn, clientKeys, serverKeys, serverGot, clientGot>>

\* The served client, and no other, adopts the offered keys.
ClientAgrees(c) ==
    /\ c = conn
    /\ offered # None
    /\ clientKeys[c] = None
    /\ clientKeys' = [clientKeys EXCEPT ![c] = offered]
    /\ UNCHANGED <<conn, offered, serverKeys, serverGot, clientGot>>

\* The server adopts the keys its client has adopted.
ServerAgrees ==
    /\ conn \in Clients
    /\ clientKeys[conn] # None
    /\ serverKeys = None
    /\ serverKeys' = clientKeys[conn]
    /\ UNCHANGED <<conn, offered, clientKeys, serverGot, clientGot>>

ServerReads ==
    /\ serverKeys # None
    /\ serverGot = NoText
    /\ serverGot' = ClientMessage
    /\ UNCHANGED <<conn, offered, clientKeys, serverKeys, clientGot>>

\* The reply reaches the client only after the server has read its text.
ClientReads(c) ==
    /\ c = conn
    /\ serverGot # NoText
    /\ clientGot[c] = NoText
    /\ clientGot' = [clientGot EXCEPT ![c] = ServerMessage]
    /\ UNCHANGED <<conn, offered, clientKeys, serverKeys, serverGot>>

Next ==
    \/ \E c \in Clients : Serve(c) \/ ClientAgrees(c) \/ ClientReads(c)
    \/ Offer
    \/ ServerAgrees
    \/ ServerReads

Spec == Init /\ [][Next]_vars
==============================================================================
