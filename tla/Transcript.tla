------------------------------ MODULE Transcript ------------------------------
(***************************************************************************)
(* src/tls_transcript.c: the transcripts of the two sides.  Each is a      *)
(* digest context that is fed encoded messages; a hash is taken of a copy  *)
(* of it, in three calls of the library, between the messages.  A hash     *)
(* stands for the bytes it was computed from.                              *)
(*                                                                         *)
(* Module Handshake takes a transcript for the sequence of its messages,   *)
(* and a hash for that sequence too; that is sound because equal hashes    *)
(* mean equal messages (HashTellsMessages), and equal messages mean equal  *)
(* hashes (HashesAgree).                                                   *)
(***************************************************************************)
EXTENDS Framing

CONSTANTS
    Transcripts,  \* of a server, of its client
    Messages,     \* what can be sent or received: type and body
    MaxMessages,  \* how many messages a transcript takes
    MaxHashes     \* how many hashes are taken of one

ASSUME MessagesAssumption == Messages \subseteq [type : Byte, body : Seq(Byte)]
ASSUME BoundsAssumption   == MaxMessages \in Nat /\ MaxHashes \in Nat

VARIABLES
    at,        \* before transcript_init, between two calls, in transcript_get_hash, at the end
    ctx,       \* the context in each transcript
    copy,      \* the copy of it in transcript_get_hash
    messages,  \* the messages transcript_update_handshake_msg returned 0 for
    hashes     \* what transcript_get_hash returned, and after which messages

vars == <<at, ctx, copy, messages, hashes>>

-----------------------------------------------------------------------------
(* Digest contexts of OpenSSL *)

Context(state, fed) == [state |-> state, fed |-> fed]
NoContext == Context("null", <<>>)

\* EVP_DigestFinal_ex digests its padding too.  OpenSSL gives a finalised context
\* no meaning: a further call fails, or goes on after the padding.
Padding == <<0>>
Digested(c) == IF c.state = "final" THEN c.fed \o Padding ELSE c.fed

DigestUpdate(c, data) == Context("open", Digested(c) \o data)
DigestFinal(c)        == Context("final", Digested(c))

Init ==
    /\ at = [t \in Transcripts |-> "start"]
    /\ ctx = [t \in Transcripts |-> NoContext]
    /\ copy = [t \in Transcripts |-> NoContext]
    /\ messages = [t \in Transcripts |-> <<>>]
    /\ hashes = [t \in Transcripts |-> <<>>]

-----------------------------------------------------------------------------
(* Actions *)

MovesTo(t, place) == at' = [at EXCEPT ![t] = place]

\* Any failure takes the program to its end label, which frees the transcript;
\* transcript_get_hash has freed its copy by then.
Mutant_CopyKept(t) ==
    /\ MovesTo(t, "end")
    /\ ctx' = [ctx EXCEPT ![t] = NoContext]
    /\ UNCHANGED <<copy, messages, hashes>>
Ends(t) ==
    /\ MovesTo(t, "end")
    /\ ctx' = [ctx EXCEPT ![t] = NoContext]
    /\ copy' = [copy EXCEPT ![t] = NoContext]
    /\ UNCHANGED <<messages, hashes>>

transcript_init(t) ==
    /\ at[t] = "start"
    /\ \/ MovesTo(t, "idle") /\ ctx' = [ctx EXCEPT ![t] = Context("open", <<>>)]
       \/ MovesTo(t, "end") /\ ctx' = ctx
    /\ UNCHANGED <<copy, messages, hashes>>

\* The whole encoding is handed over in one call of EVP_DigestUpdate.
transcript_update_handshake_msg(t, m) ==
    /\ at[t] = "idle"
    /\ Len(messages[t]) < MaxMessages
    /\ Len(m.body) <= TLS_HANDSHAKE_MAX_BODY_LEN
    /\ ctx' = [ctx EXCEPT ![t] = DigestUpdate(@, Encode(m))]
    /\ messages' = [messages EXCEPT ![t] = Append(@, m)]
    /\ UNCHANGED <<at, copy, hashes>>

UpdateRefuses(t, m) ==
    /\ at[t] = "idle"
    /\ Len(m.body) > TLS_HANDSHAKE_MAX_BODY_LEN
    /\ Ends(t)

\* transcript_get_hash: EVP_MD_CTX_copy_ex into a new context,
CopyContext(t) ==
    /\ at[t] = "idle"
    /\ Len(hashes[t]) < MaxHashes
    /\ copy' = [copy EXCEPT ![t] = ctx[t]]
    /\ MovesTo(t, "copied")
    /\ UNCHANGED <<ctx, messages, hashes>>

Hash(t, c) == [bytes |-> Digested(c), messages |-> messages[t]]

\* EVP_DigestFinal_ex on the copy,
Mutant_ContextFinalised(t) ==
    /\ at[t] = "copied"
    /\ hashes' = [hashes EXCEPT ![t] = Append(@, Hash(t, ctx[t]))]
    /\ ctx' = [ctx EXCEPT ![t] = DigestFinal(@)]
    /\ MovesTo(t, "hashed")
    /\ UNCHANGED <<copy, messages>>
FinaliseCopy(t) ==
    /\ at[t] = "copied"
    /\ hashes' = [hashes EXCEPT ![t] = Append(@, Hash(t, copy[t]))]
    /\ copy' = [copy EXCEPT ![t] = DigestFinal(@)]
    /\ MovesTo(t, "hashed")
    /\ UNCHANGED <<ctx, messages>>

\* EVP_MD_CTX_free of the copy.
FreeCopy(t) ==
    /\ at[t] = "hashed"
    /\ copy' = [copy EXCEPT ![t] = NoContext]
    /\ MovesTo(t, "idle")
    /\ UNCHANGED <<ctx, messages, hashes>>

\* An allocation, EVP_DigestUpdate, EVP_MD_CTX_copy_ex or EVP_DigestFinal_ex.
LibraryFails(t) ==
    /\ at[t] \in {"idle", "copied"}
    /\ Ends(t)

\* The end of the program, wherever that is reached from.
transcript_free(t) ==
    /\ at[t] = "idle"
    /\ Ends(t)

AllEnded == (\A t \in Transcripts : at[t] = "end") /\ UNCHANGED vars

Next ==
    \/ \E t \in Transcripts :
          \/ transcript_init(t)
          \/ \E m \in Messages : transcript_update_handshake_msg(t, m) \/ UpdateRefuses(t, m)
          \/ CopyContext(t) \/ FinaliseCopy(t) \/ FreeCopy(t)
          \/ LibraryFails(t)
          \/ transcript_free(t)
    \/ AllEnded

Spec == Init /\ [][Next]_vars

-----------------------------------------------------------------------------
(* Properties *)

Contexts == [state : {"null", "open", "final"}, fed : Seq(Byte)]

\* What a transcript and a hash of one may hold, and when the contexts are there.
TypeOK ==
    /\ at \in [Transcripts -> {"start", "idle", "copied", "hashed", "end"}]
    /\ ctx \in [Transcripts -> Contexts]
    /\ copy \in [Transcripts -> Contexts]
    /\ messages \in [Transcripts -> Seq(Messages)]
    /\ hashes \in [Transcripts -> Seq([bytes : Seq(Byte), messages : Seq(Messages)])]
    /\ \A t \in Transcripts :
          /\ ctx[t] = NoContext <=> at[t] \in {"start", "end"}
          /\ copy[t] = NoContext <=> at[t] \notin {"copied", "hashed"}

\* Hashes of equal bytes, taken by either side at any two moments, were taken
\* after the same messages: where one message ends and the next begins is
\* part of what is hashed.
HashTellsMessages ==
    \A t, u \in Transcripts : \A i \in DOMAIN hashes[t], j \in DOMAIN hashes[u] :
        hashes[t][i].bytes = hashes[u][j].bytes => hashes[t][i].messages = hashes[u][j].messages

\* Two hashes taken after the same messages are the same, whichever side took
\* them and however often each had hashed in the middle of those messages: the
\* digest is finalised in a copy, and the transcript goes on without a trace of it.
HashesAgree ==
    \A t, u \in Transcripts : \A i \in DOMAIN hashes[t], j \in DOMAIN hashes[u] :
        hashes[t][i].messages = hashes[u][j].messages => hashes[t][i].bytes = hashes[u][j].bytes
==============================================================================
