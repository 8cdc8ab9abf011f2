# Verification of the post-quantum TLS demo

This directory models `pqc_demo/`: a server and a client that run a reduced,
TLS-1.3-like handshake with ML-KEM-768 and ML-DSA-65, and then exchange one
AES-256-GCM record in each direction. The modules are TLA+, checked with TLC on
small instances; the theorems are checked by the TLA+ proof system.

## The system

| component | code | state it keeps | operations |
|---|---|---|---|
| server program | `network/secure_server.c` | key buffers, transcript, record states, two descriptors, exit code | load keys, listen, accept one client, nine protocol steps, one cleanup label |
| client program | `network/secure_client.c` | the same, one descriptor | generate an ML-KEM pair, connect once, nine protocol steps, one cleanup label |
| handshake messages | `src/tls_handshake.c` | none | send (header, body), receive with an expected type and a capacity, encode for the transcript |
| transcript | `src/tls_transcript.c` | a SHA-256 context | init, update with an encoded message, hash of a copy, free |
| Finished | `src/tls_finished.c` | none | HKDF of secret and label, HMAC of the transcript hash |
| key schedule | `src/tls_key_schedule.c` | none | four HKDF calls, all or nothing |
| record layer | `src/tls_record.c` | key, static IV and 64-bit sequence number per direction | init, send (header, ciphertext, tag), receive |
| AES-GCM wrapper | `src/aes_gcm.c` | none between calls | encrypt, decrypt |
| byte transport | `src/common.c` | none | `send_all`, `recv_all` over partial sends and receives |
| key files | `src/sig_utils.c`, `tools/generate_dsa_keypair.c` | two files | write public then secret, read an exact size |
| standalone KDF, demos | `src/kdf.c`, `demo/*.c` | none between calls | derive a key; run one primitive and release everything; not used by the server or the client |
| liboqs, OpenSSL, the kernel | outside the repository | socket buffers, the accept queue | modelled from how the code uses them |

How they interact. The two programs share nothing but a TCP connection and, at
rest, the two ML-DSA key files (the server reads both, the client receives the
public key in the Certificate message). Inside a process everything is a direct
call; there are no threads and no callbacks. The concurrency is between
processes: one server, any number of clients, the kernel's accept queue between
them, and a close on one side that the other side notices later.

What is hard about it:

* *Order and failure across processes.* Either side may stop at any of its
  steps. No call has a timeout, so the close of a socket is all that ends the
  other side's wait. The server closes right after its last send.
* *One session.* `listen` queues up to five connections, the server accepts one
  and exits (`README.md:159`). The others are connected, have sent a ClientHello
  and will never be answered.
* *Alteration.* TCP's checksum is weak; what must catch an altered message is
  the transcript, the signature, the Finished values and the GCM tag. ML-KEM
  decapsulation does not fail on an altered ciphertext: it returns another
  secret.
* *One-sided knowledge.* The client derives keys when it sends its Finished, the
  server when it has verified it: keys may exist on one side only.
* *The key files* are written one after the other and loaded without a check
  that they belong together.
* *Cleanup* is one label per program for every failure, reached with whatever had been
  acquired by then.
* *Bytes.* Messages and records are told apart only by lengths in their
  unprotected headers, and `send` and `recv` may move any part of one. A
  length that loses one of its bytes shows only above 255, a nonce that does
  only after 255 records.

What makes each component correct:

* programs: both sides agree on keys, on who is served and on the outcome, they
  end, and a session nobody disturbs succeeds;
* handshake messages: whole messages in order, the boundary between two never lost,
  no length altered in three bytes;
* transcript: what is hashed determines the messages, their number included;
* record layer: no nonce is used twice under one key, the receiver's sequence
  number follows the sender's, a legal record is accepted;
* transport: the bytes received are a prefix of the bytes sent, whole messages
  or an error;
* key files: a tool that reports success leaves a matching pair on disk;
* cleanup: what was acquired is released once and secrets are erased first, on every path;
  nothing unverified or half derived is used.

## Modules

| module | what it is |
|---|---|
| `Handshake` | the two programs, the network, the accept queue; state, actions, types, properties |
| `SecureSession` | what they promise together: an abstract one-session key agreement |
| `HandshakeInvariant` | the inductive invariants, shared by TLC and the proofs |
| `MCHandshake` | the module TLC runs: symmetry of clients and key pairs |
| `HandshakeProofs` | type correctness, agreement of the keys, one served client, exit codes, the refinement of `SecureSession`, a mismatched key pair serves nobody |
| `Framing` | the bytes of a handshake message, to any base |
| `FramingProofs` | the length survives its three bytes; what is at which place of an encoding |
| `HandshakeMessages` | one direction of handshake messages, byte by byte: sender, socket buffer, receiver, its caller |
| `MessageStream` | what that direction promises `Handshake` |
| `HandshakeMessagesInvariant` | its inductive invariant |
| `MCHandshakeMessages` | the script of messages TLC runs |
| `HandshakeMessagesProofs` | that invariant, the boundaries, the refinement of `MessageStream` |
| `Transcript` | the digest contexts of both sides and their copies, and the bytes they are fed |
| `MCTranscript` | the messages TLC runs: symmetry of the sides |
| `TranscriptProofs` | hashes are equal exactly when they were taken after equal messages |
| `RecordLayer` | one direction of the record layer, byte by byte: sender, socket buffer, receiver |
| `SecureChannel` | what that direction promises: a FIFO of whole records |
| `RecordInvariant` | its inductive invariants; the module TLC runs |
| `RecordProofs` | uniqueness of nonces, equal counters, the refinement of `SecureChannel`, why a record is refused |
| `RecordBytes` | the bytes of a nonce and of a record header |
| `MCRecordBytes` | bytes of two bits, for TLC |
| `RecordBytesProofs` | numbers of any length have nonces of their own, lengths are read as written |
| `KeyFiles` | the generator and `load_file` on the two key files |
| `KeyFilesInvariant` | its inductive invariants |
| `MCKeyFiles` | the module TLC runs: symmetry of the runs |
| `KeyFilesProofs` | type correctness, when keys are refused, which keys are accepted |
| `CallTables` | each function's calls in their order, and what it releases when it leaves after each |
| `Lifecycle` | a process that runs these tables, where every call may fail |
| `LifecycleInvariant` | the discipline of the tables, and its inductive invariant |
| `MCLifecycle` | the seven programs |
| `LifecycleProofs` | each table keeps to the discipline; every property of `Lifecycle` |

How they fit together. `Handshake` is the composition: two programs, their messages
and their records. Below it, `HandshakeMessages` and `Transcript` justify its taking a
message for one element and a transcript for a sequence of messages, `RecordLayer` its
taking a record for one element, `RecordBytes` the numbers and lengths in
`RecordLayer`, `KeyFiles` the pairs it starts from. `Lifecycle` is orthogonal: it
leaves out every value and keeps what is held. In all of them an operator named
`Mutant_...` is no part of the specification; it is what a bug would make of the
definition that follows it.

### Handshake

State. `spc` and `cpc[c]` are the line the server and each client has reached,
named after the message it is about to send or receive (`"server_hello"` is the
ServerHello for both). `srv` and `cli[c]` are the locals of `main` that the
protocol depends on: key buffers, shared secret, transcript and the two record
states. `conn` is `connfd`, `backlog` the kernel's queue, `c2s` and `s2c` the
unread messages of each connection, `sHup` and `cHup` what each kernel has
learnt of the other end's close, `keyfiles` the pairs the two files come from.
`offered`, `clientKeys`, `serverKeys`, `serverGot` and `clientGot` are the
variables of the abstract specification. `clientKeys[c]` is set when the Finished
of `c` goes out, which commits it to these keys; that `derive_application_keys` can
still fail afterwards is `ClientFails` at the next step.

Actions. One per numbered step of each `main`, from the receive or send to the
last thing done before the next one: `RecvServerHello` is the receive, the
length check, the transcript update and the decapsulation. Four more actions per
side are the ways to leave: a check that fails (`...Rejects`), the end of the
stream (`...Disconnected`), SIGPIPE (`...Killed`), and any library or system
call failing by itself (`...Fails`). All go through `ServerExit` or
`ClientExit`, the `end:` label: the descriptors are closed, the memory is
cleared, and the close is seen by the peer as an orderly end (everything it sent
was read) or as a reset. `ServerStart`, `Accept`, `ClientConnect` and
`ClientRefused` are the set-up.

Values. Cryptography is symbolic. A value records how it was made: a transcript
hash is the sequence of messages, a Finished value is its secret, label and
hash, a sealed record is its key, direction, sequence number and text. Two are
equal when they were computed from equal inputs. An altered message is `Garbled`,
has a type no receiver asks for, or announces a record longer than what follows
(`LONG_HEADER`); a handshake receiver's capacity is the exact length it expects,
so there a longer length is refused at once and a shorter one fails the length
check or the verification.

A message is one element of the stream of its direction. How `send_all` and
`recv_all` move its bytes is below this module: `RecordLayer` has them for the
records, `HandshakeMessages` for the handshake messages.

Sockets. A send on a connection whose peer closed in order (`"fin"`) may
succeed, and makes the kernel answer with a reset (`"pipe"`); that send or a later
one may instead raise SIGPIPE, because a message is two or three calls of
`send`. A receive on a reset connection fails at once, whatever is unread. When
the server closes its listening socket, the connections still queued are reset.

### SecureSession

The same five session variables and `conn`, and six actions: serve a client,
offer it one set of keys, the client adopts them, the server adopts what its
client adopted, the server reads, the client reads. `Handshake!SessionSpec` is
its specification under the identity mapping.

### HandshakeMessages

`send_handshake_msg` and `recv_handshake_msg` with the loops of `send_all` and
`recv_all` below them and the check by the caller above, for a `Script` of messages in
one direction: type, length, and whether it is the signed one.

State. `unsent` are the bytes of the latest call the kernel has not taken, `stream` those
it has, at most `SocketBuffer` of them. `header` and `body` are the locals of
`recv_handshake_msg`, `result` and `bodyLen` what `main` keeps of the last call: `bodyLen` is
one variable for all calls, and a failed call leaves it as it was. `started`, `delivered` and
`touched` are histories, as are the two marks of a byte that say what it was sent as.

Actions. `Start` is the length check and the header; `SendByte` and `SendReturns` the
loops of both `send_all`. `RecvHeaderByte`, `BodyStarts` and `RecvBodyByte` read,
`RecvSucceeds`, `RecvRefuses` and `RecvEnds` return 0, -1 and 1 or -1. `CallerGoesOn` and
`CallerStops` are what `main` does with that: both values of an error, the length it
expects, and for a signature the verification. `SenderStops`, `ReceiverFails` and `Garble` are
as in `RecordLayer`; a garbled byte takes any other value.

The header of a message is unprotected, so it is the callers that keep the boundary. Each
offers exactly the capacity it expects: a longer length is refused before the body is read,
a shorter one by the length check. Only a signature may be shorter, and then the
verification fails.

`MessageStream` says what remains at this level: whole messages in order; one that was
altered may have another body, and nothing else is affected. `Handshake` takes it
from there.

### Framing and Transcript

A byte is a digit to the base `Base`: 256 in the code, 2 or 4 for TLC, any for the
proofs. `>> 8` is a division, `& 0xff` a remainder. `HandshakeHeader` and `Encode` are what is
sent and what is hashed: `send_handshake_msg` and `encode_handshake_msg` build the same
bytes in two places of the code.

`Transcript` has the transcripts of any number of sides. A context of OpenSSL is not there,
open or finalised, and `fed` is the string of bytes it was given; SHA-256 stands for its
input. `DigestFinal` digests its padding too, so a context that was finalised and is
updated again has something between its messages. `transcript_get_hash` is three actions,
one for each call of the library: `CopyContext`, `FinaliseCopy`, `FreeCopy`. The
steps of the sides interleave, `hashes` is what each has returned and, as history, after
which messages. `UpdateRefuses` and `LibraryFails` are the errors: both programs then
go to their end label, which frees the transcript; the copy is gone before that.

### RecordLayer

`Handshake` uses one record in each direction, as the two programs do.
`RecordLayer` is the component itself: any number of records in one direction,
under one key, with calls that stop part of the way.

State. `sender` is where `send_encrypted_record` stands: between two calls
(`"ready"`), before the header, or in the two `send_all` of ciphertext and tag;
`current` counts the bytes of these the kernel has taken. `sendSeq` and `recvSeq` are
the two `sequence_number` fields. `stream` is what lies between the two ends:
the two socket buffers and the wire, one queue of at most `SocketBuffer`
elements. `receiver`, `header` and `fragment` are the locals of
`recv_encrypted_record`. `sealed`, `sent` and `delivered` are histories: every
record encrypted, those whose last byte was handed over, those returned.

Actions. `Seal` is the call up to the first `send_all`; `SendHeader`, `SendByte` and
`SendReturns` the rest of it, the increment of the sequence number included;
`RecvHeader`, `RejectHeader`, `RecvByte`, `Deliver`, `RejectTag` and `RecvEnds`
the receiver. `SenderStops` and `ReceiverFails` are every other way out, and every one
of them ends that side for good: both programs go to their cleanup label at the first
error and close the socket, so no call is made after a failed one.
`Garble` alters one element of `stream`.

Values. A record is its nonce, text and length. On the wire it is one header
element and one element per byte of ciphertext and tag, each of which remembers
what it was cut from; the tag is good exactly when header and bytes are those of
one record under the nonce the receiver expects. The five bytes of the header
are one element: the receiver looks at none of them before it has all five.
An altered header has another length, or a type or version that is
refused; any other altered byte is `Noise`. A length is used *before* the tag over
it is checked, so an altered one moves the boundary: the receiver then takes bytes of
the next record, or a header, for ciphertext.

`RecordsAssumption` says that no session has more records than there are sequence
numbers (2^64). The code does not check it.

### RecordBytes

`make_record_nonce` puts a 64-bit number into the last eight bytes of the IV by exclusive or,
`encode_record_header` and `recv_record_header` split and join a length. `SealRecord` makes the
nonces and headers of one record after the other, until the numbers are used up. `Place[i]`
is what byte i of a number counts for, so that a shift by i bytes is a division by it.
`Xor` is a constant: all that is assumed of it is that different bytes stay different.

### KeyFiles

State. `at[r]` is the file run `r` of the generator is about to open or writes,
`ended[r]` whether it has exited, `written[r]` how many blocks its stream has put
into each file, which is also its offset. `files` are the two files, sequences of
blocks that remember whose key they are part of. `load[s]` and `buffer[s]` are the
two calls of `load_file` in the server and the buffers they fill. `raced` and
`overlapped` are histories: which servers read while a run was in progress, and
whether two runs were.

Actions. `GenerateKeypair`, then for each file `Open` (which empties it), `Flush`
(one block, inside `fclose`), `Closed` (`fclose` returns, flushed or not, since the
code does not ask), and after the second file the success message and the exit.
`Stops` is every failure and every kill, at any point. A failed `fwrite` is covered
by it: the stream is then closed with what could be flushed, which are `Flush` steps
before it. The server loads the secret key, then the public key: `LoadStarts`, `ReadBlock`,
`LoadReturns`, `LoadRefuses` (a short file), `LoadFails` (anything else).

Values. A key is a number of blocks, the part the kernel writes or reads at once;
a run that goes on at its offset after another run has emptied the file leaves a
hole. The state starts with the sample pair of the repository. What `Handshake`
calls `keyfiles` is what a server has loaded here; a key mixed from two runs
is no pair with any other and counts there as one more pair.

### CallTables and Lifecycle

State. `stack` are the active functions of one process: for each, the next step or the one
that failed, and how many of its releases are done. `pointer` says of every pointer and
descriptor whether it is NULL (or -1), live, dangling, or a local that has no value yet.
`secret` is the memory that holds a key or a shared secret, `unverified` a buffer with
text no tag has vouched for.

`CallTables` has a row for each function: its calls in order, and after each of them what
is released on the way out. An early return releases nothing, `goto end` everything, and
where the code guards a release by a flag (`transcript_initialized`), so does the row.
`Succeeds`, `Fails`, `Calls`, `Releasing` and `Returns` run the tables; any call may fail
wherever it stands. Whether the failure is noticed is a column of the table (`checked`), true
throughout the repository.

`LifecycleInvariant` separates what the tables are like from what a process does. `Disciplined`
speaks of one function at a time and of no state: what may be live after a step is freed on
the way out from there, once, after what it takes to free it is known to be there and before that
is freed itself; nothing is acquired twice, and a function shares no object with the programs but
the context of the transcript; what erases one application key erases all of them, whatever
happened before; text is written only by a function whose later step checks its tag.
`LifecycleInv` is what follows for a stack of activations.

Two assumptions. A library call that fails leaves no secret in its output buffer, and a
process that is killed releases nothing (that is in `Handshake`). The two record
states hold copies of the keys, which no path erases: nothing in the repository
says that they should be, so `Erasable` leaves them out.

## What the runs check

| run | instance | checks |
|---|---|---|
| `handshake_safety` | 3 clients, 2 key pairs, queue of 2, 2 alterations | `TypeOK`, `Agreement`, `MismatchedPairServesNobody`, `OneConnection`, `ExitCodesAgree`, `SessionSpec`, and the inductive invariant `HandshakeInv` |
| `handshake_liveness` | 2 clients, 2 key pairs, queue of 1, 1 alteration | `Termination`, `HonestRunSucceeds` |
| `handshake_sigpipe` | 1 client, 1 pair, nothing altered | `SendReturns`, violated |
| `messages` | 3 messages of 5, 2 (signed) and 1 bytes, bytes of one bit, buffer of 3, 3 alterations | `TypeOK`, `BoundaryKept`, `RefusesOnlyAltered`, `StreamSpec`, `NeverStalls`, and the inductive invariant `MessagesInv` |
| `messages_returns` | the same, nothing altered | `ReturnsAsDocumented`, violated |
| `transcript_safety` | 2 transcripts of up to 2 messages, bytes of one bit, 2 hashes of each | `TypeOK`, `HashTellsMessages`, `HashesAgree` |
| `record_layer` | 3 records of 1 to 3 bytes, tag of 2, capacity 2, buffer of 3, 2 alterations | `TypeOK`, `NonceUnique`, `InStep`, `RejectsOnlyAltered`, `ChannelSpec`, `Delivery`, `SendEnds`, `ReceiverEnds`, and the inductive invariant `RecordInv` |
| `record_bytes` | bytes of two bits, a number of 3 bytes in a nonce of 4, every length of 2 bytes | `NoncesDiffer`, `LengthIsRead` |
| `keyfiles_safety` | 3 runs of the generator, 1 server, public key of 2 blocks, secret key of 1 | `TypeOK`, `RefusedOnlyAfterDamage`, `LoadedKeysMatch`, and the inductive invariant `KeyFilesInv` |
| `keyfiles_saved` | 2 runs, 1 server, keys of 2 blocks | `SavedMeansSaved`, violated |
| `lifecycle_safety` | all seven programs | `TypeOK`, `ReleasesAreSafe`, `NothingLeaks`, `SecretsErased`, `KeysAllOrNothing`, `TextIsVerified`, and the inductive invariant `LifecycleInv` |
| `lifecycle_finished` | server and client | `FinishedKeyErased`, violated |

* `Agreement` (`README.md:38`): a client commits to keys only if its server's
  Finished offered exactly those, the server derives keys only if its client
  committed to the same.
* `MismatchedPairServesNobody`: the server does not compare its key files; the
  client's signature check does.
* `OneConnection` (`README.md:159`): a client that was not accepted never gets
  past waiting for ServerHello.
* `ExitCodesAgree`: a client that exits with success was served to the end by a
  server that can only succeed. The converse does not hold and is not claimed:
  the server exits with success once its record is sent, whatever the client does
  with it.
* `Termination`: a server that accepted ends, a client that connected ends, the
  queued ones included. The one exception is `Stalled`, for as long as it lasts: the length of
  the client's record was altered upward, the server waits for bytes nobody sends, the
  client for the server's record, and nothing times out. Every other wait for the rest of a
  lengthened record must end: the client's, when the server closes after its last send, and
  the server's too if the client goes away. A `recv` that took the end of the stream inside
  a record for something to retry would violate it; without the exception TLC refutes it.
* `HonestRunSucceeds`: the accepted client and the server both succeed unless a
  local failure or an altered message hit this very session; what other clients
  do cannot disturb it.
* `SendReturns`: `common.c:6` documents -1 for a failed send. The run finds the
  process killed by SIGPIPE instead: `send` is called without `MSG_NOSIGNAL` and
  the signal is not ignored, so a client whose server closed before its ClientHello
  ends without cleanup and without an exit code of its own.
* `BoundaryKept`: whatever is altered, what a receiver takes for byte i of the next message
  was sent as byte i of that message.
* `RefusesOnlyAltered`: a receiver refuses a message only if a byte of *this* message was
  altered. A length that lost a byte, or a loop that resumed at the wrong place, would
  refuse what nobody touched.
* `StreamSpec`: whole messages, in order, and an alteration stays within its message. In
  particular nothing is made of a call that stopped part of the way: not of the bytes it
  has written to the caller's buffer, not of the `body_len` of an earlier one.
* `NeverStalls`: a handshake message that was handed over is accepted or refused. An altered
  length cannot make its receiver wait for more, as an altered record length can.
* `ReturnsAsDocumented`: `tls_handshake.h:23` says 0 or -1. The run finds 1, when the peer has
  closed. Both programs know: they test for 1 after every call.
* `HashTellsMessages`: hashes of equal bytes, taken by either side at any two moments, were
  taken after the same messages. There are no separators; the hashed lengths see to it.
* `HashesAgree`: hashes taken after the same messages are equal, whichever side took them and
  however often it had hashed in the middle of them. If the context were finalised instead of
  its copy, the next hash would cover the padding of the one before. It is the converse of
  `HashTellsMessages`; `Handshake` needs both to take a hash for its messages.
* `NonceUnique` (`README.md:57`): no two calls encrypt under one nonce, although the number
  is incremented only after the last of three sends.
* `InStep`: no number travels with a record, yet between calls, with nothing on
  its way, both ends hold the same one, whatever was altered before.
* `RejectsOnlyAltered`: a receiver refuses a record only if something was
  altered or the record exceeds its buffer. The second case exists: 1024
  bytes can be sent, both programs receive at most 1023.
* `ChannelSpec`: what is delivered is a prefix of what was sent, also after an alteration.
* `Delivery`: a record whose last byte was handed over arrives, unless
  disturbed or too large.
* `SendEnds`, `ReceiverEnds`: a full buffer does not block a sender for ever,
  and a receiver does not outlive its sender's socket, even inside a record
  that never arrives in full.
* `NoncesDiffer`: no bit of the number is lost on its way into the nonce, so `RecordLayer` may
  take the one for the other.
* `LengthIsRead`: the receiver reads the length the sender wrote, for every length.
* `RefusedOnlyAfterDamage`: a server that reads while no generator runs is refused its
  keys only if some run emptied a file and did not fill it. Runs that overlap
  do not do that, however they write over each other.
* `LoadedKeysMatch`: what `load_file` accepts is a pair, unless runs or the loading
  overlapped, or the public key is of a run that ended between its two
  files. In that last case the old secret key is still whole, and
  `MismatchedPairServesNobody` says what follows. The same is all there is to say of a
  server that reads while a generator writes: the code lets it hold halves of two keys, and
  `Handshake` starts with any two halves.
* `SavedMeansSaved`: `generate_dsa_keypair.c:79` says `[OK] Public key saved`. The run
  finds a generator that reports success with empty files: both keys fit
  into the buffer of the stream, so only `fclose` writes them, and its result is ignored.
* `ReleasesAreSafe`: nothing is freed or closed that is not there, or twice, and no length is
  read from a freed `OQS_KEM` or `OQS_SIG` on the way out.
* `NothingLeaks`: every function that returns has released what it acquired;
  `transcript_init` hands its context to the caller, which frees it.
* `SecretsErased`: no heap secret is freed, and no application key left at the exit, without having
  been erased, wherever the program failed.
* `KeysAllOrNothing`: a failed derivation leaves none of the four keys to the caller.
* `TextIsVerified`: `aes_gcm_decrypt` writes the text before it checks the tag, and the
  refused text stays where it is; no program goes on with it. That takes a check of the result
  in every function between the tag and `main`: a step of a table says whether its result
  is `checked`, and a program that ignored that of `recv_encrypted_record` would
  violate it.
* `FinishedKeyErased`: `tls_finished.c:77` says `Clean Finished key`. The run finds the return
  before it, when HMAC fails: the key stays on the stack.

Bounds. Clients interact only through the queue and the one server, so the
cases are: served, queued, and refused or still connecting; three clients have
all of them at once. Two key pairs are enough to have the files differ. In a queue
of two a third client still waits for room, and two clients can be reset together. One alteration reaches every check; two reach those an earlier
alteration makes reachable (an altered ClientHello or ServerHello first, then an
altered CertificateVerify or Finished). `MaxGarbled` is the only bound that cuts behaviours:
everything else in these programs is finite. Liveness uses two clients and no
symmetry.

For handshake messages, bytes of one bit make a length of 5 need the first and the last of its
three bytes, and 2 the one between. The three messages are one with a fixed length, a signed one,
and one more behind it, so that a boundary moved by an altered length has
somewhere to go. The buffer is shorter than a header. Three alterations can change
every bit of a length, or two messages. All bodies that are sent are
of ones: bytes are told apart by the marks they carry, and altered ones are zeros. For
transcripts, two messages are the fewest whose boundary can move; their bodies are chosen
such that one can be read as part of a header.

For the record layer, three records are a first, one behind it and one behind
that. The buffer of 3 is shorter than every record with its header and tag, so
that sender and receiver must alternate within one. One text is enough, because records differ
in their nonces. The capacity is below the longest text, as in the code. `Modulus` equals
`MaxRecords`, so the last number wraps. Two alterations let a second one hit
what the first has misaligned. For `RecordBytes` three bytes have a first, a last and one
between; all 64 numbers and all 15 lengths are tried.

For the key files, three runs and the sample are an interrupted run and two that
overlap after it. Two blocks of the public key are enough for a torn key and for
a hole; an instance with two runs, two servers and two blocks of each key holds too, and takes
longer.

`Lifecycle` has no bound: a program makes each of its calls once.

Deadlock is checked in every run but `record_bytes`, where the session is over when the
sequence numbers are used up. `AllEnded`, `BothStopped`, `AllFreed` and `Exited` are the only states in
which nothing happens, because every process has exited.

Fairness (`FairSpec` of `Handshake`). Weak fairness of `ServerStep` and of each client's
`ClientStep`: a process that can take its next step is scheduled. There is none
on `ServerStart` and `ClientConnect` (nobody has to start a program), nor on failures and
alterations. In `RecordLayer` and `HandshakeMessages`, weak fairness of `SenderStep` and `ReceiverStep`: a
call that can go on goes on, and the receiving program calls until its peer has
closed, as both programs do for the records they expect. There is none on `Seal` and `Start`:
nothing has to be sent, and none on failures.

## What is proved

For every set of clients and of key pairs, every queue length of at least one
and every number of alterations; for every base, every script of messages and every buffer; for
every set of messages and number of transcripts; for every set of texts, every length,
capacity, tag length, buffer size and number of records; for every number of
runs of the generator and of servers, and keys of any size; for sequence numbers and IVs of any
length; and for every set of the repository's programs:

| theorem | module | statement |
|---|---|---|
| `TypeCorrect` | `HandshakeProofs` | `Spec => []TypeOK` |
| `AgreementHolds` | `HandshakeProofs` | `Spec => []Agreement` |
| `OneConnectionHolds` | `HandshakeProofs` | `Spec => []OneConnection` |
| `ExitCodesAgreeHolds` | `HandshakeProofs` | `Spec => []ExitCodesAgree` |
| `Refinement` | `HandshakeProofs` | `Spec => SessionSpec` |
| `SessionInvariant`, `SignatureInvariant` | `HandshakeProofs` | `Spec => []SessionInv`, `Spec => []SignatureInv` |
| `HandshakeInvariance` | `HandshakeProofs` | `Spec => []HandshakeInv` (both at once, as TLC checks it) |
| `MismatchedPairHolds` | `HandshakeProofs` | `Spec => []MismatchedPairServesNobody` |
| `MessagesInvariance` | `HandshakeMessagesProofs` | `Spec => []MessagesInv` |
| `TypeOKHolds` | `HandshakeMessagesProofs` | `Spec => []TypeOK` |
| `BoundaryKeptHolds` | `HandshakeMessagesProofs` | `Spec => []BoundaryKept` |
| `RefusesOnlyAlteredHolds` | `HandshakeMessagesProofs` | `Spec => []RefusesOnlyAltered` |
| `StreamSpecHolds` | `HandshakeMessagesProofs` | `Spec => StreamSpec` |
| `TypeCorrect` | `TranscriptProofs` | `Spec => []TypeOK` |
| `HashesAgreeHolds` | `TranscriptProofs` | `Spec => []HashesAgree` |
| `HashTellsMessagesHolds` | `TranscriptProofs` | `Spec => []HashTellsMessages` |
| `RecordInvariance` | `RecordProofs` | `Spec => []RecordInv` |
| `RecordTypeCorrect` | `RecordProofs` | `Spec => []TypeOK` |
| `NonceUniqueHolds` | `RecordProofs` | `Spec => []NonceUnique` |
| `ChannelRefinement` | `RecordProofs` | `Spec => ChannelSpec` |
| `InStepHolds` | `RecordProofs` | `Spec => []InStep` |
| `RejectsOnlyAlteredHolds` | `RecordProofs` | `Spec => []RejectsOnlyAltered` |
| `KeyFilesInvariance` | `KeyFilesProofs` | `Spec => []KeyFilesInv` |
| `KeyFilesTypeCorrect` | `KeyFilesProofs` | `Spec => []TypeOK` |
| `RefusedOnlyAfterDamageHolds` | `KeyFilesProofs` | `Spec => []RefusedOnlyAfterDamage` |
| `LoadedKeysMatchHolds` | `KeyFilesProofs` | `Spec => []LoadedKeysMatch` |
| `NoncesDifferHolds` | `RecordBytesProofs` | `Spec => []NoncesDiffer` |
| `LengthIsReadHolds` | `RecordBytesProofs` | `Spec => []LengthIsRead` |
| `LifecycleInvariance` | `LifecycleProofs` | `Spec => []LifecycleInv` |
| `TypeOKHolds` | `LifecycleProofs` | `Spec => []TypeOK` |
| `ReleasesAreSafeHolds` | `LifecycleProofs` | `Spec => []ReleasesAreSafe` |
| `NothingLeaksHolds` | `LifecycleProofs` | `Spec => []NothingLeaks` |
| `SecretsErasedHolds` | `LifecycleProofs` | `Spec => []SecretsErased` |
| `KeysAllOrNothingHolds` | `LifecycleProofs` | `Spec => []KeysAllOrNothing` |
| `TextIsVerifiedHolds` | `LifecycleProofs` | `Spec => []TextIsVerified` |

Assumptions: `NoClient` is not a client, `Backlog` is a positive and `MaxGarbled` any natural
number; for `Framing`, a base of at least two; for `HandshakeMessages`, messages of at least one byte
and at most `TLS_HANDSHAKE_MAX_BODY_LEN`; for `Transcript`, messages made of bytes; for `RecordLayer`, `SizeAssumption` (lengths are natural numbers, the
longest text, the tag and the buffer are not empty) and `RecordsAssumption`; for
`KeyFiles`, keys of at least one block, and names of runs that are not those of the
sample and of a hole; for `RecordBytes`, an exclusive or that keeps different bytes different
(`XorAssumption`), an IV at least as long as the sequence number, and lengths that two bytes hold; for
`Lifecycle`, that a program is a function no other function calls (`ProgramsAssumption`). The symbolic cryptography is part of the model: the theorems say nothing
of the strength of the primitives.

The argument. `TypeOK` is not inductive, because a step reads buffers that an
earlier step filled: `TypeInv` adds what each buffer holds at each step (the
transcript in particular grows through four nested sets of messages, which is
what keeps it apart from the Finished values made of it). `Agreement` is not inductive
either. `IInv` adds the five facts it rests on: clients nobody accepted have heard
nothing; the server offers nothing before its Finished; an unaltered Finished on
its way to the client stands for the keys on offer; a client that has checked it
holds what those keys are made of; and an unaltered Finished on its way to the
server stands for its client's keys. Only five actions touch any of this. Every
other step is *quiet* (it brings no new unaltered Finished, moves nobody to a
step where `IInv` claims more, and changes no keys), and one lemma, `QuietStep`,
covers them all. `SessionInv` and `SignatureInv` are proved by the same split, with
records and with certificates in place of Finished messages. For the refinement,
six actions are the six steps of `SecureSession` and all others stutter.

`RecordInv` follows every unaltered byte. The sender half (`SenderInv`) says that the
k-th record sealed has number k - 1 and that the number moves on exactly when a
call has handed over its last byte; `NonceUnique` is a corollary. For the refinement, the
step that matters is `Deliver`: the receiver must accept only the next record sent. That
its tag matches says which record it is, since a nonce names one; that this record was
*sent*, and not only encrypted, follows from its last byte, which the receiver
holds and which can be on its way only if the sender has handed it over (`InFlight`). And
nothing of that record remains in the stream, because the unaltered bytes
are in the order in which they were cut (`Precedes`). Neither speaks of headers or of
altered bytes, which is why the invariant survives a lost boundary.

`InStep` and `RejectsOnlyAltered` do need the boundary. `LayoutInv` says where everything stands:
the bytes of the stream have consecutive places (record, byte) that begin with the one the
receiver reads next and end before the one the sender sends next. It is claimed only while the
receiver is `Aligned`, that is between two records or inside one whose header it has read as it was
sent; a receiver that took another length never gets to a next record (the tag covers the header),
so the claim need not be restored. An empty stream between two
calls then puts both ends at the same place. And as long as nothing was altered each byte is the
one that was cut at its place, which leaves only the capacity to refuse a record for.

`MessagesInv` is about one sequence, `Chain`: what the receiver has read of the message it
expects, what is on its way, and what the kernel has not taken. It begins with the first byte
of the message the receiver expects and holds every later message that was started, each whole
and in its place. To send or to read a byte moves it from one part of the chain to the next
and leaves the chain as it is; `Start` appends one message; `CallerGoesOn` drops the first; and an
alteration changes one value and marks its message. `BoundaryKept` follows, since header and
body are the beginning of the chain. That an unaltered message is not refused needs
`FramingProofs`: three digits of a number below the third power of the base add up to
the number again.

For transcripts, `BytesTellMessages`. The bytes of a transcript have boundaries, the places where
its messages end. Suppose the same bytes come from two sequences of messages with different
boundaries, and take the least place that is a boundary of one and not of the other (this is
well-foundedness of the natural numbers, from the library). The messages around it begin
at the same place, so they have the same header, so by `FramingProofs` the same length, and end at
the same place after all. With the boundaries the messages are equal too. No recursion over
messages is needed; the invariant carries the boundaries along.
The converse, `MessagesTellBytes`, compares two sequences of bytes of the same messages: their
boundaries are the same, by the first one that would differ (`EndsAgree`), every byte lies
between two of them (`Covered`), and there both are the encoding of one message. That the
bytes of a hash have these boundaries at all, and nothing else between them, is the invariant
`TranscriptInv`; it says the same of an open copy, which is why the copy is needed.

For `KeyFiles`, two invariants. `BlocksInv` speaks of each block by itself: it is there,
or a run that has its file open has not come to it yet, or some run failed to write it. A
run that empties the file becomes that writer for every block, so the argument does not
care who overlaps whom; with no run left, a missing block has a culprit. `PairInv` holds
while runs come one after the other: each file is of one run, the run in progress has written
what is there, and two complete files are a pair or show a run that has replaced the
public key and not yet touched the secret key.

For `RecordBytes`, take two numbers with the same bytes. Shifted by all their bytes both are 0. Take
the least shift after which they are equal: if it is not 0, then one byte less gives numbers
with the same quotient and the same last byte, which are equal too. So they are equal unshifted. That
`Place`, a recursive function, exists at all and has the values one expects is proved the same way, by
the least length for which it fails; the library's induction theorem is not needed. The number of nonces used is
then the number of records sealed, because each seal adds a nonce no earlier number has.

For `Lifecycle`, the proof has two halves that meet in `Disciplined`. `TablesDisciplined` says
that the tables keep to it. Each table is laid out first: `W` says at which step each of its objects is
acquired, `F` by which release it is freed, and a few conditions on single steps and single releases
(`Fits`) are enough for all ways out at once, so that no table is unrolled over its failures. Functions of one
shape share a lemma: those that hold one object, a KDF and its context, those that only call. The two
programs, of 39 and 38 steps, are split where their cleanup starts to be complete; after `ServerInit` and
`ClientInit` every step is *quiet*, it acquires nothing. The other half is the invariance of `LifecycleInv`,
which knows nothing of the tables but that they are disciplined, with a stack of any depth. Only the
innermost activation moves, and what it acquires is no business of the others (`Apart`); the single exception is
`transcript_init`, whose context becomes its caller's when it returns (`PointersReturn`). A change of
one row of a table therefore needs the lemma of that row again and nothing else.

Only model-checked: `Delivery`, `SendEnds`, `ReceiverEnds`, `NeverStalls`, `Termination` and
`HonestRunSucceeds` (liveness under fairness is outside the prover's reach), and the violations of
`SendReturns`, `ReturnsAsDocumented`, `SavedMeansSaved` and `FinishedKeyErased`. Every invariant and every
safety refinement of a passing run is a theorem.

## Plan

Done: the handshake, the record layer and the key files with their abstract specifications; the
bytes of handshake messages, of the transcript, of nonces and record headers; what every failure
path releases and erases; the theorems above. Next, in this order:

1. `Handshake` on top of `MessageStream`: its two streams of whole messages as instances of it,
   so that the composition of the two levels is itself a theorem.
2. The safety part of `Termination`: a rank of the steps of both programs that no step increases, as an
   action property.

## Not modelled

`print_hex` and every message and value that is printed; the values the demos and `kdf.c`
compute (what they acquire and release is in `Lifecycle`). The internals of liboqs, OpenSSL, the
C library and TCP, outside the repository: cryptography is symbolic, a call of a library succeeds
or fails. Key files longer than a key, which the generator does not write. What remains in memory
beyond the buffers that the code erases or frees itself: copies in the record states, registers,
library contexts. The build files.
