------------------------------ MODULE KeyFiles ------------------------------
(***************************************************************************)
(* The two ML-DSA key files of the server: any number of runs of           *)
(* tools/generate_dsa_keypair.c write them, any number of starting servers *)
(* read them with load_file of src/sig_utils.c.  Nothing locks the files,  *)
(* and nothing in them says which halves belong together.                  *)
(*                                                                         *)
(* A file is a sequence of blocks, each the part of a key of one run that  *)
(* the kernel writes or reads at once.  fwrite only fills the buffer of    *)
(* the stream, which is larger than either key: the bytes reach the file   *)
(* when fclose flushes it.                                                 *)
(***************************************************************************)
EXTENDS Naturals, Sequences

\* An operator named Mutant_... is no part of the specification: it is what a
\* bug in the code would make of the definition it precedes.

CONSTANTS
    Runs,           \* the executions of the tool
    Servers,        \* the executions of the server
    PublicBlocks,   \* the blocks of a public key
    SecretBlocks    \* the blocks of a secret key

ASSUME BlocksAssumption == PublicBlocks \in Nat \ {0} /\ SecretBlocks \in Nat \ {0}
ASSUME OwnersAssumption == "sample" \notin Runs /\ "hole" \notin Runs

KeyFile == {"public", "secret"}
Size    == [public |-> PublicBlocks, secret |-> SecretBlocks]

\* Whose key a block is part of.  The repository comes with a pair; a block
\* never written reads as zeros.
Owners == Runs \union {"sample"}
Hole   == "hole"
Block  == Owners \union {Hole}

Whole(f, owner) == [i \in 1..Size[f] |-> owner]

-----------------------------------------------------------------------------
(* State *)

VARIABLES
    at,         \* the file each run of the tool is about to open, or writes
    ended,      \* the runs that have ended
    written,    \* how many blocks each run has written to each file
    files,      \* the contents of the files
    load,       \* the file each server reads, or how its reading ended
    buffer,     \* what each server has read: sig_secret_key, sig_public_key
    raced,      \* the servers that read while a run was in progress
    overlapped  \* two runs were in progress at once

tool    == <<at, ended, written>>
server  == <<load, buffer>>
history == <<raced, overlapped>>
vars    == <<tool, files, server, history>>

Active  == {r \in Runs : at[r] # "idle" /\ ~ended[r]}
Reading == {s \in Servers : load[s] \in KeyFile}

Init ==
    /\ at = [r \in Runs |-> "idle"]
    /\ ended = [r \in Runs |-> FALSE]
    /\ written = [r \in Runs |-> [f \in KeyFile |-> 0]]
    /\ files = [f \in KeyFile |-> Whole(f, "sample")]
    /\ load = [s \in Servers |-> "idle"]
    /\ buffer = [s \in Servers |-> [f \in KeyFile |-> <<>>]]
    /\ raced = {}
    /\ overlapped = FALSE

-----------------------------------------------------------------------------
(* generate_dsa_keypair *)

\* Up to the key pair in memory.
GenerateKeypair(r) ==
    /\ at[r] = "idle"
    /\ at' = [at EXCEPT ![r] = "open public"]
    /\ raced' = raced \union Reading
    /\ overlapped' = (overlapped \/ Active # {})
    /\ UNCHANGED <<ended, written, files, server>>

Opening == [public |-> "open public", secret |-> "open secret"]

\* fopen with "wb" empties the file that is there.
Mutant_KeepsContents(f) == files[f]
Opened(f) == <<>>

Open(r, f) ==
    /\ r \in Active
    /\ at[r] = Opening[f]
    /\ at' = [at EXCEPT ![r] = f]
    /\ files' = [files EXCEPT ![f] = Opened(f)]
    /\ UNCHANGED <<ended, written, server, history>>

\* The block lands at the offset of this stream, whatever another run has
\* made of the file since; a gap is filled with zeros.
Mutant_AppendsBlock(contents, offset, owner) == Append(contents, owner)
WithBlock(contents, offset, owner) ==
    [i \in 1..(IF offset < Len(contents) THEN Len(contents) ELSE offset + 1) |->
        IF i = offset + 1 THEN owner
        ELSE IF i <= Len(contents) THEN contents[i] ELSE Hole]

\* fclose flushes, one block after the other.
Flush(r, f) ==
    /\ r \in Active
    /\ at[r] = f
    /\ written[r][f] < Size[f]
    /\ files' = [files EXCEPT ![f] = WithBlock(files[f], written[r][f], r)]
    /\ written' = [written EXCEPT ![r] = [written[r] EXCEPT ![f] = written[r][f] + 1]]
    /\ UNCHANGED <<at, ended, server, history>>

\* fclose returns, and nobody asks whether it could write everything.  After
\* the secret key the tool reports both keys saved and exits with success.
AfterClose == [public |-> "open secret", secret |-> "saved"]

Closed(r, f) ==
    /\ r \in Active
    /\ at[r] = f
    /\ at' = [at EXCEPT ![r] = AfterClose[f]]
    /\ ended' = [ended EXCEPT ![r] = (f = "secret")]
    /\ UNCHANGED <<written, files, server, history>>

\* A key pair or a file that cannot be had, a failed fwrite, whose stream is
\* closed with what could be flushed, or a killed process.
Stops(r) ==
    /\ r \in Active
    /\ ended' = [ended EXCEPT ![r] = TRUE]
    /\ UNCHANGED <<at, written, files, server, history>>

-----------------------------------------------------------------------------
(* load_file, for the secret and then for the public key *)

LoadStarts(s) ==
    /\ load[s] = "idle"
    /\ load' = [load EXCEPT ![s] = "secret"]
    /\ raced' = IF Active = {} THEN raced ELSE raced \union {s}
    /\ UNCHANGED <<tool, files, buffer, overlapped>>

Mutant_LosesLastBlock(f, offset) == offset + 1 < Len(files[f])
Available(f, offset) == offset < Len(files[f])

ReadBlock(s, f) ==
    /\ load[s] = f
    /\ Len(buffer[s][f]) < Size[f]
    /\ Available(f, Len(buffer[s][f]))
    /\ buffer' = [buffer EXCEPT ![s] =
                    [buffer[s] EXCEPT ![f] = Append(buffer[s][f], files[f][Len(buffer[s][f]) + 1])]]
    /\ UNCHANGED <<tool, files, load, history>>

\* fread returned the size asked for.
AfterLoad == [secret |-> "public", public |-> "loaded"]

LoadReturns(s, f) ==
    /\ load[s] = f
    /\ Len(buffer[s][f]) = Size[f]
    /\ load' = [load EXCEPT ![s] = AfterLoad[f]]
    /\ UNCHANGED <<tool, files, buffer, history>>

\* "Invalid key file"
LoadRefuses(s, f) ==
    /\ load[s] = f
    /\ Len(buffer[s][f]) < Size[f]
    /\ ~Available(f, Len(buffer[s][f]))
    /\ load' = [load EXCEPT ![s] = "refused"]
    /\ UNCHANGED <<tool, files, buffer, history>>

\* fopen or fread fails by itself, or the server is killed.
LoadFails(s) ==
    /\ load[s] \in KeyFile
    /\ load' = [load EXCEPT ![s] = "failed"]
    /\ UNCHANGED <<tool, files, buffer, history>>

-----------------------------------------------------------------------------

AllEnded ==
    /\ \A r \in Runs : ended[r]
    /\ \A s \in Servers : load[s] \in {"loaded", "refused", "failed"}
    /\ UNCHANGED vars

ToolStep(r) ==
    \/ GenerateKeypair(r)
    \/ \E f \in KeyFile : Open(r, f) \/ Flush(r, f) \/ Closed(r, f)
    \/ Stops(r)

ServerStep(s) ==
    \/ LoadStarts(s)
    \/ \E f \in KeyFile : ReadBlock(s, f) \/ LoadReturns(s, f) \/ LoadRefuses(s, f)
    \/ LoadFails(s)

Next ==
    \/ \E r \in Runs : ToolStep(r)
    \/ \E s \in Servers : ServerStep(s)
    \/ AllEnded

Spec == Init /\ [][Next]_vars

-----------------------------------------------------------------------------
(* Properties *)

ToolType ==
    /\ at \in [Runs -> {"idle", "open public", "public", "open secret", "secret", "saved"}]
    /\ ended \in [Runs -> BOOLEAN]

FilesType ==
    /\ written \in [Runs -> [KeyFile -> Nat]]
    /\ \A r \in Runs, f \in KeyFile : written[r][f] <= Size[f]
    /\ files \in [KeyFile -> Seq(Block)]
    /\ \A f \in KeyFile : Len(files[f]) <= Size[f]

LoadType == load \in [Servers -> {"idle", "loaded", "refused", "failed"} \union KeyFile]

BufferType ==
    /\ buffer \in [Servers -> [KeyFile -> Seq(Block)]]
    /\ \A s \in Servers, f \in KeyFile : Len(buffer[s][f]) <= Size[f]

HistoryType == raced \subseteq Servers /\ overlapped \in BOOLEAN

TypeOK == ToolType /\ FilesType /\ LoadType /\ BufferType /\ HistoryType

\* The run has nothing more to write to a file it has emptied.
Left(r, f) ==
    IF f = "public"
    THEN at[r] \in {"open secret", "secret", "saved"} \/ (at[r] = "public" /\ ended[r])
    ELSE at[r] = "saved" \/ (at[r] = "secret" /\ ended[r])

\* It emptied a file and did not fill it: it was stopped in between, or fclose
\* failed.
Damaged(r) == \E f \in KeyFile : Left(r, f) /\ written[r][f] < Size[f]

\* It replaced the public key and never touched the secret key.
Halfway(r) == at[r] \in {"public", "open secret"} /\ written[r]["public"] = Size["public"]

\* A server that reads while no tool runs is refused its keys only if some run
\* emptied a file and could not fill it.  Runs that overlap do not do that:
\* however they write over each other, both files are complete in the end.
RefusedOnlyAfterDamage ==
    \A s \in Servers : load[s] = "refused" /\ s \notin raced => \E r \in Runs : Damaged(r)

\* load_file compares sizes, nothing compares the two keys.  What it accepts
\* is nevertheless a pair, unless a run overlapped another or the reading, or
\* the public key is of a run that ended between its two files.
LoadedKeysMatch ==
    \A s \in Servers :
        load[s] = "loaded" /\ s \notin raced /\ ~overlapped =>
            \E p, q \in Owners :
                /\ buffer[s] = [public |-> Whole("public", q), secret |-> Whole("secret", p)]
                /\ p = q \/ (q \in Runs /\ ended[q] /\ Halfway(q))

\* "Public key saved to", "Secret key saved to" (generate_dsa_keypair.c:79): a
\* run that says so, and was alone, left its key pair in the files.
SavedMeansSaved ==
    \A r \in Runs :
        at[r] = "saved" /\ (\A q \in Runs \ {r} : at[q] = "idle") =>
            \A f \in KeyFile : files[f] = Whole(f, r)
=============================================================================
