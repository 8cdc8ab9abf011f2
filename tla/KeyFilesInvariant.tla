------------------------- MODULE KeyFilesInvariant -------------------------
(***************************************************************************)
(* The inductive invariants of KeyFiles behind its two properties.  One    *)
(* speaks of every block whatever overlapped, the other of whose keys the  *)
(* files hold as long as nothing did.                                      *)
(***************************************************************************)
EXTENDS KeyFiles

Writing(r, f) == r \in Active /\ at[r] = f

Present(f, i) == i <= Len(files[f]) /\ files[f][i] # Hole

\* Every block is there, or a run that has the file open will still write it,
\* or some run failed to.
BlocksInv ==
    \A f \in KeyFile : \A i \in 1..Size[f] :
        \/ Present(f, i)
        \/ \E r \in Runs : Writing(r, f) /\ written[r][f] < i
        \/ \E r \in Runs : Damaged(r)

\* What a run is yet to open it has not written.
ToolInv ==
    \A r \in Runs :
        /\ at[r] \in {"idle", "open public"} => written[r]["public"] = 0
        /\ at[r] \in {"idle", "open public", "public", "open secret"} => written[r]["secret"] = 0
        /\ at[r] = "saved" => ended[r]
        /\ at[r] = "idle" => ~ended[r]

\* Nothing is written while a server reads, unless it raced.
AloneInv ==
    /\ \A s \in Reading : s \in raced \/ Active = {}
    /\ overlapped \/ \A q, r \in Active : q = r

CompleteInv ==
    /\ ToolInv /\ AloneInv /\ BlocksInv
    /\ RefusedOnlyAfterDamage

\* All blocks of f are of the same run.
Uniform(f) == \E p \in Owners : \A i \in 1..Len(files[f]) : files[f][i] = p

\* The file holds what this run has written, and nothing else.
InProgress(r, f) ==
    /\ Len(files[f]) = written[r][f]
    /\ \A i \in 1..Len(files[f]) : files[f][i] = r

\* Runs one after the other: a file is of one run, and two complete files are
\* a pair or show where a run ended.
PairInv ==
    overlapped \/
        /\ \A f \in KeyFile : Uniform(f)
        /\ \A r \in Active :
              /\ at[r] \in {"public", "open secret", "secret"} => InProgress(r, "public")
              /\ at[r] = "secret" => InProgress(r, "secret")
        /\ \A p, q \in Owners :
              files["public"] = Whole("public", q) /\ files["secret"] = Whole("secret", p) =>
                  p = q \/ (q \in Runs /\ Halfway(q))

\* A server that did not race has read what is there.
ReadInv ==
    \A s \in Servers :
        /\ load[s] = "idle" => \A f \in KeyFile : Len(buffer[s][f]) = 0
        /\ s \in Reading =>
              s \in raced \/
                  /\ \A f \in KeyFile : \A i \in 1..Len(buffer[s][f]) :
                        i <= Len(files[f]) /\ buffer[s][f][i] = files[f][i]
                  /\ load[s] = "public" => Len(buffer[s]["secret"]) = Size["secret"]

KeyFilesInv == TypeOK /\ CompleteInv /\ PairInv /\ ReadInv /\ LoadedKeysMatch
=============================================================================
