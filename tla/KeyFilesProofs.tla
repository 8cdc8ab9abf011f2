--------------------------- MODULE KeyFilesProofs ---------------------------
(***************************************************************************)
(* Proofs about KeyFiles, for any number of runs of the tool and of        *)
(* servers, and keys of any size.                                          *)
(***************************************************************************)
EXTENDS KeyFilesInvariant, TLAPS

-----------------------------------------------------------------------------
(* Sizes and contents *)

LEMMA Sizes == \A f \in KeyFile : Size[f] \in Nat /\ Size[f] > 0
BY BlocksAssumption DEF KeyFile, Size

\* Where the tool and a server go from one file to the next.
LEMMA Places ==
    /\ Opening["public"] = "open public" /\ Opening["secret"] = "open secret"
    /\ AfterClose["public"] = "open secret" /\ AfterClose["secret"] = "saved"
    /\ AfterLoad["secret"] = "public" /\ AfterLoad["public"] = "loaded"
BY DEF Opening, AfterClose, AfterLoad

\* What one block written at an offset makes of a file.
LEMMA BlockWritten ==
    ASSUME NEW q \in Seq(Block), NEW n \in Nat, NEW r \in Runs
    PROVE  LET w == WithBlock(q, n, r) IN
           /\ w \in Seq(Block)
           /\ Len(w) = IF n < Len(q) THEN Len(q) ELSE n + 1
           /\ \A i \in 1..Len(w) :
                 w[i] = IF i = n + 1 THEN r ELSE IF i <= Len(q) THEN q[i] ELSE Hole
<1> DEFINE w == WithBlock(q, n, r)
           l == IF n < Len(q) THEN Len(q) ELSE n + 1
<1>1. l \in Nat
  OBVIOUS
<1>2. \A i \in 1..l : w[i] = IF i = n + 1 THEN r ELSE IF i <= Len(q) THEN q[i] ELSE Hole
  BY DEF WithBlock
<1>3. \A i \in 1..l : w[i] \in Block
  BY <1>1, <1>2 DEF Block, Owners
<1>4. w = [i \in 1..l |-> w[i]]
  BY DEF WithBlock
<1>5. w \in Seq(Block) /\ Len(w) = l
  <2> HIDE DEF w, l
  <2>1. w \in [1..l -> Block]
    BY <1>3, <1>4
  <2> QED  BY <1>1, <2>1
<1> QED  BY <1>2, <1>5

-----------------------------------------------------------------------------
(* Type correctness *)

\* A file keeps its type when a block of one run is written to it.
LEMMA FlushedFile ==
    ASSUME TypeOK, NEW r \in Runs, NEW f \in KeyFile, Flush(r, f)
    PROVE  /\ files' = [files EXCEPT ![f] = files'[f]]
           /\ files'[f] \in Seq(Block)
           /\ Len(files'[f]) = IF written[r][f] < Len(files[f]) THEN Len(files[f]) ELSE written[r][f] + 1
           /\ \A i \in 1..Len(files'[f]) :
                 files'[f][i] = IF i = written[r][f] + 1 THEN r
                                ELSE IF i <= Len(files[f]) THEN files[f][i] ELSE Hole
<1>1. written[r][f] \in Nat /\ files[f] \in Seq(Block) /\ f \in DOMAIN files
  BY DEF TypeOK, FilesType, BufferType
<1>2. files' = [files EXCEPT ![f] = WithBlock(files[f], written[r][f], r)]
  BY DEF Flush
<1>3. files'[f] = WithBlock(files[f], written[r][f], r)
  BY <1>1, <1>2
<1> QED  BY <1>1, <1>2, <1>3, BlockWritten

\* How a flush counts what it has written.
LEMMA FlushedCount ==
    ASSUME TypeOK, NEW r \in Runs, NEW f \in KeyFile, Flush(r, f)
    PROVE  /\ written' \in [Runs -> [KeyFile -> Nat]]
           /\ written[r][f] < Size[f]
           /\ \A q \in Runs, g \in KeyFile :
                 written'[q][g] = IF q = r /\ g = f THEN written[r][f] + 1 ELSE written[q][g]
<1>1. written \in [Runs -> [KeyFile -> Nat]]
  BY DEF TypeOK, FilesType, BufferType
<1>2. written' = [written EXCEPT ![r] = [written[r] EXCEPT ![f] = written[r][f] + 1]]
  BY DEF Flush
<1> DEFINE row == [written[r] EXCEPT ![f] = written[r][f] + 1]
<1>3. row \in [KeyFile -> Nat] /\ \A g \in KeyFile : row[g] = IF g = f THEN written[r][f] + 1 ELSE written[r][g]
  BY <1>1
<1>4. written' = [written EXCEPT ![r] = row]
  BY <1>2
<1> HIDE DEF row
<1>5. written' \in [Runs -> [KeyFile -> Nat]]
  BY <1>1, <1>3, <1>4
<1>6. ASSUME NEW q \in Runs, NEW g \in KeyFile
      PROVE  written'[q][g] = IF q = r /\ g = f THEN written[r][f] + 1 ELSE written[q][g]
  BY <1>1, <1>3, <1>4
<1> QED  BY <1>5, <1>6 DEF Flush

\* What a server has read of a file after one more block.
LEMMA ReadBuffer ==
    ASSUME TypeOK, NEW s \in Servers, NEW f \in KeyFile, ReadBlock(s, f)
    PROVE  /\ buffer' \in [Servers -> [KeyFile -> Seq(Block)]]
           /\ \A t \in Servers, g \in KeyFile :
                 ~(t = s /\ g = f) => buffer'[t][g] = buffer[t][g]
           /\ Len(buffer[s][f]) < Size[f] /\ Len(buffer[s][f]) < Len(files[f])
           /\ Len(buffer'[s][f]) = Len(buffer[s][f]) + 1
           /\ \A i \in 1..Len(buffer[s][f]) : buffer'[s][f][i] = buffer[s][f][i]
           /\ buffer'[s][f][Len(buffer'[s][f])] = files[f][Len(buffer'[s][f])]
<1>1. /\ buffer \in [Servers -> [KeyFile -> Seq(Block)]]
      /\ files[f] \in Seq(Block) /\ buffer[s][f] \in Seq(Block)
      /\ Len(buffer[s][f]) \in Nat
  BY DEF TypeOK, FilesType, BufferType
<1>2. Len(buffer[s][f]) < Size[f] /\ Len(buffer[s][f]) < Len(files[f])
  BY DEF ReadBlock, Available
<1> DEFINE b == files[f][Len(buffer[s][f]) + 1]
           longer == Append(buffer[s][f], b)
           row == [buffer[s] EXCEPT ![f] = longer]
<1>3. b \in Block
  BY <1>1, <1>2
<1>4. /\ longer \in Seq(Block) /\ Len(longer) = Len(buffer[s][f]) + 1
      /\ \A i \in 1..Len(buffer[s][f]) : longer[i] = buffer[s][f][i]
      /\ longer[Len(longer)] = b
  <2> HIDE DEF b
  <2> QED  BY <1>1, <1>3
<1>5. buffer' = [buffer EXCEPT ![s] = row]
  BY DEF ReadBlock
<1> HIDE DEF longer
<1>6. row \in [KeyFile -> Seq(Block)] /\ row[f] = longer /\ \A g \in KeyFile : g # f => row[g] = buffer[s][g]
  BY <1>1, <1>4
<1> HIDE DEF row
<1>7. buffer' \in [Servers -> [KeyFile -> Seq(Block)]] /\ buffer'[s] = row
      /\ \A t \in Servers : t # s => buffer'[t] = buffer[t]
  BY <1>1, <1>5, <1>6
<1>8. buffer'[s][f] = longer
  BY <1>6, <1>7
<1> QED  BY <1>2, <1>4, <1>6, <1>7, <1>8

LEMMA KeyFilesInit == Init => TypeOK
<1> SUFFICES ASSUME Init PROVE TypeOK
  OBVIOUS
<1>1. ASSUME NEW f \in KeyFile
      PROVE  files[f] \in Seq(Block) /\ Len(files[f]) = Size[f]
  <2>1. files[f] = [i \in 1..Size[f] |-> "sample"] /\ Size[f] \in Nat
    BY <1>1, Sizes DEF Init, Whole
  <2>2. files[f] \in [1..Size[f] -> Block]
    BY <2>1 DEF Block, Owners
  <2> QED  BY <2>1, <2>2
<1>2. FilesType
  <2>1. files \in [KeyFile -> Seq(Block)] /\ \A f \in KeyFile : Len(files[f]) <= Size[f]
    BY <1>1, Sizes DEF Init
  <2>2. written \in [Runs -> [KeyFile -> Nat]] /\ \A r \in Runs, f \in KeyFile : written[r][f] <= Size[f]
    BY Sizes DEF Init
  <2> QED  BY <2>1, <2>2 DEF FilesType
<1>3. BufferType
  <2>1. buffer \in [Servers -> [KeyFile -> Seq(Block)]]
        /\ \A s \in Servers, f \in KeyFile : Len(buffer[s][f]) = 0
    BY DEF Init
  <2> QED  BY <2>1, Sizes DEF BufferType
<1>4. ToolType /\ LoadType /\ HistoryType
  BY DEF Init, ToolType, LoadType, HistoryType
<1> QED  BY <1>2, <1>3, <1>4 DEF TypeOK

LEMMA KeyFilesTypeStep ==
    ASSUME TypeOK, [Next]_vars
    PROVE  TypeOK'
<1> USE DEF TypeOK, tool, server, history
<1>1. ASSUME NEW r \in Runs, GenerateKeypair(r) PROVE TypeOK'
  <2>1. ToolType' /\ HistoryType'
    BY <1>1 DEF GenerateKeypair, ToolType, HistoryType, Reading
  <2>2. FilesType' /\ LoadType' /\ BufferType'
    BY <1>1 DEF GenerateKeypair, FilesType, LoadType, BufferType
  <2> QED  BY <2>1, <2>2
<1>2. ASSUME NEW r \in Runs, NEW f \in KeyFile, Open(r, f) PROVE TypeOK'
  <2>1. files' \in [KeyFile -> Seq(Block)] /\ \A g \in KeyFile : Len(files'[g]) <= Size[g]
    BY <1>2, Sizes DEF Open, Opened, FilesType
  <2>2. FilesType'
    BY <1>2, <2>1 DEF Open, FilesType
  <2>3. ToolType'
    BY <1>2 DEF Open, ToolType, KeyFile
  <2>4. LoadType' /\ BufferType' /\ HistoryType'
    BY <1>2 DEF Open, LoadType, BufferType, HistoryType
  <2> QED  BY <2>2, <2>3, <2>4
<1>3. ASSUME NEW r \in Runs, NEW f \in KeyFile, Flush(r, f) PROVE TypeOK'
  <2> DEFINE n == written[r][f]
             l == Len(files[f])
  <2>0. n \in Nat /\ l \in Nat /\ l <= Size[f] /\ Size[f] \in Nat
    BY Sizes DEF FilesType
  <2>1. files' \in [KeyFile -> Seq(Block)] /\ \A g \in KeyFile : g # f => files'[g] = files[g]
    <3>1. files \in [KeyFile -> Seq(Block)] /\ files'[f] \in Seq(Block)
      BY <1>3, FlushedFile DEF FilesType
    <3>2. files' = [files EXCEPT ![f] = files'[f]]
      BY <1>3, FlushedFile
    <3> DEFINE q == files'[f]
    <3> HIDE DEF q, TypeOK
    <3>3. files' = [files EXCEPT ![f] = q] /\ q \in Seq(Block)
      BY <3>1, <3>2 DEF q
    <3> QED  BY <3>1, <3>3
  <2>2. \A g \in KeyFile : Len(files'[g]) <= Size[g]
    <3>1. Len(files'[f]) = (IF n < l THEN l ELSE n + 1) /\ n < Size[f]
      BY <1>3, FlushedFile, FlushedCount
    <3>2. Len(files'[f]) <= Size[f]
      BY <2>0, <3>1
    <3> QED  BY <2>1, <3>2 DEF FilesType
  <2>3. written' \in [Runs -> [KeyFile -> Nat]] /\ \A q \in Runs, g \in KeyFile : written'[q][g] <= Size[g]
    <3>1. /\ written' \in [Runs -> [KeyFile -> Nat]]
          /\ n < Size[f]
          /\ \A q \in Runs, g \in KeyFile :
                written'[q][g] = IF q = r /\ g = f THEN n + 1 ELSE written[q][g]
      BY <1>3, FlushedCount
    <3>2. ASSUME NEW q \in Runs, NEW g \in KeyFile PROVE written'[q][g] <= Size[g]
      <4>1. written[q][g] <= Size[g]
        BY DEF FilesType
      <4> QED  BY <2>0, <3>1, <4>1
    <3> QED  BY <3>1, <3>2
  <2>4. FilesType'
    BY <2>1, <2>2, <2>3 DEF FilesType
  <2>5. ToolType' /\ LoadType' /\ BufferType' /\ HistoryType'
    BY <1>3 DEF Flush, ToolType, LoadType, BufferType, HistoryType
  <2> QED  BY <2>4, <2>5
<1>4. ASSUME NEW r \in Runs, NEW f \in KeyFile, Closed(r, f) PROVE TypeOK'
  <2>1. AfterClose[f] \in {"open secret", "saved"}
    BY Places DEF KeyFile
  <2>2. at' \in [Runs -> {"idle", "open public", "public", "open secret", "secret", "saved"}]
    BY <1>4, <2>1 DEF Closed, ToolType
  <2>3. ended' \in [Runs -> BOOLEAN]
    BY <1>4, <2>1 DEF Closed, ToolType
  <2>4. FilesType' /\ LoadType' /\ BufferType' /\ HistoryType'
    BY <1>4 DEF Closed, FilesType, LoadType, BufferType, HistoryType
  <2> QED  BY <2>2, <2>3, <2>4 DEF ToolType
<1>5. ASSUME NEW r \in Runs, Stops(r) PROVE TypeOK'
  BY <1>5 DEF Stops, ToolType, FilesType, LoadType, BufferType, HistoryType
<1>6. ASSUME NEW s \in Servers, LoadStarts(s) PROVE TypeOK'
  <2>1. LoadType' /\ HistoryType'
    BY <1>6 DEF LoadStarts, LoadType, HistoryType, KeyFile
  <2>2. ToolType' /\ FilesType' /\ BufferType'
    BY <1>6 DEF LoadStarts, ToolType, FilesType, BufferType
  <2> QED  BY <2>1, <2>2
<1>7. ASSUME NEW s \in Servers, NEW f \in KeyFile, ReadBlock(s, f) PROVE TypeOK'
  <2>1. /\ buffer' \in [Servers -> [KeyFile -> Seq(Block)]]
        /\ \A t \in Servers, g \in KeyFile : Len(buffer'[t][g]) <= Size[g]
    <3>1. /\ buffer' \in [Servers -> [KeyFile -> Seq(Block)]]
          /\ \A t \in Servers, g \in KeyFile : ~(t = s /\ g = f) => buffer'[t][g] = buffer[t][g]
          /\ Len(buffer[s][f]) < Size[f] /\ Len(buffer'[s][f]) = Len(buffer[s][f]) + 1
      BY <1>7, ReadBuffer
    <3>2. Len(buffer[s][f]) \in Nat /\ Size[f] \in Nat
      BY Sizes DEF BufferType
    <3>3. Len(buffer'[s][f]) <= Size[f]
      BY <3>1, <3>2
    <3> QED  BY <3>1, <3>3 DEF BufferType
  <2>2. ToolType' /\ FilesType' /\ LoadType' /\ HistoryType'
    BY <1>7 DEF ReadBlock, ToolType, FilesType, LoadType, HistoryType
  <2> QED  BY <2>1, <2>2 DEF BufferType
<1>8. ASSUME NEW s \in Servers, NEW f \in KeyFile,
             LoadReturns(s, f) \/ LoadRefuses(s, f) \/ LoadFails(s)
      PROVE  TypeOK'
  <2>1. LoadType'
    BY <1>8 DEF LoadReturns, LoadRefuses, LoadFails, LoadType, AfterLoad, KeyFile
  <2>2. ToolType' /\ FilesType' /\ BufferType' /\ HistoryType'
    BY <1>8 DEF LoadReturns, LoadRefuses, LoadFails, ToolType, FilesType, BufferType, HistoryType
  <2> QED  BY <2>1, <2>2
<1>9. CASE UNCHANGED vars
  BY <1>9 DEF vars, ToolType, FilesType, LoadType, BufferType, HistoryType
<1>10. "public" \in KeyFile
  BY DEF KeyFile
<1> QED
  BY <1>1, <1>2, <1>3, <1>4, <1>5, <1>6, <1>7, <1>8, <1>9, <1>10
  DEF Next, ToolStep, ServerStep, AllEnded

\* Type correctness of the tools, the files and the servers (TypeOK).
THEOREM KeyFilesTypeCorrect == Spec => []TypeOK
<1>1. TypeOK /\ [Next]_vars => TypeOK'
  BY KeyFilesTypeStep
<1> QED  BY KeyFilesInit, <1>1, PTL DEF Spec

-----------------------------------------------------------------------------
(* RefusedOnlyAfterDamage *)

\* A step is one of the tool, or leaves tools and files alone.
LEMMA ToolOrServer ==
    ASSUME [Next]_vars
    PROVE  (\E r \in Runs : ToolStep(r)) \/ UNCHANGED <<at, ended, written, files>>
BY DEF Next, ServerStep, LoadStarts, ReadBlock, LoadReturns, LoadRefuses, LoadFails, AllEnded, vars, tool

\* The steps of a run, with what they make of the two program counters.
LEMMA ToolMoves ==
    ASSUME TypeOK, NEW r \in Runs, ToolStep(r)
    PROVE  /\ \A q \in Runs \ {r} : at'[q] = at[q] /\ ended'[q] = ended[q] /\ written'[q] = written[q]
           /\ \/ GenerateKeypair(r) /\ at[r] = "idle" /\ at'[r] = "open public" /\ ended'[r] = ended[r] /\ written'[r] = written[r]
              \/ /\ Open(r, "public") /\ ~ended[r] /\ at[r] = "open public"
                 /\ at'[r] = "public" /\ ended'[r] = ended[r] /\ written'[r] = written[r]
              \/ /\ Open(r, "secret") /\ ~ended[r] /\ at[r] = "open secret"
                 /\ at'[r] = "secret" /\ ended'[r] = ended[r] /\ written'[r] = written[r]
              \/ /\ \E f \in KeyFile : Flush(r, f) /\ at[r] = f
                 /\ ~ended[r] /\ at'[r] = at[r] /\ ended'[r] = ended[r]
              \/ /\ Closed(r, "public") /\ ~ended[r] /\ at[r] = "public"
                 /\ at'[r] = "open secret" /\ ~ended'[r] /\ written'[r] = written[r]
              \/ /\ Closed(r, "secret") /\ ~ended[r] /\ at[r] = "secret"
                 /\ at'[r] = "saved" /\ ended'[r] /\ written'[r] = written[r]
              \/ Stops(r) /\ ~ended[r] /\ at[r] # "idle" /\ at'[r] = at[r] /\ ended'[r] /\ written'[r] = written[r]
<1> DEFINE Others == \A q \in Runs \ {r} : at'[q] = at[q] /\ ended'[q] = ended[q] /\ written'[q] = written[q]
<1>0. /\ at \in [Runs -> {"idle", "open public", "public", "open secret", "secret", "saved"}]
      /\ ended \in [Runs -> BOOLEAN]
      /\ written \in [Runs -> [KeyFile -> Nat]]
  BY DEF TypeOK, ToolType, FilesType
<1>1. CASE GenerateKeypair(r)
  BY <1>0, <1>1 DEF GenerateKeypair
<1>2. ASSUME NEW f \in KeyFile, Open(r, f)
      PROVE  /\ Others /\ ~ended[r] /\ at[r] = Opening[f]
             /\ at'[r] = f /\ ended'[r] = ended[r] /\ written'[r] = written[r]
  BY <1>0, <1>2 DEF Open, Active, tool
<1>3. ASSUME NEW f \in KeyFile, Flush(r, f)
      PROVE  Others /\ ~ended[r] /\ at[r] = f /\ at'[r] = at[r] /\ ended'[r] = ended[r]
  BY <1>0, <1>3 DEF Flush, Active
<1>4. ASSUME NEW f \in KeyFile, Closed(r, f)
      PROVE  /\ Others /\ ~ended[r] /\ at[r] = f
             /\ at'[r] = AfterClose[f] /\ (ended'[r] <=> f = "secret") /\ written'[r] = written[r]
  <2>1. ended' = [ended EXCEPT ![r] = (f = "secret")] /\ at' = [at EXCEPT ![r] = AfterClose[f]]
    BY <1>4 DEF Closed
  <2>2. CASE f = "secret"
    <3>1. ended' = [ended EXCEPT ![r] = TRUE]
      BY <2>1, <2>2
    <3> QED  BY <1>0, <1>4, <2>1, <2>2, <3>1 DEF Closed, Active
  <2>3. CASE f = "public"
    <3>1. ended' = [ended EXCEPT ![r] = FALSE]
      BY <2>1, <2>3
    <3> QED  BY <1>0, <1>4, <2>1, <2>3, <3>1 DEF Closed, Active
  <2> QED  BY <2>2, <2>3 DEF KeyFile
<1>5. CASE Stops(r)
  BY <1>0, <1>5 DEF Stops, Active
<1> QED  BY <1>1, <1>2, <1>3, <1>4, <1>5, Places DEF ToolStep, KeyFile

LEMMA ToolInvStep ==
    ASSUME TypeOK, ToolInv, [Next]_vars
    PROVE  ToolInv'
<1>1. CASE UNCHANGED <<at, ended, written, files>>
  BY <1>1 DEF ToolInv
<1>2. ASSUME NEW r \in Runs, ToolStep(r) PROVE ToolInv'
  <2>1. ASSUME NEW q \in Runs \ {r} PROVE at'[q] = at[q] /\ ended'[q] = ended[q] /\ written'[q] = written[q]
    BY <1>2, ToolMoves
  <2>2. ASSUME NEW f \in KeyFile, Flush(r, f)
        PROVE  at[r] = f /\ \A g \in KeyFile : g # f => written'[r][g] = written[r][g]
    BY <2>2, FlushedCount DEF Flush
  <2>3. /\ at'[r] \in {"idle", "open public"} => written'[r]["public"] = 0
        /\ at'[r] \in {"idle", "open public", "public", "open secret"} => written'[r]["secret"] = 0
        /\ at'[r] = "saved" => ended'[r]
        /\ at'[r] = "idle" => ~ended'[r]
    BY <1>2, <2>2, ToolMoves DEF ToolInv, KeyFile
  <2> QED  BY <2>1, <2>3 DEF ToolInv
<1> QED  BY <1>1, <1>2, ToolOrServer

\* What a run failed to write it never writes.
LEMMA DamageStays ==
    ASSUME TypeOK, [Next]_vars, NEW q \in Runs, Damaged(q)
    PROVE  Damaged(q)'
<1>1. CASE UNCHANGED <<at, ended, written, files>>
  BY <1>1 DEF Damaged, Left
<1>2. ASSUME NEW r \in Runs, ToolStep(r) PROVE Damaged(q)'
  <2>1. PICK f \in KeyFile : Left(q, f) /\ written[q][f] < Size[f]
    BY DEF Damaged
  <2>2. CASE q # r
    <3>1. at'[q] = at[q] /\ ended'[q] = ended[q] /\ written'[q] = written[q]
      BY <1>2, <2>2, ToolMoves
    <3> QED  BY <2>1, <3>1 DEF Damaged, Left
  <2>3. CASE q = r
    <3>1. ASSUME NEW g \in KeyFile, Flush(r, g)
          PROVE  at[r] = g /\ ~ended[r] /\ \A h \in KeyFile : h # g => written'[r][h] = written[r][h]
      BY <3>1, FlushedCount DEF Flush, Active
    <3>2. Left(q, f)' /\ written'[q][f] = written[q][f]
      BY <1>2, <2>1, <2>3, <3>1, ToolMoves DEF Left, KeyFile
    <3> QED  BY <2>1, <3>2 DEF Damaged
  <2> QED  BY <2>2, <2>3
<1> QED  BY <1>1, <1>2, ToolOrServer

\* A run that will write a block goes on having it to write, writes it, or
\* leaves the file damaged.
LEMMA WriterMoves ==
    ASSUME TypeOK, ToolInv, [Next]_vars, NEW f \in KeyFile, NEW i \in 1..Size[f],
           NEW q \in Runs, Writing(q, f), written[q][f] < i
    PROVE  \/ Writing(q, f)' /\ written'[q][f] < i
           \/ Flush(q, f) /\ i = written[q][f] + 1
           \/ Damaged(q)'
<1>0. /\ at[q] = f /\ ~ended[q] /\ f # "idle"
      /\ i \in Nat /\ i <= Size[f] /\ Size[f] \in Nat /\ written[q][f] \in Nat
  BY Sizes DEF Writing, Active, TypeOK, FilesType, KeyFile
<1>1. CASE UNCHANGED <<at, ended, written, files>>
  BY <1>1 DEF Writing, Active
<1>2. ASSUME NEW r \in Runs, ToolStep(r), r # q PROVE Writing(q, f)' /\ written'[q][f] < i
  <2>1. at'[q] = at[q] /\ ended'[q] = ended[q] /\ written'[q] = written[q]
    BY <1>2, ToolMoves
  <2> QED  BY <2>1 DEF Writing, Active
<1>3. CASE ToolStep(q)
  <2>1. CASE \E g \in KeyFile : Flush(q, g)
    <3>1. Flush(q, f) /\ at'[q] = at[q] /\ ended'[q] = ended[q]
      BY <1>0, <2>1 DEF Flush
    <3>2. written'[q][f] = written[q][f] + 1
      BY <3>1, FlushedCount
    <3>3. CASE i = written[q][f] + 1
      BY <3>1, <3>3
    <3>4. CASE i # written[q][f] + 1
      BY <1>0, <3>1, <3>2, <3>4 DEF Writing, Active
    <3> QED  BY <3>3, <3>4
  <2>2. CASE ~\E g \in KeyFile : Flush(q, g)
    <3>1. written'[q] = written[q] /\ Left(q, f)'
      BY <1>0, <1>3, <2>2, ToolMoves DEF Left, KeyFile
    <3>2. written'[q][f] < Size[f]
      BY <1>0, <3>1
    <3> QED  BY <3>1, <3>2 DEF Damaged
  <2> QED  BY <2>1, <2>2
<1> QED  BY <1>1, <1>2, <1>3, ToolOrServer

\* A block that is there stays, unless its file is opened again.
LEMMA PresentStays ==
    ASSUME TypeOK, [Next]_vars, NEW f \in KeyFile, NEW i \in 1..Size[f], Present(f, i),
           ~\E r \in Runs : Open(r, f)
    PROVE  Present(f, i)'
<1>0. files \in [KeyFile -> Seq(Block)] /\ i \in Nat /\ i >= 1 /\ Len(files[f]) \in Nat
  BY Sizes DEF TypeOK, FilesType
<1>1. CASE UNCHANGED <<at, ended, written, files>>
  BY <1>1 DEF Present
<1>2. ASSUME NEW r \in Runs, NEW g \in KeyFile, Open(r, g) PROVE Present(f, i)'
  <2>1. g # f
    BY <1>2
  <2>2. files'[f] = files[f]
    BY <1>0, <1>2, <2>1 DEF Open
  <2> QED  BY <2>2 DEF Present
<1>3. ASSUME NEW r \in Runs, NEW g \in KeyFile, Flush(r, g) PROVE Present(f, i)'
  <2>1. CASE g # f
    <3>1. files'[f] = files[f]
      BY <1>0, <1>3, <2>1 DEF Flush
    <3> QED  BY <3>1 DEF Present
  <2>2. CASE g = f
    <3>1. /\ Len(files'[f]) = IF written[r][f] < Len(files[f]) THEN Len(files[f]) ELSE written[r][f] + 1
          /\ \A k \in 1..Len(files'[f]) :
                files'[f][k] = IF k = written[r][f] + 1 THEN r
                               ELSE IF k <= Len(files[f]) THEN files[f][k] ELSE Hole
      BY <1>3, <2>2, FlushedFile
    <3>2. written[r][f] \in Nat /\ i <= Len(files[f]) /\ files[f][i] # Hole /\ r # Hole
      BY OwnersAssumption DEF TypeOK, FilesType, Present, Hole
    <3>3. i \in 1..Len(files'[f])
      BY <1>0, <3>1, <3>2
    <3>4. files'[f][i] = r \/ files'[f][i] = files[f][i]
      BY <3>1, <3>2, <3>3
    <3> QED  BY <3>2, <3>3, <3>4 DEF Present, Hole
  <2> QED  BY <2>1, <2>2
<1>4. ASSUME NEW r \in Runs, GenerateKeypair(r) \/ Stops(r) \/ \E g \in KeyFile : Closed(r, g)
      PROVE  Present(f, i)'
  BY <1>4 DEF GenerateKeypair, Stops, Closed, Present
<1> QED  BY <1>1, <1>2, <1>3, <1>4, ToolOrServer DEF ToolStep

LEMMA BlocksInvStep ==
    ASSUME TypeOK, ToolInv, BlocksInv, [Next]_vars
    PROVE  BlocksInv'
<1> SUFFICES ASSUME NEW f \in KeyFile, NEW i \in 1..Size[f]
             PROVE  \/ Present(f, i)'
                    \/ \E r \in Runs : Writing(r, f)' /\ written'[r][f] < i
                    \/ \E r \in Runs : Damaged(r)'
  BY DEF BlocksInv
<1>0. i \in Nat /\ i >= 1 /\ files \in [KeyFile -> Seq(Block)]
  BY Sizes DEF TypeOK, FilesType
<1>1. ASSUME NEW r \in Runs, Open(r, f)
      PROVE  Writing(r, f)' /\ written'[r][f] < i
  <2>1. at'[r] = f /\ ended'[r] = ended[r] /\ ~ended[r] /\ written' = written /\ at[r] = Opening[f]
    BY <1>1 DEF Open, Active, tool, TypeOK, ToolType
  <2>2. written[r][f] = 0
    BY <2>1, Places DEF ToolInv, KeyFile
  <2>3. Writing(r, f)'
    BY <2>1 DEF Writing, Active, KeyFile
  <2> QED  BY <1>0, <2>1, <2>2, <2>3
<1>2. ASSUME NEW r \in Runs, Flush(r, f), i = written[r][f] + 1
      PROVE  Present(f, i)'
  <2>1. /\ Len(files'[f]) = IF written[r][f] < Len(files[f]) THEN Len(files[f]) ELSE written[r][f] + 1
        /\ \A k \in 1..Len(files'[f]) : k = written[r][f] + 1 => files'[f][k] = r
    BY <1>2, FlushedFile
  <2>2. written[r][f] \in Nat /\ Len(files[f]) \in Nat
    BY DEF TypeOK, FilesType
  <2>3. i \in 1..Len(files'[f])
    BY <1>2, <2>1, <2>2
  <2>4. r # Hole
    BY OwnersAssumption DEF Hole
  <2> QED  BY <1>2, <2>1, <2>3, <2>4 DEF Present, Hole
<1>3. CASE \E r \in Runs : Open(r, f)
  BY <1>1, <1>3
<1>4. CASE Present(f, i) /\ ~\E r \in Runs : Open(r, f)
  BY <1>4, PresentStays
<1>5. CASE \E r \in Runs : Writing(r, f) /\ written[r][f] < i
  BY <1>2, <1>5, WriterMoves
<1>6. CASE \E r \in Runs : Damaged(r)
  BY <1>6, DamageStays
<1> QED  BY <1>3, <1>4, <1>5, <1>6 DEF BlocksInv

\* Only GenerateKeypair makes a run active, and it notes what it overlaps.
LEMMA ActiveMoves ==
    ASSUME TypeOK, ToolInv, [Next]_vars
    PROVE  \/ Active' \subseteq Active /\ overlapped' = overlapped
           \/ \E r \in Runs : GenerateKeypair(r) /\ Active' \subseteq Active \union {r}
<1>1. ASSUME NEW r \in Runs, ToolStep(r)
      PROVE  \/ Active' \subseteq Active /\ overlapped' = overlapped
             \/ GenerateKeypair(r) /\ Active' \subseteq Active \union {r}
  <2>1. \A q \in Runs \ {r} : q \in Active' => q \in Active
    BY <1>1, ToolMoves DEF Active
  <2>2. CASE GenerateKeypair(r)
    BY <2>1, <2>2 DEF Active
  <2>3. CASE ~GenerateKeypair(r)
    <3>1. r \in Active /\ overlapped' = overlapped
      BY <1>1, <2>3 DEF ToolStep, Open, Flush, Closed, Stops, history
    <3> QED  BY <2>1, <3>1 DEF Active
  <2> QED  BY <2>2, <2>3
<1>2. CASE \E s \in Servers : ServerStep(s)
  BY <1>2 DEF ServerStep, LoadStarts, ReadBlock, LoadReturns, LoadRefuses, LoadFails, tool, history, Active
<1>3. CASE UNCHANGED vars
  BY <1>3 DEF vars, tool, history, Active
<1> QED  BY <1>1, <1>2, <1>3 DEF Next, AllEnded

\* Only LoadStarts makes a server read, and raced only grows.
LEMMA ReadingMoves ==
    ASSUME TypeOK, [Next]_vars
    PROVE  /\ raced \subseteq raced'
           /\ \/ Reading' \subseteq Reading
              \/ \E s \in Servers : LoadStarts(s) /\ Reading' \subseteq Reading \union {s}
<1>0. load \in [Servers -> {"idle", "loaded", "refused", "failed"} \union KeyFile]
  BY DEF TypeOK, LoadType
<1>1. ASSUME NEW r \in Runs, ToolStep(r) PROVE raced \subseteq raced' /\ Reading' \subseteq Reading
  BY <1>1 DEF ToolStep, GenerateKeypair, Open, Flush, Closed, Stops, server, history, Reading
<1>2. ASSUME NEW s \in Servers, ServerStep(s)
      PROVE  /\ raced \subseteq raced'
             /\ \/ Reading' \subseteq Reading
                \/ LoadStarts(s) /\ Reading' \subseteq Reading \union {s}
  <2>1. raced \subseteq raced'
    BY <1>2 DEF ServerStep, LoadStarts, ReadBlock, LoadReturns, LoadRefuses, LoadFails, history
  <2>2. CASE LoadStarts(s)
    BY <1>0, <2>1, <2>2 DEF LoadStarts, Reading
  <2>3. CASE ~LoadStarts(s)
    <3>1. load[s] \in KeyFile
      BY <1>2, <2>3 DEF ServerStep, ReadBlock, LoadReturns, LoadRefuses, LoadFails
    <3>2. \A t \in Servers \ {s} : load'[t] = load[t]
      BY <1>0, <1>2, <2>3 DEF ServerStep, ReadBlock, LoadReturns, LoadRefuses, LoadFails
    <3> QED  BY <2>1, <3>1, <3>2 DEF Reading
  <2> QED  BY <2>2, <2>3
<1>3. CASE UNCHANGED vars
  BY <1>3 DEF vars, server, history, Reading
<1> QED  BY <1>1, <1>2, <1>3 DEF Next, AllEnded

LEMMA AloneInvStep ==
    ASSUME TypeOK, ToolInv, AloneInv, [Next]_vars
    PROVE  AloneInv'
<1>1. \A s \in Reading' : s \in raced' \/ Active' = {}
  <2>1. ASSUME NEW r \in Runs, GenerateKeypair(r)
        PROVE  \A s \in Reading' : s \in raced'
    BY <2>1 DEF GenerateKeypair, server, Reading
  <2>2. ASSUME NEW s \in Servers, LoadStarts(s), Reading' \subseteq Reading \union {s}
        PROVE  \A t \in Reading' : t \in raced' \/ Active' = {}
    <3>1. Active' = Active
      BY <2>2 DEF LoadStarts, tool, Active
    <3>2. \A t \in Reading : t \in raced' \/ Active' = {}
      BY <3>1, ReadingMoves DEF AloneInv
    <3>3. s \in raced' \/ Active' = {}
      BY <2>2, <3>1 DEF LoadStarts
    <3> QED  BY <2>2, <3>2, <3>3
  <2>3. CASE Reading' \subseteq Reading /\ Active' \subseteq Active
    BY <2>3, ReadingMoves DEF AloneInv
  <2>4. ASSUME NEW s \in Servers, LoadStarts(s) PROVE ~\E r \in Runs : GenerateKeypair(r)
    BY <2>4 DEF LoadStarts, GenerateKeypair, tool, server, TypeOK, LoadType, KeyFile
  <2> QED  BY <2>1, <2>2, <2>3, ReadingMoves, ActiveMoves
<1>2. overlapped' \/ \A q, r \in Active' : q = r
  <2>1. ASSUME NEW r \in Runs, GenerateKeypair(r), Active' \subseteq Active \union {r}
        PROVE  overlapped' \/ \A p, q \in Active' : p = q
    <3>1. overlapped' = (overlapped \/ Active # {})
      BY <2>1 DEF GenerateKeypair
    <3>2. CASE Active # {}
      BY <3>1, <3>2 DEF TypeOK, HistoryType
    <3>3. CASE Active = {}
      BY <2>1, <3>3
    <3> QED  BY <3>2, <3>3
  <2>2. CASE Active' \subseteq Active /\ overlapped' = overlapped
    BY <2>2 DEF AloneInv
  <2> QED  BY <2>1, <2>2, ActiveMoves
<1> QED  BY <1>1, <1>2 DEF AloneInv

\* The server that is refused now: some block is missing, and nobody will
\* write it.
LEMMA RefusedStep ==
    ASSUME TypeOK, CompleteInv, [Next]_vars
    PROVE  RefusedOnlyAfterDamage'
<1> USE DEF CompleteInv
<1> SUFFICES ASSUME NEW s \in Servers, load'[s] = "refused", s \notin raced'
             PROVE  \E r \in Runs : Damaged(r)'
  BY DEF RefusedOnlyAfterDamage
<1>1. s \notin raced
  BY ReadingMoves
<1>2. CASE load[s] = "refused"
  BY <1>1, <1>2, DamageStays DEF RefusedOnlyAfterDamage
<1>3. CASE load[s] # "refused"
  <2>1. PICK f \in KeyFile : LoadRefuses(s, f)
    <3>1. load \in [Servers -> {"idle", "loaded", "refused", "failed"} \union KeyFile]
      BY DEF TypeOK, LoadType
    <3>2. CASE \E r \in Runs : ToolStep(r)
      <4>1. load' = load
        BY <3>2 DEF ToolStep, GenerateKeypair, Open, Flush, Closed, Stops, server
      <4> QED  BY <1>3, <4>1
    <3>3. ASSUME NEW t \in Servers, ServerStep(t), ~\E f \in KeyFile : LoadRefuses(t, f)
          PROVE  load'[s] = load[s] \/ load'[s] \in {"secret", "public", "loaded", "failed"}
      BY <3>1, <3>3, Places DEF ServerStep, LoadStarts, ReadBlock, LoadReturns, LoadFails, KeyFile
    <3>4. ASSUME NEW t \in Servers, NEW f \in KeyFile, LoadRefuses(t, f), t # s
          PROVE  load'[s] = load[s]
      BY <3>1, <3>4 DEF LoadRefuses
    <3>5. CASE UNCHANGED vars
      BY <1>3, <3>5 DEF vars, server
    <3> QED  BY <1>3, <3>2, <3>3, <3>4, <3>5 DEF Next, AllEnded
  <2>2. Len(files[f]) < Size[f] /\ Size[f] \in 1..Size[f]
    <3>1. Len(files[f]) \in Nat /\ Len(buffer[s][f]) \in Nat /\ Size[f] \in Nat /\ Size[f] > 0
      BY Sizes DEF TypeOK, FilesType, BufferType
    <3> QED  BY <2>1, <3>1 DEF LoadRefuses, Available
  <2>3. ~Present(f, Size[f])
    <3>1. Len(files[f]) \in Nat /\ Size[f] \in Nat
      BY Sizes DEF TypeOK, FilesType
    <3> QED  BY <2>2, <3>1 DEF Present
  <2>4. s \in Reading /\ Active = {}
    BY <1>1, <2>1 DEF LoadRefuses, Reading, AloneInv
  <2>5. \E r \in Runs : Damaged(r)
    BY <2>2, <2>3, <2>4 DEF BlocksInv, Writing
  <2> QED  BY <2>5, DamageStays
<1> QED  BY <1>2, <1>3

LEMMA CompleteInit == Init => CompleteInv
<1> SUFFICES ASSUME Init PROVE CompleteInv
  OBVIOUS
<1>1. ToolInv
  BY DEF Init, ToolInv, KeyFile
<1>2. AloneInv /\ RefusedOnlyAfterDamage
  BY DEF Init, AloneInv, RefusedOnlyAfterDamage, Active, Reading, KeyFile
<1>3. ASSUME NEW f \in KeyFile, NEW i \in 1..Size[f]
      PROVE  Present(f, i)
  <2>1. files[f] = [k \in 1..Size[f] |-> "sample"] /\ Size[f] \in Nat
    BY Sizes DEF Init, Whole
  <2>2. Len(files[f]) = Size[f] /\ files[f][i] = "sample"
    BY <2>1
  <2> QED  BY <2>1, <2>2 DEF Present, Hole
<1> QED  BY <1>1, <1>2, <1>3 DEF CompleteInv, BlocksInv

\* RefusedOnlyAfterDamage: a server that reads while no tool runs is refused
\* its keys only if a run emptied a file and did not fill it.
THEOREM RefusedOnlyAfterDamageHolds == Spec => []RefusedOnlyAfterDamage
<1>1. TypeOK /\ CompleteInv /\ [Next]_vars => CompleteInv'
  BY ToolInvStep, AloneInvStep, BlocksInvStep, RefusedStep DEF CompleteInv
<1>2. TypeOK /\ CompleteInv /\ [Next]_vars => (TypeOK /\ CompleteInv)'
  BY <1>1, KeyFilesTypeStep
<1>3. Init => TypeOK /\ CompleteInv
  BY KeyFilesInit, CompleteInit
<1>4. CompleteInv => RefusedOnlyAfterDamage
  BY DEF CompleteInv
<1> QED  BY <1>2, <1>3, <1>4, PTL DEF Spec

-----------------------------------------------------------------------------
(* LoadedKeysMatch *)

LEMMA WholeFile ==
    ASSUME NEW f \in KeyFile, NEW p
    PROVE  /\ Size[f] \in Nat /\ 1 \in 1..Size[f]
           /\ Len(Whole(f, p)) = Size[f]
           /\ \A i \in 1..Size[f] : Whole(f, p)[i] = p
<1>1. Size[f] \in Nat /\ Size[f] > 0
  BY Sizes
<1>2. Whole(f, p) = [i \in 1..Size[f] |-> p]
  BY DEF Whole
<1> QED  BY <1>1, <1>2

\* A file all of whose blocks are of one owner, and complete, is the key.
LEMMA UniformWhole ==
    ASSUME NEW f \in KeyFile, NEW q \in Seq(Block), Len(q) = Size[f],
           NEW p \in Owners, \A i \in 1..Len(q) : q[i] = p
    PROVE  q = Whole(f, p)
<1>1. Whole(f, p) = [i \in 1..Size[f] |-> p] /\ Size[f] \in Nat
  BY Sizes DEF Whole
<1>2. q = [i \in 1..Len(q) |-> q[i]]
  OBVIOUS
<1> QED  BY <1>1, <1>2

\* Runs one after the other, opening a file.
LEMMA PairOpen ==
    ASSUME TypeOK, ToolInv, AloneInv, PairInv, ~overlapped,
           NEW r \in Runs, NEW f \in KeyFile, Open(r, f)
    PROVE  PairInv'
<1>1. /\ files \in [KeyFile -> Seq(Block)]
      /\ at \in [Runs -> {"idle", "open public", "public", "open secret", "secret", "saved"}]
  BY DEF TypeOK, FilesType, ToolType
<1>2. /\ files'[f] = <<>> /\ (\A g \in KeyFile : g # f => files'[g] = files[g])
      /\ at[r] = Opening[f] /\ at'[r] = f /\ (\A q \in Runs : q # r => at'[q] = at[q])
      /\ written' = written /\ ended' = ended /\ r \in Active
  BY <1>1 DEF Open, Opened, tool
<1>3. \A q \in Active' : q = r
  BY <1>2 DEF AloneInv, Active
<1>4. written[r][f] = 0
  <2>1. CASE f = "public"
    BY <1>2, <2>1, Places DEF ToolInv
  <2>2. CASE f = "secret"
    BY <1>2, <2>2, Places DEF ToolInv
  <2> QED  BY <2>1, <2>2 DEF KeyFile
<1>5. \A g \in KeyFile : Uniform(g)'
  <2>1. ASSUME NEW g \in KeyFile, g # f PROVE Uniform(g)'
    <3>1. Uniform(g) /\ files'[g] = files[g]
      BY <1>2, <2>1 DEF PairInv
    <3> QED  BY <3>1 DEF Uniform
  <2>2. Uniform(f)'
    <3>1. Len(files'[f]) = 0 /\ "sample" \in Owners
      BY <1>2 DEF Owners
    <3> QED  BY <3>1 DEF Uniform
  <2> QED  BY <2>1, <2>2
<1>6. InProgress(r, f)'
  BY <1>2, <1>4 DEF InProgress
<1>7. f = "secret" => InProgress(r, "public")'
  <2> SUFFICES ASSUME f = "secret" PROVE InProgress(r, "public")'
    OBVIOUS
  <2>1. at[r] = "open secret" /\ files'["public"] = files["public"]
    BY <1>2, Places DEF KeyFile
  <2>2. InProgress(r, "public")
    BY <1>2, <2>1 DEF PairInv
  <2> QED  BY <1>2, <2>1, <2>2 DEF InProgress
<1>8. \A p \in Owners : files'[f] # Whole(f, p)
  BY <1>2, WholeFile
<1>9. \A q \in Active' :
        /\ at'[q] \in {"public", "open secret", "secret"} => InProgress(q, "public")'
        /\ at'[q] = "secret" => InProgress(q, "secret")'
  BY <1>2, <1>3, <1>6, <1>7 DEF KeyFile
<1> QED  BY <1>5, <1>8, <1>9 DEF PairInv, KeyFile

LEMMA PairFlush ==
    ASSUME TypeOK, ToolInv, AloneInv, PairInv, ~overlapped,
           NEW r \in Runs, NEW f \in KeyFile, Flush(r, f)
    PROVE  PairInv'
<1>1. /\ files \in [KeyFile -> Seq(Block)]
      /\ written[r][f] \in Nat
  BY DEF TypeOK, FilesType
<1>2. /\ (\A g \in KeyFile : g # f => files'[g] = files[g])
      /\ at[r] = f /\ at' = at /\ ended' = ended /\ r \in Active
  BY <1>1 DEF Flush
<1>3. \A q \in Active' : q = r
  BY <1>2 DEF AloneInv, Active
<1>4. InProgress(r, f)
  BY <1>2 DEF PairInv, KeyFile
<1>5. /\ written'[r][f] = written[r][f] + 1
      /\ \A g \in KeyFile : g # f => written'[r][g] = written[r][g]
  BY FlushedCount
<1>6. InProgress(r, f)'
  <2> DEFINE n == written[r][f]
             old == files[f]
             new == files'[f]
  <2>1. n \in Nat /\ Len(old) = n /\ \A i \in 1..n : old[i] = r
    BY <1>1, <1>4 DEF InProgress
  <2>2. /\ Len(new) = IF n < Len(old) THEN Len(old) ELSE n + 1
        /\ \A i \in 1..Len(new) : new[i] = IF i = n + 1 THEN r ELSE IF i <= Len(old) THEN old[i] ELSE Hole
    BY FlushedFile
  <2> HIDE DEF n, old, new
  <2>3. Len(new) = n + 1
    BY <2>1, <2>2
  <2>4. ASSUME NEW i \in 1..Len(new) PROVE new[i] = r
    <3>1. i = n + 1 \/ i \in 1..n
      BY <2>1, <2>3
    <3> QED  BY <2>1, <2>2, <3>1
  <2> QED  BY <1>5, <2>3, <2>4 DEF InProgress, n, new
<1>7. f = "secret" => InProgress(r, "public")'
  <2> SUFFICES ASSUME f = "secret" PROVE InProgress(r, "public")'
    OBVIOUS
  <2>1. InProgress(r, "public")
    BY <1>2 DEF PairInv
  <2>2. files'["public"] = files["public"] /\ written'[r]["public"] = written[r]["public"]
    BY <1>2, <1>5 DEF KeyFile
  <2> QED  BY <2>1, <2>2 DEF InProgress
<1>8. \A g \in KeyFile : Uniform(g)'
  <2>1. ASSUME NEW g \in KeyFile, g # f PROVE Uniform(g)'
    <3>1. Uniform(g) /\ files'[g] = files[g]
      BY <1>2, <2>1 DEF PairInv
    <3> QED  BY <3>1 DEF Uniform
  <2>2. Uniform(f)'
    <3>1. r \in Owners
      BY DEF Owners
    <3> QED  BY <1>6, <3>1 DEF Uniform, InProgress
  <2> QED  BY <2>1, <2>2
<1>9. \A q \in Active' :
        /\ at'[q] \in {"public", "open secret", "secret"} => InProgress(q, "public")'
        /\ at'[q] = "secret" => InProgress(q, "secret")'
  BY <1>2, <1>3, <1>6, <1>7 DEF KeyFile
<1>10. ASSUME NEW p \in Owners, NEW q \in Owners,
              files'["public"] = Whole("public", q), files'["secret"] = Whole("secret", p)
       PROVE  p = q \/ (q \in Runs /\ Halfway(q)')
  <2>1. ASSUME NEW g \in KeyFile, NEW o \in Owners, InProgress(r, g)', files'[g] = Whole(g, o)
        PROVE  o = r /\ written'[r][g] = Size[g]
    BY <2>1, WholeFile DEF InProgress
  <2>2. CASE f = "public"
    <3>1. q = r /\ written'[r]["public"] = Size["public"]
      BY <1>6, <1>10, <2>1, <2>2
    <3> QED  BY <1>2, <2>2, <3>1 DEF Halfway
  <2>3. CASE f = "secret"
    BY <1>6, <1>7, <1>10, <2>1, <2>3 DEF KeyFile
  <2> QED  BY <2>2, <2>3 DEF KeyFile
<1> QED  BY <1>8, <1>9, <1>10 DEF PairInv

\* A step that leaves the files alone and moves no run to where PairInv claims
\* more.
LEMMA PairKept ==
    ASSUME PairInv, ~overlapped, files' = files, written' = written,
           \A q \in Runs : Halfway(q) => Halfway(q)',
           \A q \in Active' : q \in Active \/ at'[q] = "open public",
           \A q \in Active' : at'[q] \in {"public", "open secret"} => at[q] \in {"public", "open secret"},
           \A q \in Active' : at'[q] = "secret" => at[q] = "secret"
    PROVE  PairInv'
<1>1. ASSUME NEW g \in KeyFile PROVE Uniform(g)'
  BY DEF PairInv, Uniform
<1>2. ASSUME NEW q \in Active', at'[q] \in {"public", "open secret", "secret"}
      PROVE  InProgress(q, "public")'
  <2>1. q \in Active /\ at[q] \in {"public", "open secret", "secret"}
    BY <1>2
  <2>2. InProgress(q, "public")
    BY <2>1 DEF PairInv
  <2> QED  BY <2>2 DEF InProgress
<1>3. ASSUME NEW q \in Active', at'[q] = "secret"
      PROVE  InProgress(q, "secret")'
  <2>1. q \in Active /\ at[q] = "secret"
    BY <1>3
  <2>2. InProgress(q, "secret")
    BY <2>1 DEF PairInv
  <2> QED  BY <2>2 DEF InProgress
<1>4. ASSUME NEW p \in Owners, NEW q \in Owners,
             files'["public"] = Whole("public", q), files'["secret"] = Whole("secret", p)
      PROVE  p = q \/ (q \in Runs /\ Halfway(q)')
  BY <1>4 DEF PairInv
<1> QED  BY <1>1, <1>2, <1>3, <1>4 DEF PairInv

LEMMA PairInvStep ==
    ASSUME TypeOK, ToolInv, AloneInv, PairInv, [Next]_vars
    PROVE  PairInv'
<1> SUFFICES ASSUME ~overlapped' PROVE PairInv'
  BY DEF PairInv
<1>0. ~overlapped
  BY ActiveMoves DEF GenerateKeypair, TypeOK, HistoryType
<1>1. CASE UNCHANGED <<at, ended, written, files>>
  <2>1. (\A q \in Runs : Halfway(q) => Halfway(q)') /\ Active' = Active
    BY <1>1 DEF Halfway, Active
  <2> QED  BY <1>0, <1>1, <2>1, PairKept DEF Active
<1>2. ASSUME NEW r \in Runs, NEW f \in KeyFile, Open(r, f) \/ Flush(r, f) PROVE PairInv'
  BY <1>0, <1>2, PairOpen, PairFlush
<1>4. ASSUME NEW r \in Runs, GenerateKeypair(r) \/ Stops(r) \/ \E f \in KeyFile : Closed(r, f)
      PROVE  PairInv'
  <2>1. ToolStep(r) /\ files' = files /\ written' = written
    BY <1>4 DEF ToolStep, GenerateKeypair, Stops, Closed
  <2>2. \A q \in Runs \ {r} : at'[q] = at[q] /\ ended'[q] = ended[q]
    BY <2>1, ToolMoves
  <2>3. \/ at[r] = "idle" /\ at'[r] = "open public"
        \/ at'[r] = at[r] /\ ended'[r]
        \/ at[r] = "public" /\ at'[r] = "open secret" /\ r \in Active
        \/ at[r] = "secret" /\ at'[r] = "saved"
    <3>1. /\ at \in [Runs -> {"idle", "open public", "public", "open secret", "secret", "saved"}]
          /\ ended \in [Runs -> BOOLEAN]
      BY DEF TypeOK, ToolType
    <3>2. CASE GenerateKeypair(r)
      BY <3>1, <3>2 DEF GenerateKeypair
    <3>3. CASE Stops(r)
      BY <3>1, <3>3 DEF Stops
    <3>4. ASSUME NEW f \in KeyFile, Closed(r, f)
          PROVE  at[r] = f /\ at'[r] = AfterClose[f] /\ r \in Active
      BY <3>1, <3>4 DEF Closed
    <3> QED  BY <1>4, <3>2, <3>3, <3>4, Places DEF KeyFile
  <2>4. \A q \in Runs : Halfway(q) => Halfway(q)'
    BY <2>1, <2>2, <2>3 DEF Halfway
  <2>5. /\ \A q \in Active' : q \in Active \/ at'[q] = "open public"
        /\ \A q \in Active' : at'[q] \in {"public", "open secret"} => at[q] \in {"public", "open secret"}
        /\ \A q \in Active' : at'[q] = "secret" => at[q] = "secret"
    BY <2>1, <2>2, <2>3, ToolMoves DEF Active, ToolInv
  <2> QED  BY <1>0, <2>1, <2>4, <2>5, PairKept
<1> QED  BY <1>1, <1>2, <1>4, ToolOrServer DEF ToolStep

\* While a server reads that did not race, the files do not change.
LEMMA FilesStay ==
    ASSUME TypeOK, ToolInv, AloneInv, [Next]_vars,
           NEW s \in Servers, s \in Reading, s \notin raced'
    PROVE  files' = files
<1>1. Active = {}
  BY ReadingMoves DEF AloneInv
<1>2. ASSUME NEW r \in Runs, ToolStep(r) PROVE files' = files
  BY <1>1, <1>2 DEF ToolStep, GenerateKeypair, Open, Flush, Closed, Stops
<1> QED  BY <1>2, ToolOrServer

\* What one server's reading looks like.
ReadOK(s) ==
    /\ \A f \in KeyFile : \A i \in 1..Len(buffer[s][f]) :
          i <= Len(files[f]) /\ buffer[s][f][i] = files[f][i]
    /\ load[s] = "public" => Len(buffer[s]["secret"]) = Size["secret"]

LEMMA ReadInvStep ==
    ASSUME TypeOK, ToolInv, AloneInv, ReadInv, [Next]_vars
    PROVE  ReadInv'
<1>0. /\ load \in [Servers -> {"idle", "loaded", "refused", "failed"} \union KeyFile]
      /\ "public" \in KeyFile /\ "secret" \in KeyFile /\ "idle" \notin KeyFile
  BY DEF TypeOK, LoadType, KeyFile
<1> SUFFICES ASSUME NEW s \in Servers
             PROVE  /\ load'[s] = "idle" => \A f \in KeyFile : Len(buffer'[s][f]) = 0
                    /\ s \in Reading' /\ s \notin raced' => ReadOK(s)'
  BY DEF ReadInv, ReadOK
<1>1. /\ load[s] = "idle" => \A f \in KeyFile : Len(buffer[s][f]) = 0
      /\ s \in Reading /\ s \notin raced' => ReadOK(s) /\ files' = files
  BY ReadingMoves, FilesStay DEF ReadInv, ReadOK
<1>2. CASE load'[s] = load[s] /\ buffer'[s] = buffer[s]
  <2>1. s \in Reading' => s \in Reading
    BY <1>2 DEF Reading
  <2> QED  BY <1>1, <1>2, <2>1 DEF ReadOK
<1>3. CASE LoadStarts(s)
  <2>1. load'[s] = "secret" /\ buffer' = buffer /\ load[s] = "idle"
    BY <1>0, <1>3 DEF LoadStarts
  <2> QED  BY <1>0, <1>1, <2>1 DEF ReadOK
<1>4. ASSUME NEW f \in KeyFile, ReadBlock(s, f)
      PROVE  s \in Reading' /\ s \notin raced' => load'[s] # "idle" /\ ReadOK(s)'
  <2> SUFFICES ASSUME s \notin raced' PROVE load'[s] # "idle" /\ ReadOK(s)'
    OBVIOUS
  <2>1. load[s] = f /\ load' = load /\ s \in Reading
    BY <1>4 DEF ReadBlock, Reading
  <2>2. ReadOK(s) /\ files' = files
    BY <1>1, <2>1
  <2>3. /\ \A g \in KeyFile : g # f => buffer'[s][g] = buffer[s][g]
        /\ Len(buffer[s][f]) < Len(files[f])
        /\ Len(buffer'[s][f]) = Len(buffer[s][f]) + 1
        /\ \A i \in 1..Len(buffer[s][f]) : buffer'[s][f][i] = buffer[s][f][i]
        /\ buffer'[s][f][Len(buffer'[s][f])] = files[f][Len(buffer'[s][f])]
    BY <1>4, ReadBuffer
  <2>4. Len(buffer[s][f]) \in Nat /\ Len(files[f]) \in Nat
    BY DEF TypeOK, BufferType, FilesType
  <2>5. ASSUME NEW i \in 1..Len(buffer'[s][f])
        PROVE  i <= Len(files[f]) /\ buffer'[s][f][i] = files[f][i]
    <3>1. CASE i = Len(buffer'[s][f])
      BY <2>3, <2>4, <3>1
    <3>2. CASE i # Len(buffer'[s][f])
      <4>1. i \in 1..Len(buffer[s][f])
        BY <2>3, <2>4, <3>2
      <4> QED  BY <2>2, <2>3, <4>1 DEF ReadOK
    <3> QED  BY <3>1, <3>2
  <2>6. \A g \in KeyFile : \A i \in 1..Len(buffer'[s][g]) :
          i <= Len(files[g]) /\ buffer'[s][g][i] = files[g][i]
    <3>1. ASSUME NEW g \in KeyFile, g # f, NEW i \in 1..Len(buffer'[s][g])
          PROVE  i <= Len(files[g]) /\ buffer'[s][g][i] = files[g][i]
      BY <2>2, <2>3, <3>1 DEF ReadOK
    <3> QED  BY <2>5, <3>1
  <2>7. load'[s] = "public" => Len(buffer'[s]["secret"]) = Size["secret"]
    BY <1>0, <2>1, <2>2, <2>3 DEF ReadOK
  <2> QED  BY <1>0, <2>1, <2>2, <2>6, <2>7 DEF ReadOK
<1>5. ASSUME NEW f \in KeyFile, LoadReturns(s, f)
      PROVE  load'[s] # "idle" /\ (s \in Reading' /\ s \notin raced' => ReadOK(s)')
  <2>1. /\ load[s] = f /\ load'[s] = AfterLoad[f] /\ buffer' = buffer
        /\ s \in Reading /\ Len(buffer[s][f]) = Size[f]
    BY <1>0, <1>5 DEF LoadReturns, Reading
  <2>2. load'[s] = "public" => f = "secret"
    BY <2>1, Places DEF KeyFile
  <2>3. load'[s] # "idle"
    BY <2>1, Places DEF KeyFile
  <2>4. ASSUME s \notin raced' PROVE ReadOK(s)'
    <3>1. ReadOK(s) /\ files' = files
      BY <1>1, <2>1, <2>4
    <3> QED  BY <2>1, <2>2, <3>1 DEF ReadOK
  <2> QED  BY <2>3, <2>4
<1>6. ASSUME LoadFails(s) \/ \E f \in KeyFile : LoadRefuses(s, f)
      PROVE  load'[s] # "idle" /\ s \notin Reading'
  BY <1>0, <1>6 DEF LoadFails, LoadRefuses, Reading, KeyFile
<1>7. ASSUME NEW t \in Servers, ServerStep(t), t # s PROVE load'[s] = load[s] /\ buffer'[s] = buffer[s]
  <2>1. ASSUME NEW f \in KeyFile, ReadBlock(t, f) PROVE load'[s] = load[s] /\ buffer'[s] = buffer[s]
    BY <1>7, <2>1 DEF ReadBlock, TypeOK, BufferType
  <2>2. CASE LoadStarts(t) \/ LoadFails(t) \/ \E f \in KeyFile : LoadReturns(t, f) \/ LoadRefuses(t, f)
    BY <1>0, <1>7, <2>2 DEF LoadStarts, LoadFails, LoadReturns, LoadRefuses
  <2> QED  BY <1>7, <2>1, <2>2 DEF ServerStep
<1>8. ASSUME NEW r \in Runs, ToolStep(r) PROVE load'[s] = load[s] /\ buffer'[s] = buffer[s]
  BY <1>8 DEF ToolStep, GenerateKeypair, Open, Flush, Closed, Stops, server
<1>9. ASSUME NEW f \in KeyFile, ReadBlock(s, f) PROVE load'[s] # "idle"
  BY <1>0, <1>9 DEF ReadBlock
<1>10. CASE UNCHANGED vars
  BY <1>2, <1>10 DEF vars, server
<1> QED  BY <1>2, <1>3, <1>4, <1>5, <1>6, <1>7, <1>8, <1>9, <1>10 DEF Next, ServerStep, AllEnded

\* A run that has ended stays where it ended.
LEMMA EndedStays ==
    ASSUME TypeOK, ToolInv, [Next]_vars, NEW q \in Runs, ended[q], Halfway(q)
    PROVE  ended'[q] /\ Halfway(q)'
<1>1. CASE UNCHANGED <<at, ended, written, files>>
  BY <1>1 DEF Halfway
<1>2. ASSUME NEW r \in Runs, ToolStep(r) PROVE ended'[q] /\ Halfway(q)'
  <2>1. r # q
    BY <1>2 DEF ToolStep, GenerateKeypair, Open, Flush, Closed, Stops, Active, Halfway
  <2> QED  BY <1>2, <2>1, ToolMoves DEF Halfway
<1> QED  BY <1>1, <1>2, ToolOrServer

\* What load_file has just accepted is what the two files hold.
LEMMA LoadedNow ==
    ASSUME TypeOK, AloneInv, PairInv, ReadInv, ~overlapped,
           NEW s \in Servers, LoadReturns(s, "public"), s \notin raced
    PROVE  \E p, q \in Owners :
              /\ buffer[s] = [public |-> Whole("public", q), secret |-> Whole("secret", p)]
              /\ p = q \/ (q \in Runs /\ ended[q] /\ Halfway(q))
<1>1. /\ "public" \in KeyFile /\ "secret" \in KeyFile
      /\ load[s] = "public" /\ Len(buffer[s]["public"]) = Size["public"]
  BY DEF LoadReturns, KeyFile
<1>2. s \in Reading /\ Active = {}
  BY <1>1 DEF Reading, AloneInv
<1>3. ReadOK(s)
  BY <1>2 DEF ReadInv, ReadOK
<1>4. ASSUME NEW f \in KeyFile
      PROVE  \E o \in Owners : buffer[s][f] = Whole(f, o) /\ files[f] = Whole(f, o)
  <2>1. /\ files[f] \in Seq(Block) /\ Len(files[f]) <= Size[f] /\ Len(files[f]) \in Nat
        /\ buffer[s][f] \in Seq(Block) /\ Size[f] \in Nat /\ Size[f] > 0
    BY Sizes DEF TypeOK, FilesType, BufferType
  <2>2. Len(buffer[s][f]) = Size[f]
    BY <1>1, <1>3 DEF ReadOK, KeyFile
  <2>3. \A i \in 1..Size[f] : i <= Len(files[f]) /\ buffer[s][f][i] = files[f][i]
    BY <1>3, <2>2 DEF ReadOK
  <2>4. Len(files[f]) = Size[f]
    BY <2>1, <2>3
  <2>5. PICK o \in Owners : \A i \in 1..Len(files[f]) : files[f][i] = o
    BY DEF PairInv, Uniform
  <2>6. files[f] = Whole(f, o)
    BY <2>1, <2>4, <2>5, UniformWhole
  <2>7. buffer[s][f] = Whole(f, o)
    <3>1. \A i \in 1..Len(buffer[s][f]) : buffer[s][f][i] = o
      BY <2>2, <2>3, <2>4, <2>5
    <3> QED  BY <2>1, <2>2, <3>1, UniformWhole
  <2> QED  BY <2>6, <2>7
<1>5. PICK q \in Owners : buffer[s]["public"] = Whole("public", q) /\ files["public"] = Whole("public", q)
  BY <1>1, <1>4
<1>6. PICK p \in Owners : buffer[s]["secret"] = Whole("secret", p) /\ files["secret"] = Whole("secret", p)
  BY <1>1, <1>4
<1>7. buffer[s] = [public |-> Whole("public", q), secret |-> Whole("secret", p)]
  <2>1. buffer[s] = [f \in KeyFile |-> buffer[s][f]]
    BY DEF TypeOK, BufferType
  <2> QED  BY <1>5, <1>6, <2>1 DEF KeyFile
<1>8. p = q \/ (q \in Runs /\ Halfway(q))
  BY <1>5, <1>6 DEF PairInv
<1>9. ASSUME q \in Runs, Halfway(q) PROVE ended[q]
  BY <1>2, <1>9 DEF Active, Halfway
<1> QED  BY <1>7, <1>8, <1>9

LEMMA LoadedStep ==
    ASSUME TypeOK, ToolInv, AloneInv, PairInv, ReadInv, LoadedKeysMatch, [Next]_vars
    PROVE  LoadedKeysMatch'
<1> SUFFICES ASSUME NEW s \in Servers, load'[s] = "loaded", s \notin raced', ~overlapped'
             PROVE  \E p, q \in Owners :
                       /\ buffer'[s] = [public |-> Whole("public", q), secret |-> Whole("secret", p)]
                       /\ p = q \/ (q \in Runs /\ ended'[q] /\ Halfway(q)')
  BY DEF LoadedKeysMatch
<1>0. load \in [Servers -> {"idle", "loaded", "refused", "failed"} \union KeyFile]
  BY DEF TypeOK, LoadType
<1>1. s \notin raced /\ ~overlapped
  BY ReadingMoves, ActiveMoves DEF GenerateKeypair, TypeOK, HistoryType
<1>2. \/ load[s] = "loaded" /\ buffer'[s] = buffer[s]
      \/ LoadReturns(s, "public") /\ buffer' = buffer
  <2>1. ASSUME NEW t \in Servers, NEW f \in KeyFile, ReadBlock(t, f)
        PROVE  load[s] = "loaded" /\ buffer'[s] = buffer[s]
    <3>1. load[s] = "loaded" /\ t # s
      BY <2>1 DEF ReadBlock, KeyFile
    <3> QED  BY <2>1, <3>1 DEF ReadBlock, TypeOK, BufferType
  <2>2. ASSUME NEW t \in Servers, NEW f \in KeyFile, LoadReturns(t, f)
        PROVE  \/ load[s] = "loaded" /\ buffer'[s] = buffer[s]
               \/ LoadReturns(s, "public") /\ buffer' = buffer
    <3>1. CASE t # s
      BY <1>0, <2>2, <3>1 DEF LoadReturns
    <3>2. CASE t = s
      <4>1. AfterLoad[f] = "loaded"
        BY <1>0, <2>2, <3>2 DEF LoadReturns
      <4>2. f = "public"
        BY <4>1, Places DEF KeyFile
      <4> QED  BY <2>2, <3>2, <4>2 DEF LoadReturns
    <3> QED  BY <3>1, <3>2
  <2>3. ASSUME NEW t \in Servers,
               LoadStarts(t) \/ LoadFails(t) \/ \E f \in KeyFile : LoadRefuses(t, f)
        PROVE  load[s] = "loaded" /\ buffer'[s] = buffer[s]
    BY <1>0, <2>3 DEF LoadStarts, LoadFails, LoadRefuses
  <2>4. ASSUME NEW r \in Runs, ToolStep(r) PROVE load[s] = "loaded" /\ buffer'[s] = buffer[s]
    BY <2>4 DEF ToolStep, GenerateKeypair, Open, Flush, Closed, Stops, server
  <2>5. CASE UNCHANGED vars
    BY <2>5 DEF vars, server
  <2> QED  BY <2>1, <2>2, <2>3, <2>4, <2>5 DEF Next, ServerStep, AllEnded
<1>3. PICK p \in Owners, q \in Owners :
        /\ buffer'[s] = [public |-> Whole("public", q), secret |-> Whole("secret", p)]
        /\ p = q \/ (q \in Runs /\ ended[q] /\ Halfway(q))
  BY <1>1, <1>2, LoadedNow DEF LoadedKeysMatch
<1>4. q \in Runs /\ ended[q] /\ Halfway(q) => ended'[q] /\ Halfway(q)'
  BY EndedStays
<1> QED  BY <1>3, <1>4

LEMMA PairsInit == Init => PairInv /\ ReadInv /\ LoadedKeysMatch
<1> SUFFICES ASSUME Init PROVE PairInv /\ ReadInv /\ LoadedKeysMatch
  OBVIOUS
<1>1. \A f \in KeyFile : files[f] = Whole(f, "sample")
  BY DEF Init
<1>2. \A f \in KeyFile : Uniform(f)
  BY <1>1, WholeFile DEF Uniform, Owners
<1>3. ASSUME NEW p \in Owners, NEW q \in Owners,
             files["public"] = Whole("public", q), files["secret"] = Whole("secret", p)
      PROVE  p = q
  <2>1. q = "sample" /\ p = "sample"
    BY <1>1, <1>3, WholeFile DEF KeyFile
  <2> QED  BY <2>1
<1>4. Active = {}
  BY DEF Init, Active
<1>5. PairInv
  BY <1>2, <1>3, <1>4 DEF PairInv
<1>6. ReadInv
  BY DEF Init, ReadInv, Reading, KeyFile
<1>7. LoadedKeysMatch
  BY DEF Init, LoadedKeysMatch
<1> QED  BY <1>5, <1>6, <1>7

\* The inductive invariant.
THEOREM KeyFilesInvariance == Spec => []KeyFilesInv
<1>1. Init => KeyFilesInv
  BY KeyFilesInit, CompleteInit, PairsInit DEF KeyFilesInv
<1>2. KeyFilesInv /\ [Next]_vars => KeyFilesInv'
  <2> SUFFICES ASSUME KeyFilesInv, [Next]_vars PROVE KeyFilesInv'
    OBVIOUS
  <2>1. TypeOK /\ CompleteInv /\ ToolInv /\ AloneInv /\ BlocksInv /\ PairInv /\ ReadInv /\ LoadedKeysMatch
    BY DEF KeyFilesInv, CompleteInv
  <2>2. TypeOK'
    BY <2>1, KeyFilesTypeStep
  <2>3. CompleteInv'
    BY <2>1, ToolInvStep, AloneInvStep, BlocksInvStep, RefusedStep DEF CompleteInv
  <2>4. PairInv' /\ ReadInv' /\ LoadedKeysMatch'
    BY <2>1, PairInvStep, ReadInvStep, LoadedStep
  <2> QED  BY <2>2, <2>3, <2>4 DEF KeyFilesInv
<1> QED  BY <1>1, <1>2, PTL DEF Spec

\* LoadedKeysMatch: two key files that load_file accepts are a pair, unless the
\* reading or two runs overlapped, or a run ended between its two files.
THEOREM LoadedKeysMatchHolds == Spec => []LoadedKeysMatch
<1>1. KeyFilesInv => LoadedKeysMatch
  BY DEF KeyFilesInv
<1> QED  BY KeyFilesInvariance, <1>1, PTL
=============================================================================
