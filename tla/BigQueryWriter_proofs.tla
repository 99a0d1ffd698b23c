----------------------- MODULE BigQueryWriter_proofs -----------------------
(***************************************************************************)
(* Proofs about the BigQuery writer inside a run of the runner, for any    *)
(* repositories and any entries.  They rest on the runner's invariant and  *)
(* on WritingInv, which says what the tables have at any moment: the rows  *)
(* of the tables whose turn is over, each once.                            *)
(***************************************************************************)
EXTENDS BigQueryWriter, Runner_proofs

\* The places of a repository before its import.
Early == {"unseen", "listed", "fetch", "fetched"}

\* What the appends have come to.
Progress(r) ==
    \A i \in DOMAIN Tables :
        tables[r][Tables[i]] =
            IF i < import[r].next /\ Tables[i] \in Wanted(import[r].rows) THEN 1 ELSE 0

WritingAt(r) ==
    /\ Progress(r)
    /\ import[r].sent => stage[r] = "import" /\ \E t \in Wanted(import[r].rows) : Turn(r, t)
    /\ stage[r] \in Early => import[r].next = 1
    /\ outcome[r] = "imported" => import[r].next \notin DOMAIN Tables
    /\ import[r].next > 1 => outcome[r] \in {"none", "imported", "failed"}
    /\ import[r].next > 1 \/ stage[r] = "import" => import[r].rows \in Entries

WritingInv == \A r \in Repos : WritingAt(r)

WriterInv == WriterTypeOK /\ IMore /\ WritingInv

USE DEF loopVars, poolVars, runVars

-----------------------------------------------------------------------------
(* The writer inside the runner                                            *)

\* Each step of the writer is one of the runner's, or changes nothing there.
LEMMA RunnerSteps == [WriterNext]_writerVars => [Next]_vars
<1> SUFFICES ASSUME [WriterNext]_writerVars PROVE [Next]_vars
  OBVIOUS
<1>1. CASE UNCHANGED writerVars
  BY <1>1 DEF writerVars
<1>2. CASE Main \/ Signal
  BY <1>2 DEF Next
<1>3. ASSUME NEW r \in Repos, OutsideImport(r) PROVE Next
  BY <1>3 DEF OutsideImport, Worker, Next
<1>4. ASSUME NEW r \in Repos, ImportRepo(r) \/ ServedLate(r) PROVE [Next]_vars
  <2>1. CASE Convert(r)
    BY <2>1 DEF Convert, Worker, Next
  <2>2. CASE PutFailed(r) \/ PutRefused(r) \/ ImportRepoOk(r)
    BY <2>2 DEF PutFailed, PutRefused, ImportRepoOk, Worker, Next
  <2>3. CASE NoRows(r) \/ insert(r) \/ PutOk(r) \/ ServedLate(r)
    BY <2>3 DEF NoRows, insert, PutOk, ServedLate
  <2> QED BY <1>4, <2>1, <2>2, <2>3 DEF ImportRepo
<1> QED BY <1>1, <1>2, <1>3, <1>4 DEF WriterNext

\* A run with the inside of its imports is a run of the runner: whatever is proved
\* of the runner, with an import as one step, holds with its appends (bqwriter.go
\* lines 60-80 in place of app.go line 133).
THEOREM ImportsAreRunner == WriterSpec => Spec
<1>1. WriterInit => Init
  BY DEF WriterInit
<1> QED BY <1>1, RunnerSteps, PTL DEF WriterSpec, Spec

\* So the runner's invariant holds here too.
LEMMA RunnerInvariance == WriterSpec => []IMore
BY ImportsAreRunner, MoreInvariance, PTL

\* What the steps outside an import may do to a repository.
LEMMA OutsideStages ==
    ASSUME IMore, NEW r \in Repos,
           Main \/ Signal \/ \E q \in Repos : OutsideImport(q)
    PROVE  \/ stage'[r] = stage[r] /\ outcome'[r] = outcome[r]
           \/ /\ stage[r] \in Early /\ stage'[r] # "import"
              /\ outcome'[r] \notin {"imported", "failed"}
           \/ /\ stage[r] \in {"release", "return"} /\ stage'[r] \in {"return", "done"}
              /\ outcome'[r] = outcome[r]
<1>0. TypeOK /\ CurrentIsListed /\ OutcomeInv
  BY DEF IMore, IInv
<1>1. CASE UNCHANGED <<stage, outcome>>
  BY <1>1
<1>2. ASSUME \/ Top \/ PageEmpty \/ PageCanceled \/ PageFailed \/ PageDone \/ StopInPage
             \/ SlotRefused \/ GroupWait \/ Exit \/ Signal
             \/ \E q \in Repos : StopAtDebugLimit(q) \/ TakeRepo(q)
      PROVE  UNCHANGED <<stage, outcome>>
  BY <1>2
  DEF Top, PageEmpty, PageCanceled, PageFailed, PageDone, StopInPage, SlotRefused, GroupWait,
      Exit, Signal, StopAtDebugLimit, TakeRepo
<1>3. CASE PageListed
  <2>1. /\ outcome' = outcome
        /\ stage'[r] # stage[r] => stage[r] = "unseen" /\ stage'[r] = "listed"
    BY <1>3 DEF PageListed, Unseen
  <2> QED BY <1>0, <2>1 DEF OutcomeInv, Early
<1>4. ASSUME NEW q \in Repos, SkipArchivedRepo(q)
      PROVE  \/ stage'[r] = stage[r] /\ outcome'[r] = outcome[r]
             \/ stage[r] \in Early /\ stage'[r] = "done" /\ outcome'[r] = "archived"
  BY <1>0, <1>4 DEF SkipArchivedRepo, Batch, Early, TypeOK
<1>5. CASE Dispatch
  <2>1. /\ outcome' = outcome
        /\ stage'[r] # stage[r] => stage[r] = "listed" /\ stage'[r] = "fetch"
    BY <1>0, <1>5 DEF Dispatch, CurrentIsListed, TypeOK
  <2> QED BY <1>0, <2>1 DEF OutcomeInv, Early
<1>6. ASSUME NEW q \in Repos, FetchOk(q)
      PROVE  /\ outcome' = outcome
             /\ stage'[r] # stage[r] => stage[r] = "fetch" /\ stage'[r] = "fetched"
  BY <1>0, <1>6 DEF FetchOk, WorkerStep, TypeOK
<1>7. ASSUME NEW q \in Repos, FetchFailed(q) \/ FetchCanceled(q) \/ FetchInterrupted(q)
      PROVE  \/ stage'[r] = stage[r] /\ outcome'[r] = outcome[r]
             \/ /\ stage[r] \in Early /\ stage'[r] = "release"
                /\ outcome'[r] \in {"skipped", "aborted", "interrupted"}
  BY <1>0, <1>7
  DEF FetchFailed, FetchCanceled, FetchInterrupted, Finish, WorkerStep, Early, TypeOK
<1>8. ASSUME NEW q \in Repos, Release(q) \/ GroupDone(q)
      PROVE  /\ outcome' = outcome
             /\ stage'[r] # stage[r] =>
                   stage[r] \in {"release", "return"} /\ stage'[r] \in {"return", "done"}
  BY <1>0, <1>8 DEF Release, GroupDone, WorkerStep, TypeOK
<1>9. ASSUME NEW q \in Repos, FetchOk(q)
      PROVE  \/ stage'[r] = stage[r] /\ outcome'[r] = outcome[r]
             \/ /\ stage[r] \in Early /\ stage'[r] # "import"
                /\ outcome'[r] \notin {"imported", "failed"}
  BY <1>0, <1>6, <1>9 DEF OutcomeInv, Early
<1>10. CASE Main \/ Signal
  BY <1>1, <1>2, <1>3, <1>4, <1>5, <1>10 DEF Main
<1>11. ASSUME NEW q \in Repos, OutsideImport(q)
       PROVE  \/ stage'[r] = stage[r] /\ outcome'[r] = outcome[r]
              \/ /\ stage[r] \in Early /\ stage'[r] # "import"
                 /\ outcome'[r] \notin {"imported", "failed"}
              \/ /\ stage[r] \in {"release", "return"} /\ stage'[r] \in {"return", "done"}
                 /\ outcome'[r] = outcome[r]
  BY <1>7, <1>8, <1>9, <1>11 DEF OutsideImport
<1> QED BY <1>10, <1>11

-----------------------------------------------------------------------------
(* The appends                                                             *)

\* No table has two turns.
LEMMA TablesDiffer ==
    /\ DOMAIN Tables = 1 .. 6 /\ Len(Tables) = 6
    /\ \A i, j \in 1 .. 6 : Tables[i] = Tables[j] => i = j
    /\ \A i \in 1 .. 6 : Tables[i] \in TableNames
    /\ \A t \in TableNames : \E i \in 1 .. 6 : t = Tables[i]
<1>1. DOMAIN Tables = 1 .. 6 /\ Len(Tables) = 6
  BY DEF Tables
<1>2. \A i, j \in 1 .. 6 : Tables[i] = Tables[j] => i = j
  BY DEF Tables
<1> QED BY <1>1, <1>2 DEF TableNames

\* A repository that a step leaves alone keeps its part of the invariant.
LEMMA LeftAlone ==
    ASSUME NEW s \in Repos, WritingAt(s), import'[s] = import[s], tables'[s] = tables[s],
           stage'[s] = stage[s], outcome'[s] = outcome[s]
    PROVE  WritingAt(s)'
BY DEF WritingAt, Progress, Turn

\* What NextTable does.
LEMMA TurnIsOver ==
    ASSUME WriterTypeOK, NEW r \in Repos, import[r].next \in 1 .. 6, NextTable(r)
    PROVE  /\ import' \in [Repos -> Import]
           /\ import'[r].rows = import[r].rows
           /\ import'[r].next = import[r].next + 1
           /\ ~import'[r].sent
           /\ \A s \in Repos \ {r} : import'[s] = import[s]
<1>1. import \in [Repos -> Import] /\ import[r] \in Import
  BY DEF WriterTypeOK
<1> DEFINE new == [import[r] EXCEPT !.next = import[r].next + 1, !.sent = FALSE]
<1>2. import' = [import EXCEPT ![r] = new]
  BY <1>1 DEF NextTable, Import
<1>3. new.rows = import[r].rows /\ new.next = import[r].next + 1 /\ new.sent = FALSE
  BY <1>1 DEF Import
<1>4. import[r].next + 1 \in 1 .. Len(Tables) + 1
  BY TablesDiffer
<1>5. new \in Import
  BY <1>1, <1>4 DEF Import
<1> HIDE DEF new
<1> QED BY <1>1, <1>2, <1>3, <1>5

\* What Stored does.
LEMMA RowsAppended ==
    ASSUME WriterTypeOK, NEW r \in Repos, import[r].next \in 1 .. 6, tables' = Stored(r)
    PROVE  /\ tables' \in [Repos -> [TableNames -> Nat]]
           /\ \A i \in 1 .. 6 : tables'[r][Tables[i]] =
                 IF i = import[r].next THEN tables[r][Tables[i]] + 1 ELSE tables[r][Tables[i]]
           /\ \A s \in Repos \ {r} : tables'[s] = tables[s]
<1> DEFINE t == Tables[import[r].next]
           new == [tables[r] EXCEPT ![t] = tables[r][t] + 1]
<1>1. tables \in [Repos -> [TableNames -> Nat]] /\ tables[r] \in [TableNames -> Nat]
  BY DEF WriterTypeOK
<1>2. t \in TableNames
  BY TablesDiffer
<1>3. tables' = [tables EXCEPT ![r] = new]
  BY <1>1, <1>2 DEF Stored
<1>4. new \in [TableNames -> Nat]
  BY <1>1, <1>2
<1>5. \A i \in 1 .. 6 : new[Tables[i]] =
         IF i = import[r].next THEN tables[r][Tables[i]] + 1 ELSE tables[r][Tables[i]]
  BY <1>1, <1>2, TablesDiffer
<1> HIDE DEF new
<1> QED BY <1>1, <1>3, <1>4, <1>5

\* A turn that is over leaves its table with the rows it is to have.
LEMMA ProgressGrows ==
    ASSUME NEW r \in Repos, Progress(r), import[r].next \in 1 .. 6,
           import'[r].next = import[r].next + 1, import'[r].rows = import[r].rows,
           \A i \in 1 .. 6 : tables'[r][Tables[i]] =
              IF i = import[r].next /\ Tables[i] \in Wanted(import[r].rows)
              THEN tables[r][Tables[i]] + 1 ELSE tables[r][Tables[i]]
    PROVE  Progress(r)'
<1>1. \A i \in 1 .. 6 : i < import[r].next + 1 <=> i < import[r].next \/ i = import[r].next
  OBVIOUS
<1>2. ASSUME NEW i \in 1 .. 6
      PROVE  tables'[r][Tables[i]] =
                IF i < import'[r].next /\ Tables[i] \in Wanted(import'[r].rows) THEN 1 ELSE 0
  BY <1>1, TablesDiffer DEF Progress
<1> QED BY <1>2, TablesDiffer DEF Progress

\* The turn is that of a table the entry has rows for, or has not.
LEMMA TurnOf ==
    ASSUME NEW r \in Repos, NEW S, \E t \in S : Turn(r, t)
    PROVE  import[r].next \in 1 .. 6 /\ Tables[import[r].next] \in S
BY TablesDiffer DEF Turn

\* Every step of an import keeps what the tables have.
LEMMA ImportKeeps ==
    ASSUME WriterInv, TypeOK', NEW r \in Repos, ImportRepo(r) \/ ServedLate(r)
    PROVE  WriterTypeOK' /\ WritingInv'
<1>0. /\ WriterTypeOK /\ TypeOK /\ OutcomeInv
      /\ WritingAt(r) /\ Progress(r)
      /\ import \in [Repos -> Import] /\ import[r] \in Import
      /\ tables \in [Repos -> [TableNames -> Nat]]
  BY DEF WriterInv, IMore, IInv, WriterTypeOK, WritingInv, WritingAt
<1>1. ASSUME import' \in [Repos -> Import], tables' \in [Repos -> [TableNames -> Nat]],
             \A s \in Repos \ {r} : import'[s] = import[s] /\ tables'[s] = tables[s],
             \A s \in Repos \ {r} : stage'[s] = stage[s] /\ outcome'[s] = outcome[s],
             WritingAt(r)'
      PROVE  WriterTypeOK' /\ WritingInv'
  <2>1. \A s \in Repos \ {r} : WritingAt(s)'
    BY <1>1, LeftAlone DEF WriterInv, WritingInv
  <2> QED BY <1>1, <2>1 DEF WriterTypeOK, WritingInv
\* The import ends, having touched nothing more.
<1>2. ASSUME NEW how \in {"imported", "failed"}, Finish(r, "import", how),
             how = "imported" => import[r].next \notin DOMAIN Tables
      PROVE  /\ stage[r] = "import" /\ stage'[r] = "release" /\ outcome'[r] = how
             /\ \A s \in Repos \ {r} : stage'[s] = stage[s] /\ outcome'[s] = outcome[s]
  BY <1>0, <1>2 DEF Finish, WorkerStep, TypeOK
<1>3. CASE Convert(r)
  <2>1. PICK rows \in Entries : import' = [import EXCEPT ![r].rows = rows]
    BY <1>3 DEF Convert
  <2>2. /\ stage[r] = "fetched" /\ stage'[r] \in {"import", "release"}
        /\ outcome'[r] \in {"none", "failed"}
        /\ \A s \in Repos \ {r} : stage'[s] = stage[s] /\ outcome'[s] = outcome[s]
    BY <1>0, <1>3 DEF Convert, ImportBegin, Finish, WorkerStep, OutcomeInv, TypeOK
  <2>3. /\ import' \in [Repos -> Import]
        /\ import'[r].rows = rows /\ import'[r].next = import[r].next
        /\ import'[r].sent = import[r].sent
        /\ \A s \in Repos \ {r} : import'[s] = import[s]
    <3> DEFINE new == [import[r] EXCEPT !.rows = rows]
    <3>1. import' = [import EXCEPT ![r] = new]
      BY <1>0, <2>1
    <3>2. rows \subseteq TableNames
      BY EntriesAssumption
    <3>3. new.rows = rows /\ new.next = import[r].next /\ new.sent = import[r].sent
      BY <1>0 DEF Import
    <3>4. new \in Import
      BY <1>0, <3>2 DEF Import
    <3> HIDE DEF new
    <3> QED BY <1>0, <3>1, <3>3, <3>4
  <2>4. tables' = tables /\ import[r].next = 1 /\ ~import[r].sent
    BY <1>0, <1>3, <2>2 DEF Convert, WritingAt, Early
  <2>5. Progress(r)'
    BY <1>0, <2>3, <2>4, TablesDiffer DEF Progress
  <2>6. WritingAt(r)'
    BY <2>2, <2>3, <2>4, <2>5 DEF WritingAt, Early
  <2> QED BY <1>0, <1>1, <2>2, <2>3, <2>4, <2>6
<1>4. CASE NoRows(r)
  <2>a. /\ \E t \in TableNames \ Wanted(import[r].rows) : Turn(r, t)
        /\ NextTable(r) /\ stage[r] = "import" /\ UNCHANGED <<stage, outcome, tables>>
    BY <1>4 DEF NoRows, vars
  <2>b. import[r].next \in 1 .. 6 /\ Tables[import[r].next] \in TableNames \ Wanted(import[r].rows)
    BY <2>a, TurnOf, Zenon
  <2>1. /\ import[r].next \in 1 .. 6 /\ Tables[import[r].next] \notin Wanted(import[r].rows)
        /\ NextTable(r) /\ stage[r] = "import" /\ UNCHANGED <<stage, outcome, tables>>
    BY <2>a, <2>b
  <2>2. Progress(r)'
    BY <1>0, <2>1, TurnIsOver, ProgressGrows
  <2>3. outcome[r] = "none" /\ import[r].rows \in Entries
    BY <1>0, <2>1 DEF OutcomeInv, WritingAt
  <2>4. WritingAt(r)'
    BY <1>0, <2>1, <2>2, <2>3, TurnIsOver DEF WritingAt, Early
  <2> QED BY <1>0, <1>1, <2>1, <2>4, TurnIsOver
<1>5. CASE insert(r)
  <2>1. /\ \E t \in Wanted(import[r].rows) : Turn(r, t)
        /\ import' = [import EXCEPT ![r].sent = TRUE]
        /\ stage[r] = "import" /\ UNCHANGED <<stage, outcome, tables>>
    BY <1>5 DEF insert, vars
  <2>2. /\ import' \in [Repos -> Import]
        /\ import'[r].rows = import[r].rows /\ import'[r].next = import[r].next
        /\ \A s \in Repos \ {r} : import'[s] = import[s]
    <3> DEFINE new == [import[r] EXCEPT !.sent = TRUE]
    <3>1. import' = [import EXCEPT ![r] = new]
      BY <1>0, <2>1
    <3>2. new \in Import /\ new.rows = import[r].rows /\ new.next = import[r].next
      BY <1>0 DEF Import
    <3> HIDE DEF new
    <3> QED BY <1>0, <3>1, <3>2
  <2>3. Progress(r)'
    BY <1>0, <2>1, <2>2 DEF Progress
  <2>4. (\E t \in Wanted(import[r].rows) : Turn(r, t))'
    BY <2>1, <2>2 DEF Turn
  <2>5. WritingAt(r)'
    BY <1>0, <2>1, <2>2, <2>3, <2>4 DEF WritingAt
  <2> QED BY <1>0, <1>1, <2>1, <2>2, <2>5
\* The request under way is served, whoever still waits for it.
<1>6. ASSUME import[r].sent, tables' = Stored(r), NextTable(r),
             \A s \in Repos \ {r} : stage'[s] = stage[s] /\ outcome'[s] = outcome[s],
             \/ stage'[r] = stage[r] /\ outcome'[r] = outcome[r]
             \/ stage'[r] = "release" /\ outcome'[r] = "failed"
      PROVE  WriterTypeOK' /\ WritingInv'
  <2>1. /\ stage[r] = "import" /\ outcome[r] = "none" /\ import[r].rows \in Entries
        /\ import[r].next \in 1 .. 6 /\ Tables[import[r].next] \in Wanted(import[r].rows)
    BY <1>0, <1>6, TurnOf DEF WritingAt, OutcomeInv
  <2>2. \A i \in 1 .. 6 : tables'[r][Tables[i]] =
              IF i = import[r].next /\ Tables[i] \in Wanted(import[r].rows)
              THEN tables[r][Tables[i]] + 1 ELSE tables[r][Tables[i]]
    BY <1>0, <1>6, <2>1, RowsAppended
  <2>3. Progress(r)'
    BY <1>0, <1>6, <2>1, <2>2, TurnIsOver, ProgressGrows
  <2>4. WritingAt(r)'
    BY <1>0, <1>6, <2>1, <2>3, TurnIsOver DEF WritingAt, Early
  <2> QED BY <1>0, <1>1, <1>6, <2>1, <2>4, TurnIsOver, RowsAppended
<1>7. CASE PutOk(r) \/ ServedLate(r)
  BY <1>6, <1>7 DEF PutOk, ServedLate, vars
\* The import fails and the rows of its last request are not appended.
<1>8. ASSUME stage[r] = "import", stage'[r] = "release", outcome'[r] = "failed",
             \A s \in Repos \ {r} : stage'[s] = stage[s] /\ outcome'[s] = outcome[s],
             tables' = tables,
             import' = [import EXCEPT ![r].sent = FALSE] \/ (import' = import /\ ~import[r].sent)
      PROVE  WriterTypeOK' /\ WritingInv'
  <2>1. /\ import' \in [Repos -> Import] /\ ~import'[r].sent
        /\ import'[r].rows = import[r].rows /\ import'[r].next = import[r].next
        /\ \A s \in Repos \ {r} : import'[s] = import[s]
    <3> DEFINE new == [import[r] EXCEPT !.sent = FALSE]
    <3>1. import' = [import EXCEPT ![r] = new] \/ (import' = import /\ ~import[r].sent)
      BY <1>0, <1>8
    <3>2. /\ new \in Import /\ new.rows = import[r].rows /\ new.next = import[r].next
          /\ ~new.sent
      BY <1>0 DEF Import
    <3> HIDE DEF new
    <3> QED BY <1>0, <3>1, <3>2
  <2>2. Progress(r)'
    BY <1>0, <1>8, <2>1 DEF Progress
  <2>3. WritingAt(r)'
    BY <1>0, <1>8, <2>1, <2>2 DEF WritingAt, Early
  <2> QED BY <1>0, <1>1, <1>8, <2>1, <2>3
<1>9. CASE PutFailed(r)
  <2>1. /\ stage[r] = "import" /\ stage'[r] = "release" /\ outcome'[r] = "failed"
        /\ \A s \in Repos \ {r} : stage'[s] = stage[s] /\ outcome'[s] = outcome[s]
    BY <1>2, <1>9 DEF PutFailed, ImportFailed
  <2>2. CASE tables' = Stored(r) /\ NextTable(r)
    BY <1>6, <1>9, <2>1, <2>2 DEF PutFailed
  <2>3. CASE import' = [import EXCEPT ![r].sent = FALSE] /\ UNCHANGED tables
    BY <1>8, <2>1, <2>3
  <2> QED BY <1>9, <2>2, <2>3 DEF PutFailed
<1>10. CASE PutRefused(r)
  BY <1>2, <1>8, <1>10 DEF PutRefused, ImportFailed
<1>11. CASE ImportRepoOk(r)
  <2>1. /\ stage[r] = "import" /\ stage'[r] = "release" /\ outcome'[r] = "imported"
        /\ \A s \in Repos \ {r} : stage'[s] = stage[s] /\ outcome'[s] = outcome[s]
        /\ UNCHANGED <<import, tables>> /\ import[r].next \notin DOMAIN Tables
    BY <1>2, <1>11 DEF ImportRepoOk, ImportOk
  <2>2. ~import[r].sent
    BY <1>0, <2>1 DEF WritingAt, Turn
  <2>3. Progress(r)'
    BY <1>0, <2>1 DEF Progress
  <2>4. WritingAt(r)'
    BY <1>0, <2>1, <2>2, <2>3 DEF WritingAt, Early
  <2> QED BY <1>0, <1>1, <2>1, <2>4
<1> QED BY <1>3, <1>4, <1>5, <1>7, <1>9, <1>10, <1>11 DEF ImportRepo

\* Every other step does too.
LEMMA OthersKeep ==
    ASSUME WriterInv, TypeOK', UNCHANGED <<import, tables>>,
           Main \/ Signal \/ \E q \in Repos : OutsideImport(q)
    PROVE  WriterTypeOK' /\ WritingInv'
<1>1. ASSUME NEW r \in Repos PROVE WritingAt(r)'
  <2>1. WritingAt(r) /\ Progress(r)
    BY DEF WriterInv, WritingInv, WritingAt
  <2>2. Progress(r)'
    BY <2>1 DEF Progress
  <2>3. (\E t \in Wanted(import[r].rows) : Turn(r, t)) = (\E t \in Wanted(import[r].rows) : Turn(r, t))'
    BY DEF Turn
  <2>4. \/ stage'[r] = stage[r] /\ outcome'[r] = outcome[r]
        \/ /\ stage[r] \in Early /\ stage'[r] # "import"
           /\ outcome'[r] \notin {"imported", "failed"}
        \/ /\ stage[r] \in {"release", "return"} /\ stage'[r] \in {"return", "done"}
           /\ outcome'[r] = outcome[r]
    BY OutsideStages DEF WriterInv
  <2>5. CASE stage'[r] = stage[r] /\ outcome'[r] = outcome[r]
    BY <2>1, <2>5, LeftAlone
  <2>6. CASE stage[r] \in Early /\ stage'[r] # "import" /\ outcome'[r] \notin {"imported", "failed"}
    BY <2>1, <2>2, <2>6 DEF WritingAt, Early
  <2>7. CASE /\ stage[r] \in {"release", "return"} /\ stage'[r] \in {"return", "done"}
             /\ outcome'[r] = outcome[r]
    BY <2>1, <2>2, <2>7 DEF WritingAt, Early
  <2> QED BY <2>4, <2>5, <2>6, <2>7
<1>2. WriterTypeOK'
  BY DEF WriterInv, WriterTypeOK
<1> QED BY <1>1, <1>2 DEF WritingInv

\* The invariant holds throughout.
LEMMA WriterInvariance == WriterSpec => []WriterInv
<1>1. WriterInit /\ IMore => WriterInv
  <2> SUFFICES ASSUME WriterInit, IMore PROVE WriterInv
    OBVIOUS
  <2>1. NoImport \in Import
    BY TablesDiffer DEF NoImport, Import
  <2>2. WriterTypeOK
    BY <2>1 DEF WriterInit, WriterTypeOK, IMore, IInv
  <2>3. ASSUME NEW r \in Repos PROVE WritingAt(r)
    <3>1. import[r].next = 1 /\ ~import[r].sent
      BY DEF WriterInit, NoImport
    <3>2. Progress(r)
      BY <3>1, TablesDiffer DEF WriterInit, Progress
    <3>3. stage[r] = "unseen" /\ outcome[r] = "none"
      BY DEF WriterInit, Init
    <3> QED BY <3>1, <3>2, <3>3 DEF WritingAt
  <2> QED BY <2>2, <2>3 DEF WriterInv, WritingInv
<1>2. WriterInv /\ IMore' /\ [WriterNext]_writerVars => WriterInv'
  <2> SUFFICES ASSUME WriterInv, IMore', [WriterNext]_writerVars PROVE WriterInv'
    OBVIOUS
  <2>1. TypeOK'
    BY DEF IMore, IInv
  <2>2. CASE UNCHANGED writerVars
    <3>1. UNCHANGED <<import, tables, stage, outcome>>
      BY <2>2 DEF writerVars, vars
    <3>2. WritingInv'
      BY <3>1, LeftAlone DEF WriterInv, WritingInv
    <3>3. WriterTypeOK'
      BY <2>1, <3>1 DEF WriterInv, WriterTypeOK
    <3> QED BY <3>2, <3>3 DEF WriterInv
  <2>3. CASE (Main \/ Signal \/ \E r \in Repos : OutsideImport(r)) /\ UNCHANGED <<import, tables>>
    BY <2>1, <2>3, OthersKeep DEF WriterInv
  <2>4. ASSUME NEW r \in Repos, ImportRepo(r) \/ ServedLate(r) PROVE WriterInv'
    BY <2>1, <2>4, ImportKeeps DEF WriterInv
  <2> QED BY <2>2, <2>3, <2>4 DEF WriterNext
<1> QED BY <1>1, <1>2, RunnerInvariance, PTL DEF WriterSpec

-----------------------------------------------------------------------------
(* The theorems                                                            *)

\* At no moment, and so whenever the process ends, a row is there whose
\* repository is not, or a stage whose Dockerfile is not (bqwriter.go lines
\* 60-80).
THEOREM NoRowIsAnOrphan == WriterSpec => []NoOrphans
<1>1. WriterInv => NoOrphans
  <2> SUFFICES ASSUME WriterInv, NEW r \in Repos
               PROVE  /\ ~Has(r, "repos") => Missing(r)
                      /\ Has(r, "dockerfile_stages") => Has(r, "dockerfile_features")
    BY DEF NoOrphans
  <2>0. WritingAt(r) /\ Progress(r) /\ import[r].next \in 1 .. 7
    BY TablesDiffer DEF WriterInv, WritingInv, WritingAt, WriterTypeOK, Import
  <2>1. Tables[1] = "repos" /\ Tables[3] = "dockerfile_features" /\ Tables[4] = "dockerfile_stages"
    BY DEF Tables
  <2>2. CASE import[r].next = 1
    <3>1. \A i \in 1 .. 6 : tables[r][Tables[i]] = 0
      BY <2>0, <2>2, TablesDiffer DEF Progress
    <3> QED BY <2>1, <3>1, TablesDiffer DEF Has, Missing
  <2>3. CASE import[r].next > 1
    <3>1. /\ "repos" \in Wanted(import[r].rows)
          /\ "dockerfile_stages" \in Wanted(import[r].rows) =>
                "dockerfile_features" \in Wanted(import[r].rows)
      BY <2>0, <2>3, EntriesAssumption DEF WritingAt, Wanted
    <3>2. Has(r, "repos")
      BY <2>0, <2>1, <2>3, <3>1, TablesDiffer DEF Has, Progress
    <3>3. Has(r, "dockerfile_stages") => 4 < import[r].next /\ Tables[4] \in Wanted(import[r].rows)
      BY <2>0, <2>1, TablesDiffer DEF Has, Progress
    <3>4. Has(r, "dockerfile_stages") => tables[r][Tables[3]] = 1
      BY <2>0, <2>1, <3>1, <3>3, TablesDiffer DEF Progress
    <3> QED BY <2>1, <3>2, <3>4 DEF Has
  <2> QED BY <2>0, <2>2, <2>3
<1> QED BY <1>1, WriterInvariance, PTL

\* A process that ends with status 0 has saved whole what it imported, and
\* nothing of anything else (bqwriter.go lines 54-83 with app.go lines 133-162).
THEOREM StatusZeroMeansWhole == WriterSpec => []SuccessIsWhole
<1>1. WriterInv => SuccessIsWhole
  <2> SUFFICES ASSUME WriterInv, main = "exited", result = "nil", NEW r \in Repos
               PROVE  IF outcome[r] = "imported" THEN Whole(r) ELSE Missing(r)
    BY DEF SuccessIsWhole, ExitCode
  <2>0. /\ WritingAt(r) /\ Progress(r) /\ import[r].next \in 1 .. 7
        /\ TypeOK /\ OutcomeInv /\ ErrorInv
    BY TablesDiffer DEF WriterInv, WritingInv, WritingAt, WriterTypeOK, Import, IMore, IInv
  <2>1. /\ stage[r] \in {"unseen", "listed", "done"}
        /\ outcome[r] # "failed"
    BY <2>0 DEF ErrorInv, Working, Holding, TypeOK, Stage
  <2>2. CASE outcome[r] = "imported"
    <3>1. import[r].next = 7
      BY <2>0, <2>2, TablesDiffer DEF WritingAt
    <3> QED BY <2>0, <2>2, <3>1, TablesDiffer DEF Progress, Whole
  <2>3. CASE outcome[r] # "imported"
    <3>1. import[r].next = 1
      BY <2>0, <2>1, <2>3 DEF WritingAt, OutcomeInv, Early
    <3> QED BY <2>0, <2>3, <3>1, TablesDiffer DEF Progress, Missing, Has
  <2> QED BY <2>2, <2>3
<1> QED BY <1>1, WriterInvariance, PTL
=============================================================================
