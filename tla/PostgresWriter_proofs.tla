----------------------- MODULE PostgresWriter_proofs -----------------------
(***************************************************************************)
(* Proofs about the PostgreSQL writer, for any repositories, any rows and  *)
(* any number of runs on one day.                                          *)
(***************************************************************************)
EXTENDS PostgresWriter, TLAPS

Import == [at : {"idle", "begin", "repo", "rows", "done"}, entry : SUBSET Children,
           left : SUBSET Children, spoilt : BOOLEAN, result : {"none", "ok", "error"}]

WriterTypeOK ==
    /\ run \in Nat
    /\ cancelled \in BOOLEAN
    /\ conn \in Repos \cup {NoRepo}
    /\ import \in [Repos -> Import]
    /\ stored \in [Repos -> [Rows -> [by : Nat, copies : Nat]]]

\* The caller is answered when ImportRepo returns, and not before.
AnsweredOnReturn == \A r \in Repos : import[r].result = "none" <=> import[r].at # "done"

IInv == WriterTypeOK /\ ConnectionHeld /\ AnsweredOnReturn

-----------------------------------------------------------------------------
\* Only the import that steps changes.
LEMMA Updates ==
  ASSUME WriterTypeOK, NEW r \in Repos, NEW new, Update(r, new), NEW s \in Repos
  PROVE  import'[s] = IF s = r THEN new ELSE import[s]
BY DEF Update, WriterTypeOK

\* What becomes of an import is an import again.
LEMMA ImportType ==
  ASSUME WriterTypeOK, NEW r \in Repos
  PROVE  /\ \A entry \in SUBSET Children :
               [import[r] EXCEPT !.at = "begin", !.entry = entry] \in Import
         /\ [import[r] EXCEPT !.at = "repo"] \in Import
         /\ [import[r] EXCEPT !.at = "rows", !.left = import[r].entry] \in Import
         /\ \A x \in Children, fails \in BOOLEAN :
               [import[r] EXCEPT !.left = @ \ {x}, !.spoilt = @ \/ fails] \in Import
         /\ \A result \in {"ok", "error"} : Returned(r, result) \in Import
         /\ NoImport \in Import
<1>1. import[r] \in Import
  BY DEF WriterTypeOK
<1>2. \A result \in {"ok", "error"} : Returned(r, result) \in Import
  BY <1>1 DEF Returned, Import
<1>3. \A x \in Children, fails \in BOOLEAN :
         [import[r] EXCEPT !.left = @ \ {x}, !.spoilt = @ \/ fails] \in Import
  BY <1>1 DEF Import
<1>4. NoImport \in Import
  BY DEF NoImport, Import
<1> QED BY <1>1, <1>2, <1>3, <1>4 DEF Import

\* The statements leave rows of the right kind in the tables.
LEMMA UpsertedType ==
  ASSUME WriterTypeOK, NEW r \in Repos
  PROVE  [stored EXCEPT ![r] = Upserted(r, import[r].entry)]
            \in [Repos -> [Rows -> [by : Nat, copies : Nat]]]
<1>1. Upserted(r, import[r].entry) \in [Rows -> [by : Nat, copies : Nat]]
  BY DEF WriterTypeOK, Upserted
<1> QED BY <1>1 DEF WriterTypeOK

\* The initial state has the invariant.
LEMMA InitHolds == WriterInit => IInv
<1> SUFFICES ASSUME WriterInit PROVE IInv
  OBVIOUS
<1>1. NoImport.at = "idle" /\ NoImport.result = "none" /\ NoImport \in Import
  BY DEF NoImport, Import
<1>2. WriterTypeOK
  BY <1>1 DEF WriterInit, WriterTypeOK
<1>3. ConnectionHeld /\ AnsweredOnReturn
  BY <1>1, WriterAssumption DEF WriterInit, ConnectionHeld, AnsweredOnReturn, At
<1> QED BY <1>2, <1>3 DEF IInv

-----------------------------------------------------------------------------
\* The transaction takes effect.
Saves(r) == stored' = [stored EXCEPT ![r] = Upserted(r, import[r].entry)]

\* What a step of an import does to it and to the connection: the connection
\* is taken, kept, or given back by the one that has it; an answer is given
\* with the return, "ok" only for what was saved.
Move(r, new) ==
    /\ Update(r, new)
    /\ \/ new.at = "begin" /\ At(r, "idle") /\ UNCHANGED <<conn, stored>>
       \/ new.at = "repo" /\ At(r, "begin") /\ conn = NoRepo /\ conn' = r /\ UNCHANGED stored
       \/ new.at = "rows" /\ (At(r, "repo") \/ At(r, "rows")) /\ UNCHANGED <<conn, stored>>
       \/ new.at = "done" /\ At(r, "begin") /\ UNCHANGED <<conn, stored>>
       \/ new.at = "done" /\ At(r, "repo") /\ conn' = NoRepo /\ UNCHANGED stored
       \/ new.at = "done" /\ At(r, "rows") /\ conn' = NoRepo /\ (Saves(r) \/ UNCHANGED stored)
    /\ IF new.at = "done" THEN new.result \in {"ok", "error"}
                          ELSE new.result = import[r].result
    /\ new.at = "done" /\ new.result = "ok" => Saves(r)

\* What an import returns with.
LEMMA ReturnedFields ==
  ASSUME WriterTypeOK, NEW r \in Repos, NEW result \in {"ok", "error"}
  PROVE  /\ Returned(r, result) \in Import
         /\ Returned(r, result).at = "done"
         /\ Returned(r, result).result = result
<1>1. import[r] \in Import
  BY DEF WriterTypeOK
<1>2. Returned(r, result) \in Import
  BY ImportType
<1>3. Returned(r, result) = [import[r] EXCEPT !.at = "done", !.left = {}, !.result = result]
  BY DEF Returned
<1>4. Returned(r, result).at = "done"
  BY <1>1, <1>3 DEF Import
<1>5. Returned(r, result).result = result
  BY <1>1, <1>3 DEF Import
<1> QED BY <1>2, <1>4, <1>5

\* An import that gives no answer yet moves on, and nothing is stored.
LEMMA GoesOn ==
  ASSUME NEW r \in Repos, NEW new \in Import, Update(r, new),
         new.at # "done", new.result = import[r].result, UNCHANGED stored,
         \/ new.at = "begin" /\ At(r, "idle") /\ UNCHANGED conn
         \/ new.at = "repo" /\ At(r, "begin") /\ conn = NoRepo /\ conn' = r
         \/ new.at = "rows" /\ (At(r, "repo") \/ At(r, "rows")) /\ UNCHANGED conn
  PROVE  Move(r, new)
BY DEF Move

\* An import that fails returns an error and stores nothing.
LEMMA GivesUp ==
  ASSUME WriterTypeOK, NEW r \in Repos, Update(r, Returned(r, "error")),
         \/ At(r, "begin") /\ UNCHANGED <<conn, stored>>
         \/ At(r, "repo") /\ conn' = NoRepo /\ UNCHANGED stored
         \/ At(r, "rows") /\ conn' = NoRepo /\ (Saves(r) \/ UNCHANGED stored)
  PROVE  \E new \in Import : Move(r, new)
<1> DEFINE new == Returned(r, "error")
<1>1. new \in Import /\ new.at = "done" /\ new.result = "error"
  BY ReturnedFields
<1> HIDE DEF new
<1>2. Move(r, new)
  BY <1>1 DEF Move, new
<1> QED BY <1>1, <1>2

\* An import that is answered "ok" has stored its rows.
LEMMA Succeeds ==
  ASSUME WriterTypeOK, NEW r \in Repos, Update(r, Returned(r, "ok")),
         At(r, "rows"), conn' = NoRepo, Saves(r)
  PROVE  \E new \in Import : Move(r, new)
<1> DEFINE new == Returned(r, "ok")
<1>1. new \in Import /\ new.at = "done" /\ new.result = "ok"
  BY ReturnedFields
<1> HIDE DEF new
<1>2. Move(r, new)
  BY <1>1 DEF Move, new
<1> QED BY <1>1, <1>2

\* Every step of an import is such a move.
LEMMA ImportCases ==
  ASSUME WriterTypeOK, NEW r \in Repos, ImportRepo(r) \/ ImportStep(r)
  PROVE  UNCHANGED <<run, cancelled>> /\ \E new \in Import : Move(r, new)
<1>1. import[r] \in Import
  BY DEF WriterTypeOK
<1>2. CASE ImportRepo(r)
  <2>1. PICK entry \in SUBSET Children :
           Update(r, [import[r] EXCEPT !.at = "begin", !.entry = entry])
    BY <1>2 DEF ImportRepo
  <2> DEFINE new == [import[r] EXCEPT !.at = "begin", !.entry = entry]
  <2>2. new \in Import
    BY ImportType
  <2>3. new.at = "begin" /\ new.result = import[r].result
    BY <1>1 DEF Import
  <2>4. At(r, "idle") /\ UNCHANGED <<run, cancelled, conn, stored>>
    BY <1>2 DEF ImportRepo
  <2> HIDE DEF new
  <2>5. Move(r, new)
    BY <2>1, <2>2, <2>3, <2>4, GoesOn DEF new
  <2> QED BY <2>2, <2>4, <2>5
<1>3. CASE BeginTx(r)
  <2> DEFINE new == [import[r] EXCEPT !.at = "repo"]
  <2>1. new \in Import
    BY ImportType
  <2>2. new.at = "repo" /\ new.result = import[r].result
    BY <1>1 DEF Import
  <2> HIDE DEF new
  <2>3. Update(r, new) /\ At(r, "begin") /\ conn = NoRepo /\ conn' = r
        /\ UNCHANGED <<run, cancelled, stored>>
    BY <1>3 DEF BeginTx, new
  <2>4. Move(r, new)
    BY <2>1, <2>2, <2>3, GoesOn
  <2> QED BY <2>1, <2>3, <2>4
<1>4. CASE InsertOrUpdateRepo(r)
  <2> DEFINE new == [import[r] EXCEPT !.at = "rows", !.left = import[r].entry]
  <2>1. new \in Import
    BY ImportType
  <2>2. new.at = "rows" /\ new.result = import[r].result
    BY <1>1 DEF Import
  <2> HIDE DEF new
  <2>3. Update(r, new) /\ At(r, "repo") /\ UNCHANGED <<run, cancelled, conn, stored>>
    BY <1>4 DEF InsertOrUpdateRepo, new
  <2>4. Move(r, new)
    BY <2>1, <2>2, <2>3, GoesOn
  <2> QED BY <2>1, <2>3, <2>4
<1>5. ASSUME NEW x \in Children, InsertRow(r, x)
      PROVE  UNCHANGED <<run, cancelled>> /\ \E new \in Import : Move(r, new)
  <2>1. PICK fails \in BOOLEAN :
           Update(r, [import[r] EXCEPT !.left = @ \ {x}, !.spoilt = @ \/ fails])
    BY <1>5 DEF InsertRow
  <2> DEFINE new == [import[r] EXCEPT !.left = @ \ {x}, !.spoilt = @ \/ fails]
  <2>2. new \in Import
    BY ImportType
  <2>3. new.at = import[r].at /\ new.result = import[r].result
    BY <1>1 DEF Import
  <2>4. At(r, "rows") /\ UNCHANGED <<run, cancelled, conn, stored>>
    BY <1>5 DEF InsertRow
  <2> HIDE DEF new
  <2>5. new.at = "rows"
    BY <2>3, <2>4 DEF At
  <2>6. Move(r, new)
    BY <2>1, <2>2, <2>3, <2>4, <2>5, GoesOn DEF new
  <2> QED BY <2>2, <2>4, <2>6
<1>6. CASE BeginTxFailed(r)
  BY <1>6, GivesUp DEF BeginTxFailed
<1>7. CASE InsertOrUpdateRepoFailed(r)
  BY <1>7, GivesUp DEF InsertOrUpdateRepoFailed
<1>8. CASE Commit(r)
  <2>1. CASE CommitsNothing(r)
    BY <1>8, <2>1, GivesUp DEF Commit
  <2>2. CASE ~CommitsNothing(r)
    BY <1>8, <2>2, Succeeds DEF Commit, Saves
  <2> QED BY <2>1, <2>2
<1>9. CASE CommitUnanswered(r)
  BY <1>9, GivesUp DEF CommitUnanswered, Saves
<1> QED BY <1>2, <1>3, <1>4, <1>5, <1>6, <1>7, <1>8, <1>9 DEF ImportStep

\* Every other step starts a run, cancels the imports or changes nothing.
LEMMA NextCases ==
  ASSUME [WriterNext]_writerVars
  PROVE  \/ \E r \in Repos : ImportRepo(r) \/ ImportStep(r)
         \/ NewRun
         \/ UNCHANGED <<run, conn, import, stored>> /\ (Cancel \/ UNCHANGED cancelled)
BY DEF WriterNext, Cancel, writerVars

\* The types are kept.
LEMMA TypeStep ==
  ASSUME WriterTypeOK, [WriterNext]_writerVars
  PROVE  WriterTypeOK'
<1>1. ASSUME NEW r \in Repos, ImportRepo(r) \/ ImportStep(r)
      PROVE  WriterTypeOK'
  <2>1. PICK new \in Import : Move(r, new)
    BY <1>1, ImportCases
  <2>2. import' \in [Repos -> Import]
    BY <2>1 DEF Move, Update, WriterTypeOK
  <2>3. conn' \in {conn, r, NoRepo}
    BY <2>1 DEF Move
  <2>4. stored' \in {stored, [stored EXCEPT ![r] = Upserted(r, import[r].entry)]}
    BY <2>1 DEF Move, Saves
  <2>5. UNCHANGED <<run, cancelled>>
    BY <1>1, ImportCases
  <2> QED BY <2>2, <2>3, <2>4, <2>5, UpsertedType DEF WriterTypeOK
<1>2. CASE NewRun
  <2>1. NoImport \in Import
    BY DEF NoImport, Import
  <2>2. import' \in [Repos -> Import] /\ run' \in Nat
    BY <1>2, <2>1 DEF NewRun, WriterTypeOK
  <2>3. cancelled' \in BOOLEAN /\ conn' = NoRepo /\ stored' = stored
    BY <1>2 DEF NewRun
  <2> QED BY <2>2, <2>3 DEF WriterTypeOK
<1>3. CASE UNCHANGED <<run, conn, import, stored>> /\ (Cancel \/ UNCHANGED cancelled)
  BY <1>3 DEF Cancel, WriterTypeOK
<1> QED BY <1>1, <1>2, <1>3, NextCases

\* The connection is held by the import that has it, and each import is
\* answered when it returns.
LEMMA HeldStep ==
  ASSUME IInv, [WriterNext]_writerVars
  PROVE  ConnectionHeld' /\ AnsweredOnReturn'
<1> USE DEF IInv
<1>1. ASSUME NEW r \in Repos, ImportRepo(r) \/ ImportStep(r), NEW s \in Repos
      PROVE  /\ conn' = s <=> import'[s].at \in {"repo", "rows"}
             /\ import'[s].result = "none" <=> import'[s].at # "done"
  <2>1. /\ conn = s <=> import[s].at \in {"repo", "rows"}
        /\ conn = r <=> import[r].at \in {"repo", "rows"}
        /\ import[s].result = "none" <=> import[s].at # "done"
        /\ import[r].result = "none" <=> import[r].at # "done"
    BY DEF ConnectionHeld, AnsweredOnReturn, At
  <2>2. NoRepo # s /\ NoRepo # r
    BY WriterAssumption
  <2>3. PICK new \in Import : Move(r, new)
    BY <1>1, ImportCases
  <2>4. import'[s] = IF s = r THEN new ELSE import[s]
    BY <2>3, Updates DEF Move
  <2> QED BY <2>1, <2>2, <2>3, <2>4 DEF Move, At
<1>2. CASE NewRun
  BY <1>2, WriterAssumption DEF NewRun, NoImport, ConnectionHeld, AnsweredOnReturn, At
<1>3. CASE UNCHANGED <<run, conn, import, stored>>
  BY <1>3 DEF ConnectionHeld, AnsweredOnReturn, At
<1>4. CASE \E r \in Repos : ImportRepo(r) \/ ImportStep(r)
  BY <1>1, <1>4 DEF ConnectionHeld, AnsweredOnReturn, At
<1> QED BY <1>2, <1>3, <1>4, NextCases

\* The invariant is inductive and holds throughout.
LEMMA Inductive == WriterSpec => []IInv
<1>1. ASSUME IInv, [WriterNext]_writerVars PROVE IInv'
  BY <1>1, TypeStep, HeldStep DEF IInv
<1> QED BY <1>1, InitHolds, PTL DEF WriterSpec

-----------------------------------------------------------------------------
\* The pool's only connection is held by an import exactly between its BeginTx
\* and its Commit or Rollback (postgresql.go lines 28 and 38-103).
THEOREM OneHoldsTheConnection == WriterSpec => []ConnectionHeld
BY Inductive, PTL DEF IInv

\* The mapping's "written".
Written == [r \in Repos |-> [x \in Rows |-> stored[r][x].by]]

\* Committing saves the entry's rows for the present run and no others.
LEMMA CommitSaves ==
  ASSUME WriterTypeOK, NEW r \in Repos,
         stored' = [stored EXCEPT ![r] = Upserted(r, import[r].entry)]
  PROVE  Written' = [Written EXCEPT ![r] =
                       [x \in Rows |-> IF x \in import[r].entry \cup {RepoRow} THEN run
                                       ELSE @[x]]]
<1>1. ASSUME NEW s \in Repos, NEW x \in Rows
      PROVE  stored'[s][x].by = IF s = r /\ x \in import[r].entry \cup {RepoRow}
                                  THEN run ELSE stored[s][x].by
  BY DEF WriterTypeOK, Upserted
<1> DEFINE saved == [x \in Rows |-> IF x \in import[r].entry \cup {RepoRow} THEN run
                                   ELSE Written[r][x]]
<1>2. \A s \in Repos : [x \in Rows |-> stored'[s][x].by] = IF s = r THEN saved ELSE Written[s]
  BY <1>1 DEF Written
<1>3. Written' = [s \in Repos |-> [x \in Rows |-> stored'[s][x].by]]
  BY DEF Written
<1>4. Written' = [Written EXCEPT ![r] = saved]
  BY <1>2, <1>3 DEF Written
<1> QED BY <1>4

\* Each step of the writer is one of the store's, or changes nothing there.
LEMMA StoreStep ==
  ASSUME IInv, [WriterNext]_writerVars
  PROVE  [Store!StoreNext]_Store!storeVars
<1> USE DEF IInv
<1> DEFINE Told == [s \in Repos |-> import[s].result]
<1>1. ASSUME NEW r \in Repos, ImportRepo(r) \/ ImportStep(r)
      PROVE  [Store!StoreNext]_Store!storeVars
  <2>1. PICK new \in Import : Move(r, new)
    BY <1>1, ImportCases
  <2>2. Told' = [Told EXCEPT ![r] = new.result] /\ run' = run
    <3>1. \A s \in Repos : import'[s] = IF s = r THEN new ELSE import[s]
      BY <2>1, Updates DEF Move
    <3>2. run' = run
      BY <1>1, ImportCases
    <3> QED BY <3>1, <3>2
  <2>3. import[r].entry \in SUBSET Children
    BY DEF WriterTypeOK, Import
  <2>4. CASE new.at # "done"
    <3>1. Told' = Told /\ stored' = stored
      BY <2>1, <2>2, <2>4 DEF Move
    <3> QED BY <2>2, <3>1 DEF Store!storeVars
  <2>5. CASE new.at = "done"
    <3>1. Told[r] = "none" /\ new.result \in {"ok", "error"}
      BY <2>1, <2>5 DEF Move, At, AnsweredOnReturn
    <3>2. CASE Saves(r)
      <4>1. Written' = [Written EXCEPT ![r] =
                          [x \in Rows |-> IF x \in import[r].entry \cup {RepoRow} THEN run
                                          ELSE @[x]]]
        BY <3>2, CommitSaves DEF Saves
      <4>2. Store!Save(r)
        BY <2>2, <2>3, <3>1, <4>1 DEF Store!Save, Store!Rows, Rows, Written
      <4> QED BY <4>2 DEF Store!StoreNext
    <3>3. CASE ~Saves(r)
      <4>1. new.result = "error" /\ stored' = stored
        BY <2>1, <2>5, <3>1, <3>3 DEF Move
      <4>2. Store!Refuse(r)
        BY <2>2, <3>1, <4>1 DEF Store!Refuse
      <4> QED BY <4>2 DEF Store!StoreNext
    <3> QED BY <3>2, <3>3
  <2> QED BY <2>4, <2>5
<1>2. CASE NewRun
  BY <1>2 DEF NewRun, NoImport, Store!StoreNext, Store!Rerun
<1>3. CASE UNCHANGED <<run, conn, import, stored>>
  BY <1>3 DEF Store!storeVars
<1> QED BY <1>1, <1>2, <1>3, NextCases

\* The PostgreSQL writer saves each repository whole or not at all, and answers
\* nil only for what it saved, through failed statements, cancellation, lost
\* answers, the end of the process and reruns (lines 37-103).
THEOREM WriterKeepsStorePromise == WriterSpec => KeepsStorePromise
<1>1. WriterInit => Store!StoreInit
  BY DEF WriterInit, NoImport, Rows, Store!StoreInit, Store!Rows
<1> QED BY <1>1, StoreStep, Inductive, PTL DEF WriterSpec, KeepsStorePromise, Store!StoreSpec
=============================================================================
