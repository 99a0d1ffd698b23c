--------------------------- MODULE PostgresWriter ---------------------------
(***************************************************************************)
(* PostgresWriter.ImportRepo (internal/dbwriter/postgresql.go) of several  *)
(* workers, over the runs of one day.  The pool has one connection; an     *)
(* import is one transaction.  What database/sql and the server do (a      *)
(* failed statement spoils the transaction, a cancelled context rolls it   *)
(* back, committing a spoilt one is an error) is modelled as the code      *)
(* meets it.  A statement is one row; their order inside the transaction   *)
(* makes no difference to anyone and is left open.                         *)
(***************************************************************************)
EXTENDS Integers

CONSTANTS
    Repos,          \* the repositories imported
    NoRepo,         \* not a repository
    RepoRow,        \* a repository's row in repos
    Children,       \* its possible rows in the other tables
    NullVersion,    \* the SBOM rows whose version is NULL
    MaxRuns         \* bound: runs of the job on one day

ASSUME WriterAssumption ==
    /\ NoRepo \notin Repos
    /\ RepoRow \notin Children
    /\ NullVersion \subseteq Children
    /\ MaxRuns \in Nat

VARIABLES
    run,        \* number of the present run
    cancelled,  \* the imports' context has ended
    conn,       \* whose transaction has the connection
    import,     \* each repository's ImportRepo
    stored      \* the committed rows: last writer, and how many copies

writerVars == <<run, cancelled, conn, import, stored>>

-----------------------------------------------------------------------------
Rows == Children \cup {RepoRow}

\* "begin": in BeginTx; "repo": about to insert into repos; "rows": inserting
\* the rest, then committing.
NoImport == [at |-> "idle", entry |-> {}, left |-> {}, spoilt |-> FALSE, result |-> "none"]

WriterInit ==
    /\ run = 1
    /\ cancelled = FALSE
    /\ conn = NoRepo
    /\ import = [r \in Repos |-> NoImport]
    /\ stored = [r \in Repos |-> [x \in Rows |-> [by |-> 0, copies |-> 0]]]

At(r, place) == import[r].at = place

Update(r, new) == import' = [import EXCEPT ![r] = new]

\* ImportRepo returns.
Returned(r, result) == [import[r] EXCEPT !.at = "done", !.left = {}, !.result = result]

\* The tables after the entry's statements: ON CONFLICT updates the row that
\* has the same key, and a key with NULL in it equals no other.
Upserted(r, entry) ==
    [x \in Rows |->
        IF x \notin entry \cup {RepoRow} THEN stored[r][x]
        ELSE [by |-> run, copies |-> IF x \in NullVersion THEN stored[r][x].copies + 1 ELSE 1]]

-----------------------------------------------------------------------------
ImportRepo(r) ==
    /\ At(r, "idle")
    /\ \E entry \in SUBSET Children :
          Update(r, [import[r] EXCEPT !.at = "begin", !.entry = entry])
    /\ UNCHANGED <<run, cancelled, conn, stored>>

BeginTx(r) ==
    /\ At(r, "begin")
    /\ conn = NoRepo
    /\ ~cancelled
    /\ conn' = r
    /\ Update(r, [import[r] EXCEPT !.at = "repo"])
    /\ UNCHANGED <<run, cancelled, stored>>

\* No connection was free before the context ended, or none can be opened.
BeginTxFailed(r) ==
    /\ At(r, "begin")
    /\ cancelled \/ conn = NoRepo
    /\ Update(r, Returned(r, "error"))
    /\ UNCHANGED <<run, cancelled, conn, stored>>

InsertOrUpdateRepo(r) ==
    /\ At(r, "repo")
    /\ ~cancelled
    /\ Update(r, [import[r] EXCEPT !.at = "rows", !.left = import[r].entry])
    /\ UNCHANGED <<run, cancelled, conn, stored>>

\* Mutant of InsertOrUpdateRepoFailed: returns without Rollback.
InsertOrUpdateRepoUnrolled(r) ==
    /\ At(r, "repo")
    /\ Update(r, Returned(r, "error"))
    /\ UNCHANGED <<run, cancelled, conn, stored>>

\* The only statement whose error ends the import: Rollback, and return it.
InsertOrUpdateRepoFailed(r) ==
    /\ At(r, "repo")
    /\ conn' = NoRepo
    /\ Update(r, Returned(r, "error"))
    /\ UNCHANGED <<run, cancelled, stored>>

\* The other statements: an error is logged and the next one tried.
InsertRow(r, x) ==
    /\ At(r, "rows")
    /\ x \in import[r].left
    /\ \E fails \in BOOLEAN :
          /\ import[r].spoilt \/ cancelled => fails
          /\ Update(r, [import[r] EXCEPT !.left = @ \ {x}, !.spoilt = @ \/ fails])
    /\ UNCHANGED <<run, cancelled, conn, stored>>

CommitsNothing(r) == import[r].spoilt \/ cancelled

\* Mutant of Commit: its error is logged like the statements' errors.
CommitLogged(r) ==
    /\ At(r, "rows")
    /\ import[r].left = {}
    /\ conn' = NoRepo
    /\ Update(r, Returned(r, "ok"))
    /\ stored' = IF CommitsNothing(r) THEN stored
                 ELSE [stored EXCEPT ![r] = Upserted(r, import[r].entry)]
    /\ UNCHANGED <<run, cancelled>>

Commit(r) ==
    /\ At(r, "rows")
    /\ import[r].left = {}
    /\ conn' = NoRepo
    /\ IF CommitsNothing(r)
         THEN Update(r, Returned(r, "error")) /\ UNCHANGED stored
         ELSE /\ Update(r, Returned(r, "ok"))
              /\ stored' = [stored EXCEPT ![r] = Upserted(r, import[r].entry)]
    /\ UNCHANGED <<run, cancelled>>

\* The connection breaks during the commit, before or after it took effect.
CommitUnanswered(r) ==
    /\ At(r, "rows")
    /\ import[r].left = {}
    /\ conn' = NoRepo
    /\ Update(r, Returned(r, "error"))
    /\ \/ UNCHANGED stored
       \/ /\ ~CommitsNothing(r)
          /\ stored' = [stored EXCEPT ![r] = Upserted(r, import[r].entry)]
    /\ UNCHANGED <<run, cancelled>>

-----------------------------------------------------------------------------
\* Another import failed, or the second stop signal came.
Cancel ==
    /\ ~cancelled
    /\ cancelled' = TRUE
    /\ UNCHANGED <<run, conn, import, stored>>

\* The process ends at any moment, and the job is run again the same day.
NewRun ==
    /\ run < MaxRuns
    /\ run' = run + 1
    /\ cancelled' = FALSE
    /\ conn' = NoRepo
    /\ import' = [r \in Repos |-> NoImport]
    /\ UNCHANGED stored

ImportStep(r) ==
    \/ BeginTx(r)
    \/ BeginTxFailed(r)
    \/ InsertOrUpdateRepo(r)
    \/ InsertOrUpdateRepoFailed(r)
    \/ \E x \in Children : InsertRow(r, x)
    \/ Commit(r)
    \/ CommitUnanswered(r)

WriterNext ==
    \/ \E r \in Repos : ImportRepo(r) \/ ImportStep(r)
    \/ Cancel
    \/ NewRun

\* Every database call returns.
WriterSpec ==
    /\ WriterInit
    /\ [][WriterNext]_writerVars
    /\ \A r \in Repos : WF_writerVars(ImportStep(r))

-----------------------------------------------------------------------------
\* The one connection belongs to the import between its BeginTx and its Commit
\* or Rollback, and to nobody else, however it failed (lines 28 and 38-103).
ConnectionHeld == \A r \in Repos : conn = r <=> At(r, "repo") \/ At(r, "rows")

\* Every import returns: nobody waits for the connection for ever.
ImportsEnd == \A r \in Repos : At(r, "begin") ~> At(r, "done") \/ At(r, "idle")

\* Although statement errors are swallowed, an import saves all rows of its
\* entry or none, nil is returned only if it saved them, and a crash or a rerun
\* at any moment leaves no half of a repository behind.
Store == INSTANCE SnapshotStore WITH
    written <- [r \in Repos |-> [x \in Rows |-> stored[r][x].by]],
    told <- [r \in Repos |-> import[r].result]

KeepsStorePromise == Store!StoreSpec

-----------------------------------------------------------------------------
\* "UNIQUE (repo_id, hentet_dato, name, version)" and "ON CONFLICT ... DO UPDATE"
\* (db/schema.sql line 123, db/queries/sbom_github_packages.sql line 7): a run
\* repeated on the same day does not store a package twice.
RowsAreUnique == \A r \in Repos, x \in Rows : stored[r][x].copies <= 1
=============================================================================
