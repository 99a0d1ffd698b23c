--------------------------- MODULE BigQueryWriter ---------------------------
(***************************************************************************)
(* The runner with the inside of an import: BigQueryWriter.ImportRepo      *)
(* (internal/bqwriter/bqwriter.go).  It appends a repository's rows table  *)
(* by table, without a transaction and with nothing ever taken back.  Rows *)
(* carry the time of their run, so the rows of other runs do not matter    *)
(* and are left out.  A Put appends all its rows or none; the client's own *)
(* retries carry row ids by which BigQuery is taken to drop duplicates.    *)
(***************************************************************************)
EXTENDS Runner, Sequences

CONSTANTS
    Feature_Sbom,   \* Config.Feature_Sbom
    Entries         \* which tables an entry may have rows for

\* Mutant of Tables: the languages first.
TablesLanguagesFirst == <<"repo_languages", "repos", "dockerfile_features",
                          "dockerfile_stages", "ci_config", "sbom_packages">>

\* The order of the appends.
Tables == <<"repos", "repo_languages", "dockerfile_features",
            "dockerfile_stages", "ci_config", "sbom_packages">>

TableNames == {Tables[i] : i \in DOMAIN Tables}

\* There is always the repository's own row, and no stage without Dockerfile.
ASSUME EntriesAssumption ==
    /\ Feature_Sbom \in BOOLEAN
    /\ \A rows \in Entries :
          /\ rows \subseteq TableNames
          /\ "repos" \in rows
          /\ "dockerfile_stages" \in rows => "dockerfile_features" \in rows

VARIABLES
    import,     \* each repository's ImportRepo
    tables      \* how often BigQuery has each repository's rows of each table

writerVars == <<vars, import, tables>>

-----------------------------------------------------------------------------
\* "rows": the tables the entry has rows for; "next": the number of the table
\* whose turn it is; "sent": its request is on its way.
Import == [rows : SUBSET TableNames, next : 1 .. Len(Tables) + 1, sent : BOOLEAN]

WriterTypeOK ==
    /\ TypeOK
    /\ import \in [Repos -> Import]
    /\ tables \in [Repos -> [TableNames -> Nat]]

NoImport == [rows |-> {}, next |-> 1, sent |-> FALSE]

WriterInit ==
    /\ Init
    /\ import = [r \in Repos |-> NoImport]
    /\ tables = [r \in Repos |-> [t \in TableNames |-> 0]]

\* The tables ImportRepo appends to.
Wanted(rows) == IF Feature_Sbom THEN rows ELSE rows \ {"sbom_packages"}

\* It is the turn of this table.
Turn(r, t) == import[r].next \in DOMAIN Tables /\ t = Tables[import[r].next]

\* The rows of the request under way are appended.
Stored(r) == [tables EXCEPT ![r][Tables[import[r].next]] = @ + 1]

\* The request under way is over, and so is the table.
NextTable(r) ==
    import' = [import EXCEPT ![r].next = @ + 1, ![r].sent = FALSE]

-----------------------------------------------------------------------------
\* The entry is converted to rows.
Convert(r) ==
    /\ ImportBegin(r)
    /\ \E rows \in Entries : import' = [import EXCEPT ![r].rows = rows]
    /\ UNCHANGED tables

\* insert returns at once, or is not called, for a table without rows.
NoRows(r) ==
    /\ Alive
    /\ stage[r] = "import"
    /\ \E t \in TableNames \ Wanted(import[r].rows) : Turn(r, t)
    /\ NextTable(r)
    /\ UNCHANGED <<vars, tables>>

\* insert: Put sends nothing under a context that has ended.
insert(r) ==
    /\ Alive
    /\ stage[r] = "import"
    /\ \E t \in Wanted(import[r].rows) : Turn(r, t)
    /\ ~import[r].sent
    /\ ~groupCancelled
    /\ import' = [import EXCEPT ![r].sent = TRUE]
    /\ UNCHANGED <<vars, tables>>

\* Put returns nil.
PutOk(r) ==
    /\ Alive
    /\ import[r].sent
    /\ tables' = Stored(r)
    /\ NextTable(r)
    /\ UNCHANGED vars

\* Mutant of PutFailed: the error is only logged, as PostgresWriter does.
PutFailedLogged(r) ==
    /\ Alive
    /\ import[r].sent
    /\ NextTable(r)
    /\ UNCHANGED <<vars, tables>>

\* Put returns an error, or is cut off: the rows are appended or not, and
\* ImportRepo returns.
PutFailed(r) ==
    /\ import[r].sent
    /\ ImportFailed(r)
    /\ \/ tables' = Stored(r) /\ NextTable(r)
       \/ import' = [import EXCEPT ![r].sent = FALSE] /\ UNCHANGED tables

PutRefused(r) ==
    /\ \E t \in Wanted(import[r].rows) : Turn(r, t)
    /\ ~import[r].sent
    /\ groupCancelled
    /\ ImportFailed(r)
    /\ UNCHANGED <<import, tables>>

\* The last table is done, whatever became of the context meanwhile.
ImportRepoOk(r) ==
    /\ import[r].next \notin DOMAIN Tables
    /\ ImportOk(r)
    /\ UNCHANGED <<import, tables>>

\* The process is gone; a request it had sent may still be served.
ServedLate(r) ==
    /\ ~Alive
    /\ import[r].sent
    /\ tables' = Stored(r)
    /\ NextTable(r)
    /\ UNCHANGED vars

ImportRepo(r) ==
    \/ Convert(r)
    \/ NoRows(r)
    \/ insert(r)
    \/ PutOk(r)
    \/ PutFailed(r)
    \/ PutRefused(r)
    \/ ImportRepoOk(r)

\* Everything of a worker but its import.
OutsideImport(r) ==
    \/ FetchOk(r)
    \/ FetchFailed(r)
    \/ FetchCanceled(r)
    \/ FetchInterrupted(r)
    \/ Release(r)
    \/ GroupDone(r)

WriterNext ==
    \/ (Main \/ Signal \/ \E r \in Repos : OutsideImport(r)) /\ UNCHANGED <<import, tables>>
    \/ \E r \in Repos : ImportRepo(r) \/ ServedLate(r)

WriterSpec == WriterInit /\ [][WriterNext]_writerVars

-----------------------------------------------------------------------------
Has(r, t) == tables[r][t] > 0

\* The repository's rows are there, each once, and no others.
Whole(r) ==
    \A t \in TableNames : tables[r][t] = IF t \in Wanted(import[r].rows) THEN 1 ELSE 0

Missing(r) == \A t \in TableNames : ~Has(r, t)

\* Whenever the process ends, no row of any table is there whose repository is
\* not, and no stage whose Dockerfile is not (lines 60-80): a query that joins
\* them never meets an orphan.
NoOrphans ==
    \A r \in Repos :
        /\ ~Has(r, "repos") => Missing(r)
        /\ Has(r, "dockerfile_stages") => Has(r, "dockerfile_features")

\* Although nothing is ever taken back, a process that ends with status 0 has
\* saved what it imported whole and nothing of anything else, also after
\* signals: a job with half a repository in the tables has failed.
SuccessIsWhole ==
    main = "exited" /\ ExitCode = 0 =>
        \A r \in Repos : IF outcome[r] = "imported" THEN Whole(r) ELSE Missing(r)
=============================================================================
