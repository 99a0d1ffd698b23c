--------------------------- MODULE BigQuerySchema ---------------------------
(***************************************************************************)
(* NewBigQueryWriter with ensureTableExists and syncSchema                 *)
(* (internal/bqwriter/bqwriter.go): when a process starts, it creates the  *)
(* tables that are missing and adds the columns they lack.  Processes of   *)
(* different versions may start at the same time.  The tables, their ETags *)
(* and the conditional update are BigQuery's, as the code uses them.       *)
(***************************************************************************)
EXTENDS Integers

CONSTANTS
    Processes,
    Tables,
    Columns,
    Wants       \* the columns each process's structs have for each table

ASSUME StartAssumption == Processes # {} /\ Tables # {}
ASSUME WantsAssumption == Wants \in [Processes -> [Tables -> (SUBSET Columns) \ {{}}]]

VARIABLES
    columns,    \* the columns of each table; none: there is no such table
    etag,       \* the ETag of each table, as the number of its changes
    touched,    \* somebody else has changed a table's metadata
    proc        \* each process

schemaVars == <<columns, etag, touched, proc>>

-----------------------------------------------------------------------------
\* "loop": between two tables; "create", "update": about to send that request;
\* "serving": NewBigQueryWriter has returned the writer; "exited": it returned
\* an error, and main() ended the process.  "todo": the tables not yet ensured;
\* "table": the one in hand; "seen" and "seenETag": its metadata when it was
\* read; "why": the reason of the exit.
Started == [at |-> "loop", todo |-> Tables, table |-> CHOOSE t \in Tables : TRUE,
            seen |-> {}, seenETag |-> 0, why |-> "none"]

\* Any tables that an earlier version made.
SchemaInit ==
    /\ columns \in [Tables -> SUBSET Columns]
    /\ etag = [t \in Tables |-> 0]
    /\ touched = FALSE
    /\ proc = [p \in Processes |-> Started]

Exists(t) == columns[t] # {}

Become(p, new) == proc' = [proc EXCEPT ![p] = new]

\* The loop goes on without this table.
Ensured(p, t) == Become(p, [proc[p] EXCEPT !.at = "loop", !.todo = @ \ {t}])

Quit(p, reason) == Become(p, [proc[p] EXCEPT !.at = "exited", !.why = reason])

-----------------------------------------------------------------------------
\* Mutant of Lacking: a table that exists is taken as it is.
LackingNothing(p, t) == {}

\* The columns syncSchema has to add.
Lacking(p, t) == Wants[p][t] \ columns[t]

\* The loop takes the next table, in any order: it ranges over a map.
MetadataFound(p, t) ==
    /\ proc[p].at = "loop"
    /\ t \in proc[p].todo
    /\ Exists(t)
    /\ IF Lacking(p, t) = {}
         THEN Ensured(p, t)
         ELSE Become(p, [proc[p] EXCEPT !.at = "update", !.table = t,
                                        !.seen = columns[t], !.seenETag = etag[t]])
    /\ UNCHANGED <<columns, etag, touched>>

\* Status 404.
MetadataMissing(p, t) ==
    /\ proc[p].at = "loop"
    /\ t \in proc[p].todo
    /\ ~Exists(t)
    /\ Become(p, [proc[p] EXCEPT !.at = "create", !.table = t])
    /\ UNCHANGED <<columns, etag, touched>>

\* Mutant of MetadataFailed: any error is taken for a missing table.
MetadataFailedCreates(p, t) ==
    /\ proc[p].at = "loop"
    /\ t \in proc[p].todo
    /\ Become(p, [proc[p] EXCEPT !.at = "create", !.table = t])
    /\ UNCHANGED <<columns, etag, touched>>

MetadataFailed(p, t) ==
    /\ proc[p].at = "loop"
    /\ t \in proc[p].todo
    /\ Quit(p, "error")
    /\ UNCHANGED <<columns, etag, touched>>

\* The table gets these columns, and a new ETag.
Put(t, cols) ==
    /\ columns' = [columns EXCEPT ![t] = cols]
    /\ etag' = [etag EXCEPT ![t] = @ + 1]
    /\ UNCHANGED touched

\* Status 409 if the table exists by now.
Create(p) == LET t == proc[p].table IN
    /\ proc[p].at = "create"
    /\ IF Exists(t)
         THEN Quit(p, "conflict") /\ UNCHANGED <<columns, etag, touched>>
         ELSE Put(t, Wants[p][t]) /\ Ensured(p, t)

\* An error, or no answer: the table may have been created.
CreateFailed(p) == LET t == proc[p].table IN
    /\ proc[p].at = "create"
    /\ Quit(p, "error")
    /\ \/ UNCHANGED <<columns, etag, touched>>
       \/ ~Exists(t) /\ Put(t, Wants[p][t])

\* syncSchema's merged.
Merged(p) == proc[p].seen \cup Wants[p][proc[p].table]

\* Mutant of Update: without the ETag.
UpdateBlindly(p) == LET t == proc[p].table IN
    /\ proc[p].at = "update"
    /\ Put(t, Merged(p))
    /\ Ensured(p, t)

\* Status 412 if the ETag is another one by now.
Update(p) == LET t == proc[p].table IN
    /\ proc[p].at = "update"
    /\ IF etag[t] # proc[p].seenETag
         THEN Quit(p, "conflict") /\ UNCHANGED <<columns, etag, touched>>
         ELSE Put(t, Merged(p)) /\ Ensured(p, t)

UpdateFailed(p) == LET t == proc[p].table IN
    /\ proc[p].at = "update"
    /\ Quit(p, "error")
    /\ \/ UNCHANGED <<columns, etag, touched>>
       \/ etag[t] = proc[p].seenETag /\ Put(t, Merged(p))

WriterReady(p) ==
    /\ proc[p].at = "loop"
    /\ proc[p].todo = {}
    /\ Become(p, [proc[p] EXCEPT !.at = "serving"])
    /\ UNCHANGED <<columns, etag, touched>>

\* The process ends at any moment, and the next run starts.
Restart(p) ==
    /\ Become(p, Started)
    /\ UNCHANGED <<columns, etag, touched>>

\* Somebody else changes a table's metadata; bound: once.
Touch(t) ==
    /\ ~touched
    /\ Exists(t)
    /\ touched' = TRUE
    /\ etag' = [etag EXCEPT ![t] = @ + 1]
    /\ UNCHANGED <<columns, proc>>

EnsureStep(p) ==
    \/ \E t \in Tables :
          MetadataFound(p, t) \/ MetadataMissing(p, t) \/ MetadataFailed(p, t)
    \/ Create(p)
    \/ CreateFailed(p)
    \/ Update(p)
    \/ UpdateFailed(p)
    \/ WriterReady(p)

SchemaNext ==
    \/ \E p \in Processes : EnsureStep(p) \/ Restart(p)
    \/ \E t \in Tables : Touch(t)

SchemaSpec == SchemaInit /\ [][SchemaNext]_schemaVars

-----------------------------------------------------------------------------
\* No process takes a column away, neither one that another version added nor
\* one that was added while syncSchema merged what it had read (lines 433-458).
ColumnsOnlyGrow == [][\A t \in Tables : columns[t] \subseteq columns'[t]]_schemaVars

\* A process that imports finds every column it fills in every table, now and
\* for as long as it runs, whoever started before, meanwhile or after it
\* (lines 41-51).
ServingHasColumns ==
    \A p \in Processes : proc[p].at = "serving" =>
        \A t \in Tables : Wants[p][t] \subseteq columns[t]

\* Processes that start together do not stop each other all: unless somebody
\* else has changed a table, not all of them exit for a conflict (lines 425
\* and 455), because the one that made the last change meets none after it.
NotEveryoneLoses ==
    (\A p \in Processes : proc[p].why = "conflict") => touched
=============================================================================
