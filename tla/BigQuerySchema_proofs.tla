----------------------- MODULE BigQuerySchema_proofs -----------------------
(***************************************************************************)
(* Proofs about the start of BigQuery writers, for any number of           *)
(* processes, tables and columns.                                          *)
(***************************************************************************)
EXTENDS BigQuerySchema, TLAPS

Proc == [at : {"loop", "create", "update", "serving", "exited"},
         todo : SUBSET Tables, table : Tables, seen : SUBSET Columns,
         seenETag : Nat, why : {"none", "error", "conflict"}]

SchemaTypeOK ==
    /\ columns \in [Tables -> SUBSET Columns]
    /\ etag \in [Tables -> Nat]
    /\ touched \in BOOLEAN
    /\ proc \in [Processes -> Proc]

\* What a process read is still so if the ETag is, and ETags only grow.
SeenIsCurrent ==
    \A p \in Processes : proc[p].at = "update" =>
        LET t == proc[p].table IN
        /\ proc[p].seenETag <= etag[t]
        /\ proc[p].seenETag = etag[t] => proc[p].seen = columns[t]

\* A table that is off the list has the columns, and keeps them.
EnsuredHasColumns ==
    \A p \in Processes :
        /\ proc[p].at # "exited" =>
              \A t \in Tables \ proc[p].todo : Wants[p][t] \subseteq columns[t]
        /\ proc[p].at = "serving" => proc[p].todo = {}

\* A process that has met no conflict, and will not if it moves next.
Unbeaten(p) ==
    /\ proc[p].why # "conflict"
    /\ proc[p].at = "create" => ~Exists(proc[p].table)
    /\ proc[p].at = "update" => etag[proc[p].table] = proc[p].seenETag

\* Whoever made the last change is unbeaten.
WinnerInv == ~touched => \E p \in Processes : Unbeaten(p)

\* A reason is given only by a process that has exited.
WhyInv == \A p \in Processes : proc[p].at # "exited" => proc[p].why = "none"

IInv == SchemaTypeOK /\ SeenIsCurrent /\ EnsuredHasColumns /\ WhyInv /\ WinnerInv

-----------------------------------------------------------------------------
\* The invariant holds when the first processes start.
LEMMA InitHolds == SchemaInit => IInv
<1> SUFFICES ASSUME SchemaInit PROVE IInv
  OBVIOUS
<1>1. Started \in Proc
  BY StartAssumption DEF Started, Proc
<1>2. SchemaTypeOK
  BY <1>1 DEF SchemaInit, SchemaTypeOK
<1>3. Started.at = "loop" /\ Started.todo = Tables /\ Started.why = "none"
  BY DEF Started
<1>4. \A p \in Processes : proc[p] = Started
  BY DEF SchemaInit
<1>5. SeenIsCurrent /\ EnsuredHasColumns /\ WhyInv
  BY <1>3, <1>4 DEF SeenIsCurrent, EnsuredHasColumns, WhyInv
<1>6. \A p \in Processes : Unbeaten(p)
  BY <1>3, <1>4 DEF Unbeaten
<1>7. WinnerInv
  BY <1>6, StartAssumption DEF WinnerInv
<1> QED BY <1>2, <1>5, <1>7 DEF IInv

\* Every step is one process's, or somebody else's touch.
LEMMA NextCases ==
  ASSUME [SchemaNext]_schemaVars
  PROVE  \/ UNCHANGED schemaVars
         \/ \E p \in Processes, t \in Tables :
               MetadataFound(p, t) \/ MetadataMissing(p, t) \/ MetadataFailed(p, t)
         \/ \E p \in Processes :
               \/ Create(p) \/ CreateFailed(p) \/ Update(p) \/ UpdateFailed(p)
               \/ WriterReady(p) \/ Restart(p)
         \/ \E t \in Tables : Touch(t)
BY DEF SchemaNext, EnsureStep

\* What becomes of a process stays a process.
LEMMA ProcType ==
  ASSUME SchemaTypeOK, NEW p \in Processes, NEW t \in Tables
  PROVE  /\ proc[p] \in Proc
         /\ [proc[p] EXCEPT !.at = "loop", !.todo = @ \ {t}] \in Proc
         /\ \A why \in {"error", "conflict"} :
               [proc[p] EXCEPT !.at = "exited", !.why = why] \in Proc
         /\ [proc[p] EXCEPT !.at = "update", !.table = t, !.seen = columns[t],
                            !.seenETag = etag[t]] \in Proc
         /\ [proc[p] EXCEPT !.at = "create", !.table = t] \in Proc
         /\ [proc[p] EXCEPT !.at = "serving"] \in Proc
         /\ Started \in Proc
<1>1. proc[p] \in Proc /\ columns[t] \in SUBSET Columns /\ etag[t] \in Nat
  BY DEF SchemaTypeOK
<1>2. Started \in Proc
  BY StartAssumption DEF Started, Proc
<1> QED BY <1>1, <1>2 DEF Proc

\* ... whichever process it is.
LEMMA BecomeType ==
  ASSUME SchemaTypeOK, NEW p \in Processes, NEW new \in Proc, Become(p, new)
  PROVE  proc' \in [Processes -> Proc]
BY DEF Become, SchemaTypeOK

\* A change of a table leaves tables of the same kind.
LEMMA PutType ==
  ASSUME SchemaTypeOK, NEW t \in Tables, NEW cols \in SUBSET Columns, Put(t, cols)
  PROVE  /\ columns' \in [Tables -> SUBSET Columns]
         /\ etag' \in [Tables -> Nat]
         /\ touched' \in BOOLEAN
BY DEF Put, SchemaTypeOK

\* The columns that Create and Update send.
LEMMA ColumnsType ==
  ASSUME SchemaTypeOK, NEW p \in Processes
  PROVE  /\ proc[p].table \in Tables
         /\ Wants[p][proc[p].table] \in SUBSET Columns
         /\ Merged(p) \in SUBSET Columns
<1>1. proc[p].table \in Tables /\ proc[p].seen \in SUBSET Columns
  BY DEF SchemaTypeOK, Proc
<1>2. Wants[p][proc[p].table] \in SUBSET Columns
  BY <1>1, WantsAssumption
<1> QED BY <1>1, <1>2 DEF Merged

\* Each kind of step keeps the types.
LEMMA TypeStep ==
  ASSUME SchemaTypeOK, [SchemaNext]_schemaVars
  PROVE  SchemaTypeOK'
<1>1. CASE UNCHANGED schemaVars
  BY <1>1 DEF schemaVars, SchemaTypeOK
<1>2. ASSUME NEW p \in Processes, NEW t \in Tables,
             MetadataFound(p, t) \/ MetadataMissing(p, t) \/ MetadataFailed(p, t)
      PROVE  SchemaTypeOK'
  <2>1. UNCHANGED <<columns, etag, touched>>
    BY <1>2 DEF MetadataFound, MetadataMissing, MetadataFailed
  <2>2. \E new \in Proc : Become(p, new)
    BY <1>2, ProcType DEF MetadataFound, MetadataMissing, MetadataFailed, Ensured, Quit
  <2> QED BY <2>1, <2>2, BecomeType DEF SchemaTypeOK
<1>3. ASSUME NEW p \in Processes, Create(p) \/ CreateFailed(p) \/ Update(p) \/ UpdateFailed(p)
      PROVE  SchemaTypeOK'
  <2>1. \/ UNCHANGED <<columns, etag, touched>>
        \/ \E t \in Tables, cols \in SUBSET Columns : Put(t, cols)
    BY <1>3, ColumnsType DEF Create, CreateFailed, Update, UpdateFailed
  <2>2. /\ columns' \in [Tables -> SUBSET Columns]
        /\ etag' \in [Tables -> Nat]
        /\ touched' \in BOOLEAN
    BY <2>1, PutType DEF SchemaTypeOK
  <2>3. \E new \in Proc : Become(p, new)
    BY <1>3, ColumnsType, ProcType
    DEF Create, CreateFailed, Update, UpdateFailed, Ensured, Quit
  <2> QED BY <2>2, <2>3, BecomeType DEF SchemaTypeOK
<1>4. ASSUME NEW p \in Processes, WriterReady(p) \/ Restart(p)
      PROVE  SchemaTypeOK'
  <2>1. \E new \in Proc : Become(p, new)
    BY <1>4, ProcType, StartAssumption DEF WriterReady, Restart
  <2> QED BY <1>4, <2>1, BecomeType DEF WriterReady, Restart, SchemaTypeOK
<1>5. ASSUME NEW t \in Tables, Touch(t)
      PROVE  SchemaTypeOK'
  BY <1>5 DEF Touch, SchemaTypeOK
<1> QED BY <1>1, <1>2, <1>3, <1>4, <1>5, NextCases

\* A table's columns change only together with its ETag, which then grows, and
\* no column is lost: an update that BigQuery accepts merged what is there.
LEMMA TablesGrow ==
  ASSUME SchemaTypeOK, SeenIsCurrent, [SchemaNext]_schemaVars, NEW t \in Tables
  PROVE  /\ columns[t] \subseteq columns'[t]
         /\ \/ columns'[t] = columns[t] /\ etag'[t] = etag[t]
            \/ etag'[t] = etag[t] + 1
<1>1. CASE UNCHANGED <<columns, etag>>
  BY <1>1
<1>2. ASSUME NEW p \in Processes, Create(p) \/ CreateFailed(p)
      PROVE  \/ UNCHANGED <<columns, etag>>
             \/ ~Exists(proc[p].table) /\ Put(proc[p].table, Wants[p][proc[p].table])
  BY <1>2 DEF Create, CreateFailed
<1>3. ASSUME NEW p \in Processes, Update(p) \/ UpdateFailed(p)
      PROVE  \/ UNCHANGED <<columns, etag>>
             \/ columns[proc[p].table] \subseteq Merged(p) /\ Put(proc[p].table, Merged(p))
  BY <1>3 DEF Update, UpdateFailed, Merged, SeenIsCurrent
<1>4. ASSUME NEW u \in Tables, NEW cols, columns[u] \subseteq cols, Put(u, cols)
      PROVE  /\ columns[t] \subseteq columns'[t]
             /\ \/ columns'[t] = columns[t] /\ etag'[t] = etag[t]
                \/ etag'[t] = etag[t] + 1
  BY <1>4 DEF Put, SchemaTypeOK
<1>5. \A p \in Processes : proc[p].table \in Tables
  BY DEF SchemaTypeOK, Proc
<1>6. ASSUME NEW u \in Tables, Touch(u)
      PROVE  columns' = columns /\ (etag'[t] = etag[t] \/ etag'[t] = etag[t] + 1)
  BY <1>6 DEF Touch, SchemaTypeOK
<1>7. ASSUME NEW p \in Processes,
             \/ \E u \in Tables :
                   MetadataFound(p, u) \/ MetadataMissing(p, u) \/ MetadataFailed(p, u)
             \/ WriterReady(p)
             \/ Restart(p)
      PROVE  UNCHANGED <<columns, etag>>
  BY <1>7 DEF MetadataFound, MetadataMissing, MetadataFailed, WriterReady, Restart
<1>8. ASSUME NEW p \in Processes, Create(p) \/ CreateFailed(p) \/ Update(p) \/ UpdateFailed(p)
      PROVE  \/ UNCHANGED <<columns, etag>>
             \/ \E u \in Tables, cols \in SUBSET Columns :
                   columns[u] \subseteq cols /\ Put(u, cols)
  <2>1. /\ Wants[p][proc[p].table] \in SUBSET Columns
        /\ Merged(p) \in SUBSET Columns
    BY <1>5, WantsAssumption DEF Merged, SchemaTypeOK, Proc
  <2> QED BY <1>2, <1>3, <1>5, <1>8, <2>1 DEF Exists
<1> QED BY <1>1, <1>4, <1>6, <1>7, <1>8, NextCases DEF schemaVars

\* Only the process that steps changes.
LEMMA Becomes ==
  ASSUME SchemaTypeOK, NEW p \in Processes, NEW new, Become(p, new), NEW q \in Processes
  PROVE  proc'[q] = IF q = p THEN new ELSE proc[q]
BY DEF Become, SchemaTypeOK

\* What one step does to a process: nothing, a new start, an exit, or a step
\* of the loop, after which a table it took off the list has the columns.
LEMMA ProcCases ==
  ASSUME SchemaTypeOK, [SchemaNext]_schemaVars, NEW q \in Processes
  PROVE  \/ proc'[q] = proc[q]
         \/ proc'[q] = Started
         \/ proc'[q].at = "exited" /\ (proc'[q].why = "conflict" => ~Unbeaten(q))
         \/ /\ proc[q].at # "exited"
            /\ proc'[q].why = proc[q].why
            /\ \/ /\ proc'[q].at \in {"create", "serving"}
                  /\ proc'[q].todo = proc[q].todo
                  /\ proc'[q].at = "serving" => proc[q].todo = {}
                  /\ proc'[q].at = "create" => columns'[proc'[q].table] = {}
               \/ /\ proc'[q].at = "update"
                  /\ proc'[q].todo = proc[q].todo
                  /\ proc'[q].table \in Tables
                  /\ proc'[q].seen = columns'[proc'[q].table]
                  /\ proc'[q].seenETag = etag'[proc'[q].table]
               \/ /\ proc'[q].at = "loop"
                  /\ \E t \in Tables : /\ proc'[q].todo = proc[q].todo \ {t}
                                       /\ Wants[q][t] \subseteq columns'[t]
<1> DEFINE Goal == \/ proc'[q] = proc[q]
                   \/ proc'[q] = Started
                   \/ proc'[q].at = "exited" /\ (proc'[q].why = "conflict" => ~Unbeaten(q))
                   \/ /\ proc[q].at # "exited"
                      /\ proc'[q].why = proc[q].why
                      /\ \/ /\ proc'[q].at \in {"create", "serving"}
                            /\ proc'[q].todo = proc[q].todo
                            /\ proc'[q].at = "serving" => proc[q].todo = {}
                            /\ proc'[q].at = "create" => columns'[proc'[q].table] = {}
                         \/ /\ proc'[q].at = "update"
                            /\ proc'[q].todo = proc[q].todo
                            /\ proc'[q].table \in Tables
                            /\ proc'[q].seen = columns'[proc'[q].table]
                            /\ proc'[q].seenETag = etag'[proc'[q].table]
                         \/ /\ proc'[q].at = "loop"
                            /\ \E t \in Tables : /\ proc'[q].todo = proc[q].todo \ {t}
                                                 /\ Wants[q][t] \subseteq columns'[t]
<1>0. proc[q] \in Proc
  BY DEF SchemaTypeOK
<1>1. ASSUME NEW p \in Processes, NEW new, Become(p, new), p # q
      PROVE  Goal
  BY <1>1, Becomes
<1>2. ASSUME NEW t \in Tables, MetadataFound(q, t) PROVE Goal
  <2>1. CASE Lacking(q, t) = {}
    <3>1. proc'[q] = [proc[q] EXCEPT !.at = "loop", !.todo = @ \ {t}]
      BY <1>2, <2>1, Becomes DEF MetadataFound, Ensured
    <3>2. Wants[q][t] \subseteq columns'[t]
      BY <1>2, <2>1 DEF MetadataFound, Lacking
    <3> QED BY <1>0, <1>2, <3>1, <3>2 DEF Proc, MetadataFound
  <2>2. CASE Lacking(q, t) # {}
    <3>1. proc'[q] = [proc[q] EXCEPT !.at = "update", !.table = t,
                                     !.seen = columns[t], !.seenETag = etag[t]]
      BY <1>2, <2>2, Becomes DEF MetadataFound
    <3> QED BY <1>0, <1>2, <3>1 DEF Proc, MetadataFound
  <2> QED BY <2>1, <2>2
<1>3. ASSUME NEW t \in Tables, MetadataMissing(q, t) PROVE Goal
  <2>1. proc'[q] = [proc[q] EXCEPT !.at = "create", !.table = t]
    BY <1>3, Becomes DEF MetadataMissing
  <2>2. proc'[q].table = t /\ columns' = columns
    BY <1>0, <1>3, <2>1 DEF Proc, MetadataMissing
  <2>3. columns'[proc'[q].table] = {}
    BY <1>3, <2>2 DEF MetadataMissing, Exists
  <2> QED BY <1>0, <1>3, <2>1, <2>3 DEF Proc, MetadataMissing
<1>4. ASSUME NEW why, Quit(q, why), why = "conflict" => ~Unbeaten(q) PROVE Goal
  <2>1. proc'[q] = [proc[q] EXCEPT !.at = "exited", !.why = why]
    BY <1>4, Becomes DEF Quit
  <2> QED BY <1>0, <1>4, <2>1 DEF Proc
<1>5. ASSUME NEW t \in Tables, NEW cols, Wants[q][t] \subseteq cols,
             Put(t, cols), Ensured(q, t), proc[q].at # "exited"
      PROVE  Goal
  <2>1. proc'[q] = [proc[q] EXCEPT !.at = "loop", !.todo = @ \ {t}]
    BY <1>5, Becomes DEF Ensured
  <2>2. columns'[t] = cols
    BY <1>5 DEF Put, SchemaTypeOK
  <2> QED BY <1>0, <1>5, <2>1, <2>2 DEF Proc
<1>6. ASSUME WriterReady(q) PROVE Goal
  <2>1. proc'[q] = [proc[q] EXCEPT !.at = "serving"]
    BY <1>6, Becomes DEF WriterReady
  <2> QED BY <1>0, <1>6, <2>1 DEF Proc, WriterReady
<1>7. ASSUME Restart(q) PROVE Goal
  BY <1>7, Becomes DEF Restart
<1>8. ASSUME NEW p \in Processes, NEW t \in Tables,
             MetadataFound(p, t) \/ MetadataMissing(p, t) \/ MetadataFailed(p, t)
      PROVE  Goal
  <2>1. CASE p = q
    BY <1>2, <1>3, <1>4, <1>8, <2>1 DEF MetadataFailed
  <2>2. CASE p # q
    <3>1. \E new : Become(p, new)
      BY <1>8 DEF MetadataFound, MetadataMissing, MetadataFailed, Ensured, Quit
    <3> QED BY <1>1, <2>2, <3>1
  <2> QED BY <2>1, <2>2
<1>9. ASSUME NEW p \in Processes,
             \/ Create(p) \/ CreateFailed(p) \/ Update(p) \/ UpdateFailed(p)
             \/ WriterReady(p) \/ Restart(p)
      PROVE  Goal
  <2>1. CASE p = q
    <3>1. proc[q].table \in Tables
      BY ColumnsType
    <3>2. CASE Create(q)
      BY <1>4, <1>5, <3>1, <3>2 DEF Create, Unbeaten
    <3>3. CASE Update(q)
      BY <1>4, <1>5, <3>1, <3>3 DEF Update, Merged, Unbeaten
    <3> QED BY <1>4, <1>6, <1>7, <1>9, <2>1, <3>2, <3>3 DEF CreateFailed, UpdateFailed
  <2>2. CASE p # q
    <3>1. \E new : Become(p, new)
      BY <1>9 DEF Create, CreateFailed, Update, UpdateFailed, WriterReady, Restart,
                  Ensured, Quit
    <3> QED BY <1>1, <2>2, <3>1
  <2> QED BY <2>1, <2>2
<1>10. CASE UNCHANGED schemaVars \/ \E t \in Tables : Touch(t)
  BY <1>10 DEF schemaVars, Touch
<1> QED BY <1>8, <1>9, <1>10, NextCases

-----------------------------------------------------------------------------
\* SeenIsCurrent is kept: what was just read is current, and what was read
\* earlier is told from what is there by the ETag.
LEMMA SeenStep ==
  ASSUME SchemaTypeOK, SeenIsCurrent, [SchemaNext]_schemaVars
  PROVE  SeenIsCurrent'
<1> SUFFICES ASSUME NEW q \in Processes, proc'[q].at = "update"
             PROVE  /\ proc'[q].seenETag <= etag'[proc'[q].table]
                    /\ proc'[q].seenETag = etag'[proc'[q].table] =>
                          proc'[q].seen = columns'[proc'[q].table]
  BY DEF SeenIsCurrent
<1>1. CASE proc'[q] = proc[q]
  <2> DEFINE t == proc[q].table
  <2>1. /\ proc[q].seenETag <= etag[t]
        /\ proc[q].seenETag = etag[t] => proc[q].seen = columns[t]
    BY <1>1 DEF SeenIsCurrent
  <2>2. t \in Tables /\ proc[q].seenETag \in Nat /\ etag[t] \in Nat
    BY DEF SchemaTypeOK, Proc
  <2>3. \/ columns'[t] = columns[t] /\ etag'[t] = etag[t]
        \/ etag'[t] = etag[t] + 1
    BY <2>2, TablesGrow
  <2> QED BY <1>1, <2>1, <2>2, <2>3
<1>2. CASE /\ proc'[q].table \in Tables
           /\ proc'[q].seen = columns'[proc'[q].table]
           /\ proc'[q].seenETag = etag'[proc'[q].table]
  <2>1. etag'[proc'[q].table] \in Nat
    BY <1>2, TypeStep DEF SchemaTypeOK
  <2> QED BY <1>2, <2>1
<1>3. proc'[q] # Started
  BY DEF Started
<1> QED BY <1>1, <1>2, <1>3, ProcCases

\* EnsuredHasColumns is kept, because no column is ever lost.
LEMMA EnsuredStep ==
  ASSUME SchemaTypeOK, SeenIsCurrent, EnsuredHasColumns, [SchemaNext]_schemaVars
  PROVE  EnsuredHasColumns'
<1> SUFFICES ASSUME NEW q \in Processes
             PROVE  /\ proc'[q].at # "exited" =>
                          \A t \in Tables \ proc'[q].todo : Wants[q][t] \subseteq columns'[t]
                    /\ proc'[q].at = "serving" => proc'[q].todo = {}
  BY DEF EnsuredHasColumns
<1>1. \A t \in Tables : Wants[q][t] \subseteq columns[t] => Wants[q][t] \subseteq columns'[t]
  BY TablesGrow
<1>2. /\ proc[q].at # "exited" =>
            \A t \in Tables \ proc[q].todo : Wants[q][t] \subseteq columns[t]
      /\ proc[q].at = "serving" => proc[q].todo = {}
  BY DEF EnsuredHasColumns
<1>3. Started.at = "loop" /\ Started.todo = Tables
  BY DEF Started
<1> QED BY <1>1, <1>2, <1>3, ProcCases

\* WhyInv is kept.
LEMMA WhyStep ==
  ASSUME SchemaTypeOK, WhyInv, [SchemaNext]_schemaVars
  PROVE  WhyInv'
<1>1. Started.why = "none"
  BY DEF Started
<1> QED BY <1>1, ProcCases DEF WhyInv

\* The unbeaten process stays so while no table changes; who changes one is
\* unbeaten in its place.
LEMMA WinnerStep ==
  ASSUME SchemaTypeOK, WhyInv, WinnerInv, [SchemaNext]_schemaVars
  PROVE  WinnerInv'
<1> SUFFICES ASSUME ~touched'
             PROVE  \E p \in Processes : Unbeaten(p)'
  BY DEF WinnerInv
<1>0. Started.at = "loop"
  BY DEF Started
<1>1. ~touched
  <2>1. \A t \in Tables : ~Touch(t)
    BY DEF Touch
  <2> QED BY <2>1, NextCases
    DEF schemaVars, MetadataFound, MetadataMissing, MetadataFailed, Create, CreateFailed,
        Update, UpdateFailed, WriterReady, Restart, Put
<1>2. PICK w \in Processes : Unbeaten(w)
  BY <1>1 DEF WinnerInv
<1>3. CASE UNCHANGED <<columns, etag>>
  <2>1. CASE proc'[w] = proc[w]
    BY <1>2, <1>3, <2>1 DEF Unbeaten, Exists
  <2>2. CASE proc'[w] # proc[w] /\ proc'[w].at = "exited"
    <3>1. proc'[w].why # "conflict"
      BY <1>0, <1>2, <2>2, ProcCases
    <3> QED BY <2>2, <3>1 DEF Unbeaten
  <2>3. CASE proc'[w] # proc[w] /\ proc'[w].at # "exited"
    <3>1. proc'[w].why # "conflict"
      BY <2>3, WhyStep DEF WhyInv
    <3>2. /\ proc'[w].at = "create" => columns'[proc'[w].table] = {}
          /\ proc'[w].at = "update" => etag'[proc'[w].table] = proc'[w].seenETag
      BY <1>0, <2>3, ProcCases
    <3> QED BY <3>1, <3>2 DEF Unbeaten, Exists
  <2> QED BY <2>1, <2>2, <2>3
<1>4. CASE ~UNCHANGED <<columns, etag>>
  <2>1. PICK p \in Processes :
           \/ Create(p) /\ ~Exists(proc[p].table) /\ Ensured(p, proc[p].table)
           \/ Update(p) /\ Ensured(p, proc[p].table)
           \/ (CreateFailed(p) \/ UpdateFailed(p)) /\ Quit(p, "error")
    <3>1. \A t \in Tables : ~Touch(t)
      BY DEF Touch
    <3> QED BY <1>4, <3>1, NextCases
      DEF schemaVars, MetadataFound, MetadataMissing, MetadataFailed, Create, CreateFailed,
          Update, UpdateFailed, WriterReady, Restart
  <2>2. proc[p] \in Proc
    BY DEF SchemaTypeOK
  <2>3. CASE Ensured(p, proc[p].table)
    <3>1. proc'[p] = [proc[p] EXCEPT !.at = "loop", !.todo = @ \ {proc[p].table}]
      BY <2>3, Becomes DEF Ensured
    <3>2. proc'[p].at = "loop"
      BY <2>2, <3>1 DEF Proc
    <3> QED BY <3>2, WhyStep DEF Unbeaten, WhyInv
  <2>4. CASE Quit(p, "error")
    <3>1. proc'[p] = [proc[p] EXCEPT !.at = "exited", !.why = "error"]
      BY <2>4, Becomes DEF Quit
    <3>2. proc'[p].at = "exited" /\ proc'[p].why = "error"
      BY <2>2, <3>1 DEF Proc
    <3> QED BY <3>2 DEF Unbeaten
  <2> QED BY <2>1, <2>3, <2>4
<1> QED BY <1>3, <1>4

\* The invariant is inductive ...
LEMMA IInvStep ==
  ASSUME IInv, [SchemaNext]_schemaVars
  PROVE  IInv'
BY TypeStep, SeenStep, EnsuredStep, WhyStep, WinnerStep DEF IInv

\* ... and holds throughout.
LEMMA Inductive == SchemaSpec => []IInv
BY InitHolds, IInvStep, PTL DEF SchemaSpec

-----------------------------------------------------------------------------
\* Whatever the versions and however they overlap, a process that imports finds
\* the columns it fills (bqwriter.go lines 41-51 and 408-459).
THEOREM ServingProcessHasColumns == SchemaSpec => []ServingHasColumns
<1>1. IInv => ServingHasColumns
  BY DEF IInv, EnsuredHasColumns, ServingHasColumns
<1> QED BY <1>1, Inductive, PTL

\* Of processes that start together not all exit for a conflict, unless
\* somebody else changes a table (lines 425 and 455).
THEOREM SomebodyIsUnbeaten == SchemaSpec => []NotEveryoneLoses
<1>1. IInv => NotEveryoneLoses
  BY DEF IInv, WinnerInv, Unbeaten, NotEveryoneLoses
<1> QED BY <1>1, Inductive, PTL

\* No column is ever taken away from a table (lines 433-458).
THEOREM NoColumnIsLost == SchemaSpec => ColumnsOnlyGrow
<1>1. ASSUME IInv, [SchemaNext]_schemaVars
      PROVE  [\A t \in Tables : columns[t] \subseteq columns'[t]]_schemaVars
  BY <1>1, TablesGrow DEF IInv
<1> QED BY <1>1, Inductive, PTL DEF SchemaSpec, ColumnsOnlyGrow
=============================================================================
