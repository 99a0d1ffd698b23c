---------------------------- MODULE SnapshotJob ----------------------------
(***************************************************************************)
(* What one run of the job promises, without pages, slots, signals or      *)
(* goroutines: repositories are imported a bounded number at a time, and   *)
(* the job reports success only when every import it began has been saved. *)
(* After the job has ended nothing more is begun or saved.                 *)
(***************************************************************************)
EXTENDS Integers, FiniteSets

CONSTANTS Repos, Parallelism

VARIABLES
    importing,  \* repositories being written
    saved,      \* repositories the writer has confirmed
    failed,     \* repositories the writer has refused
    status      \* "running", "ok" or "failed"

jobVars == <<importing, saved, failed, status>>

JobInit ==
    /\ importing = {}
    /\ saved = {}
    /\ failed = {}
    /\ status = "running"

BeginImport(r) ==
    /\ status = "running"
    /\ r \notin importing \cup saved \cup failed
    /\ importing' = importing \cup {r}
    /\ Cardinality(importing') <= Parallelism
    /\ UNCHANGED <<saved, failed, status>>

Save(r) ==
    /\ status = "running"
    /\ r \in importing
    /\ importing' = importing \ {r}
    /\ saved' = saved \cup {r}
    /\ UNCHANGED <<failed, status>>

\* An import that failed, whether or not it got as far as writing.
Refuse(r) ==
    /\ status = "running"
    /\ r \notin saved \cup failed
    /\ importing' = importing \ {r}
    /\ failed' = failed \cup {r}
    /\ UNCHANGED <<saved, status>>

Succeed ==
    /\ status = "running"
    /\ importing = {}
    /\ failed = {}
    /\ status' = "ok"
    /\ UNCHANGED <<importing, saved, failed>>

\* A failing job may cut imports off.
Fail ==
    /\ status = "running"
    /\ status' = "failed"
    /\ UNCHANGED <<importing, saved, failed>>

JobNext ==
    \/ \E r \in Repos : BeginImport(r) \/ Save(r) \/ Refuse(r)
    \/ Succeed
    \/ Fail

JobSpec == JobInit /\ [][JobNext]_jobVars
=============================================================================
