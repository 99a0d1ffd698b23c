--------------------------- MODULE SnapshotStore ---------------------------
(***************************************************************************)
(* What a writer promises of one day's snapshot, without connections,      *)
(* transactions or statements: a repository's rows are saved all at once   *)
(* or not at all, by the run that has them, and a caller that is told "ok" *)
(* has had its rows saved.  A caller told "error" knows nothing.           *)
(***************************************************************************)
EXTENDS Integers

CONSTANTS Repos, Children, RepoRow

VARIABLES
    run,        \* number of the present run
    written,    \* the run that wrote each row of each repository last, or 0
    told        \* what the present run was told of each repository

storeVars == <<run, written, told>>

Rows == Children \cup {RepoRow}

StoreInit ==
    /\ run = 1
    /\ written = [r \in Repos |-> [x \in Rows |-> 0]]
    /\ told = [r \in Repos |-> "none"]

Save(r) ==
    /\ told[r] = "none"
    /\ \E entry \in SUBSET Children :
          written' = [written EXCEPT ![r] =
                        [x \in Rows |-> IF x \in entry \cup {RepoRow} THEN run ELSE @[x]]]
    /\ \E answer \in {"ok", "error"} : told' = [told EXCEPT ![r] = answer]
    /\ UNCHANGED run

Refuse(r) ==
    /\ told[r] = "none"
    /\ told' = [told EXCEPT ![r] = "error"]
    /\ UNCHANGED <<run, written>>

\* The job is run again, after its end or after a crash.
Rerun ==
    /\ run' = run + 1
    /\ told' = [r \in Repos |-> "none"]
    /\ UNCHANGED written

StoreNext == Rerun \/ \E r \in Repos : Save(r) \/ Refuse(r)

StoreSpec == StoreInit /\ [][StoreNext]_storeVars
=============================================================================
