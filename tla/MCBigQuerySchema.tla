-------------------------- MODULE MCBigQuerySchema --------------------------
(***************************************************************************)
(* Two versions that each have a column the other one lacks, on a table    *)
(* that both need to change; the second one needs another table more.      *)
(***************************************************************************)
EXTENDS BigQuerySchema

CONSTANTS p1, p2, t1, t2, base, new1, new2

TwoVersions ==
    [p \in Processes |-> [t \in Tables |->
        IF t = t1 THEN {base, IF p = p1 THEN new1 ELSE new2} ELSE {base}]]
=============================================================================
