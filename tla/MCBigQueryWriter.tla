-------------------------- MODULE MCBigQueryWriter --------------------------
(***************************************************************************)
(* Two imports at the same time, of entries with rows for one, for three   *)
(* and for all tables: the failure of one stops the other between any two  *)
(* of its appends.                                                         *)
(***************************************************************************)
EXTENDS BigQueryWriter, TLC

CONSTANTS r1, r2

SmallEntries == {{"repos"}, {"repos", "repo_languages", "ci_config"}, TableNames}

RepoSymmetry == Permutations(Repos)
=============================================================================
