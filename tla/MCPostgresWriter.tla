-------------------------- MODULE MCPostgresWriter --------------------------
(***************************************************************************)
(* Two imports that compete for the connection, entries of up to two rows  *)
(* besides the repository's own, and a second run on the same day.         *)
(***************************************************************************)
EXTENDS PostgresWriter

CONSTANTS r1, r2, lang, pkg
=============================================================================
