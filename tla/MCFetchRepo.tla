---------------------------- MODULE MCFetchRepo ----------------------------
(***************************************************************************)
(* Two repositories fetched at the same time, so that the failed import of *)
(* one cancels the fetch of the other.  Each holds one of three sets of    *)
(* files, two of them with a Dockerfile below the root; in the root lies   *)
(* another Dockerfile, a manifest with a capital letter, or one without    *)
(* and its second-choice lockfile; below it a manifest with or without a   *)
(* lockfile.                                                               *)
(***************************************************************************)
EXTENDS FetchRepo, TLC

CONSTANTS r1, r2, d0, d1, m0, l0, m1, l1, k0, x1

SmallContents == {{d0, d1, m1, l1, x1}, {k0, d1, m1}, {m0, l0, m1}}

SmallLockfilesOf == m0 :> <<k0, l0>> @@ m1 :> <<l1>> @@ k0 :> <<>> @@ x1 :> <<>>

RepoSymmetry == Permutations(Repos)
=============================================================================
