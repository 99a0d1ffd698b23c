----------------------------- MODULE FetchRepo -----------------------------
(***************************************************************************)
(* The runner with the inside of a fetch: FetchRepoGraphQL                 *)
(* (internal/fetcher/github.go).  One GraphQL query finds what lies at the *)
(* repository's root; the dependency graph (SBOM), the file tree and the   *)
(* contents of Dockerfiles in subdirectories follow as separate requests,  *)
(* whose errors are logged and swallowed.  A request is one step with the  *)
(* outcomes Request gives it, the fetching of its token included; an       *)
(* answer that GraphQL is rate limited repeats the request inside it.      *)
(***************************************************************************)
EXTENDS Runner, SequencesExt

CONSTANTS
    Feature_Sbom,   \* Cfg.Feature_Sbom
    Contents,       \* the sets of files a repository may hold
    Dockerfiles,    \* files with the name and the text of a Dockerfile
    Manifests,      \* manifests and lockfiles of a known ecosystem
    LockfilesOf,    \* manifest -> its ecosystem's lockfiles in its directory, in order
    Root,           \* the files in the root directory
    Capital,        \* the manifests with a capital letter, like Cargo.toml
    Ignored         \* the files below an ignored directory

Files == Dockerfiles \cup Manifests

ASSUME FeatureAssumption == Feature_Sbom \in BOOLEAN
ASSUME FilesAssumption ==
    /\ IsFiniteSet(Files)
    /\ Dockerfiles \cap Manifests = {}
    /\ Contents \subseteq SUBSET Files
    /\ DOMAIN LockfilesOf \subseteq Manifests
    /\ \A m \in DOMAIN LockfilesOf : LockfilesOf[m] \in Seq(Manifests)

VARIABLE fetch      \* each repository's fetch and the entry it builds

fetchVars == <<vars, fetch>>

-----------------------------------------------------------------------------
\* Where the fetch is: in the GraphQL request, the SBOM request, the tree
\* request, the requests for Dockerfiles, or past them all.
FetchAt == {"graphql", "sbom", "tree", "files", "analyse", "entry"}

\* Why a request fails.
Reason == {"error", "canceled", "interrupted"}

\* "holds": what the repository holds; "code", "signs": it has languages, and
\* the signs of a monorepo; "files": how often a file is in the entry; "left":
\* Dockerfiles yet to fetch; "lost": why requests failed whose errors were
\* swallowed (not in the code); "pairings": what the lockfile analysis returned.
Fetch == [at : FetchAt, holds : SUBSET Files, code : BOOLEAN, signs : BOOLEAN,
          files : [Files -> Nat], left : SUBSET (Dockerfiles \ Root),
          lost : SUBSET Reason,
          pairings : SUBSET [manifest : DOMAIN LockfilesOf, lockfile : SUBSET Manifests]]

FetchTypeOK == TypeOK /\ fetch \in [Repos -> Fetch]

NoFetch == [at |-> "graphql", holds |-> {}, code |-> FALSE, signs |-> FALSE,
            files |-> [f \in Files |-> 0], left |-> {}, lost |-> {}, pairings |-> {}]

FetchInit == Init /\ fetch = [r \in Repos |-> NoFetch]

InEntry(e) == {f \in Files : e.files[f] > 0}

\* The entry with these files appended.
WithFiles(e, more) ==
    [e EXCEPT !.files = [f \in Files |-> IF f \in more THEN @[f] + 1 ELSE @[f]]]

\* The two reasons to look below the root.
IsMonorepoCandidate(e) == InEntry(e) \cap Dockerfiles = {} /\ e.signs
shouldSearchDeepForManifests(e) == InEntry(e) \cap Manifests = {} /\ e.code

\* Mutant of needsFiletreeFetching: only monorepos are searched.
NeedsFiletreeOfMonorepo(e) == IsMonorepoCandidate(e)

needsFiletreeFetching(e) == IsMonorepoCandidate(e) \/ shouldSearchDeepForManifests(e)

\* What the GraphQL answer puts into the entry: the names of manifests are
\* looked up in lower case.
ExtractFiles(holds) == (holds \cap Root) \ Capital

\* Mutant of Candidates: files in the root are not skipped.
AllCandidates(e) == e.holds \cap Dockerfiles

\* FetchDockerfilesFromTree: the files of the tree it asks for.
Candidates(e) == (e.holds \cap Dockerfiles) \ Root

FetchDependencyfilesFromTree(e) == (e.holds \cap Manifests) \ (Root \cup Ignored)

-----------------------------------------------------------------------------
\* Mutant of FoundLockfile: the lockfile of any directory will do.
FoundAnywhere(m, files) ==
    IF files \cap UNION {ToSet(LockfilesOf[n]) : n \in DOMAIN LockfilesOf} = {} THEN {}
    ELSE {CHOOSE l \in files : \E n \in DOMAIN LockfilesOf : l \in ToSet(LockfilesOf[n])}

\* The first lockfile beside the manifest, if there is one.
FoundLockfile(m, files) ==
    LET locks == LockfilesOf[m]
        Found == {i \in DOMAIN locks : locks[i] \in files}
    IN  {locks[i] : i \in {j \in Found : \A k \in Found : j <= k}}

DetectLockfilePairings(files) ==
    {[manifest |-> m, lockfile |-> FoundLockfile(m, files)] :
        m \in (files \cap DOMAIN LockfilesOf) \ Ignored}

HasCompleteLockfiles(pairings) == pairings # {} /\ \A p \in pairings : p.lockfile # {}

-----------------------------------------------------------------------------
Fetching(r, place) ==
    /\ Alive
    /\ stage[r] = "fetch"
    /\ fetch[r].at = place

\* The fetch goes on with this entry; nothing outside it changes.
Continue(r, e, place) ==
    /\ fetch' = [fetch EXCEPT ![r] = [e EXCEPT !.at = place]]
    /\ UNCHANGED vars

\* Past the SBOM.
Search(r, e) == Continue(r, e, IF needsFiletreeFetching(e) THEN "tree" ELSE "analyse")

\* A request succeeds only if its context has not ended.
Succeeds == ~groupCancelled

\* Why a request may fail now.
Failures ==
    {why \in Reason : /\ why = "canceled" => groupCancelled
                      /\ why = "interrupted" => shutdownRequested}

Lose(e, why) == [e EXCEPT !.lost = @ \cup {why}]

GraphQL(r) ==
    /\ Fetching(r, "graphql")
    /\ Succeeds
    /\ \E holds \in Contents, code, signs \in BOOLEAN :
          LET e == WithFiles([NoFetch EXCEPT !.holds = holds, !.code = code, !.signs = signs],
                          ExtractFiles(holds))
          IN  IF Feature_Sbom THEN Continue(r, e, "sbom") ELSE Search(r, e)

\* FetchRepoGraphQL returns the error of its first request.
GraphQLFailed(r) ==
    /\ Fetching(r, "graphql")
    /\ FetchFailed(r) \/ FetchCanceled(r) \/ FetchInterrupted(r)
    /\ UNCHANGED fetch

\* fetchSBOM: nil if there is none (404), if it fails, or if it is cut off.
FetchSBOM(r) ==
    /\ Fetching(r, "sbom")
    /\ \/ Succeeds /\ Search(r, fetch[r])
       \/ \E why \in Failures : Search(r, Lose(fetch[r], why))

FetchRepoTreeREST(r) ==
    LET e == fetch[r] IN
    /\ Fetching(r, "tree")
    /\ \/ Succeeds /\ Continue(r, [e EXCEPT !.left = Candidates(e)], "files")
       \/ \E why \in Failures : Continue(r, Lose(e, why), "analyse")

FetchFileContent(r, f) ==
    LET e == [fetch[r] EXCEPT !.left = @ \ {f}] IN
    /\ Fetching(r, "files")
    /\ f \in fetch[r].left
    /\ \/ Succeeds /\ Continue(r, WithFiles(e, {f}), "files")
       \/ \E why \in Failures : Continue(r, Lose(e, why), "files")

FilesDone(r) ==
    /\ Fetching(r, "files")
    /\ fetch[r].left = {}
    /\ Continue(r, WithFiles(fetch[r], FetchDependencyfilesFromTree(fetch[r])), "analyse")

\* DetectLockfilePairings over the entry, which FetchRepoGraphQL then returns.
Analyse(r) ==
    /\ Fetching(r, "analyse")
    /\ FetchOk(r)
    /\ fetch' = [fetch EXCEPT ![r].at = "entry", ![r].pairings = DetectLockfilePairings(InEntry(fetch[r]))]

FetchRepoGraphQL(r) ==
    \/ GraphQL(r)
    \/ GraphQLFailed(r)
    \/ FetchSBOM(r)
    \/ FetchRepoTreeREST(r)
    \/ \E f \in Dockerfiles : FetchFileContent(r, f)
    \/ FilesDone(r)
    \/ Analyse(r)

\* The worker's function returns and its entry is gone.
Forget(r) == Release(r) /\ fetch' = [fetch EXCEPT ![r] = NoFetch]

\* Mutant of AfterFetch: the writer is not given the group's context.
ImportDetached(r) ==
    \/ Forget(r)
    \/ /\ \/ /\ WorkerStep(r, "fetched", "import")
             /\ UNCHANGED <<main, graceful, loopVars, sem, outcome, groupErr, runVars>>
          \/ ImportOk(r) \/ ImportFailed(r) \/ GroupDone(r)
       /\ UNCHANGED fetch

\* The rest of the worker is Runner's.
AfterFetch(r) ==
    \/ Forget(r)
    \/ (ImportBegin(r) \/ ImportOk(r) \/ ImportFailed(r) \/ GroupDone(r)) /\ UNCHANGED fetch

FetchNext ==
    \/ (Main \/ Signal) /\ UNCHANGED fetch
    \/ \E r \in Repos : FetchRepoGraphQL(r) \/ AfterFetch(r)

FetchSpec == FetchInit /\ [][FetchNext]_fetchVars

-----------------------------------------------------------------------------
\* A cancellation is swallowed like any other error, yet an entry it cut short
\* is never saved: the import runs under the context that was cancelled
\* (github.go lines 386-389, 236-247 and 929-932 with app.go line 133).
NothingCutOffIsSaved ==
    \A r \in Repos : outcome[r] = "imported" => "canceled" \notin fetch[r].lost

\* No file is in an entry twice, although the GraphQL answer and the tree show
\* the same root directory and a repository may be searched for manifests
\* while its Dockerfile in the root was found already (lines 833-913).
NoFileTwice == \A r \in Repos, f \in Files : fetch[r].files[f] <= 1

\* When no request was lost, an entry without Dockerfile and with the signs of
\* a monorepo, or with code and no manifest found in the root, has every
\* Dockerfile and every manifest below the root, and the lockfile analysis has
\* paired every manifest (lines 195-206 and 519-559).
EntryIsComplete ==
    \A r \in Repos :
        LET e == fetch[r] IN
        e.at = "entry" /\ e.lost = {} =>
            /\ {p.manifest : p \in e.pairings} = (InEntry(e) \cap DOMAIN LockfilesOf) \ Ignored
            /\ \/ e.signs /\ e.holds \cap Dockerfiles \cap Root = {}
               \/ e.code /\ e.holds \cap Manifests \cap Root \subseteq Capital
               => e.holds \ (Root \cup Ignored) \subseteq InEntry(e)

\* A repository whose lockfiles are called complete holds a lockfile beside each
\* manifest in its root that the query can find, whatever requests were lost;
\* if none was, also beside each manifest below the root that it had a reason
\* to look for (lines 203-206 with lockfileparser.go lines 142-225).
VerdictIsSound ==
    \A r \in Repos :
        LET e == fetch[r]
            Locked(m) == ToSet(LockfilesOf[m]) \cap e.holds # {}
            Held == e.holds \cap DOMAIN LockfilesOf
        IN  e.at = "entry" /\ HasCompleteLockfiles(e.pairings) =>
                /\ \A m \in (Held \cap Root) \ (Capital \cup Ignored) : Locked(m)
                /\ e.lost = {} /\ (\/ e.signs /\ e.holds \cap Dockerfiles \cap Root = {}
                                   \/ e.holds \cap Manifests \cap Root \subseteq Capital)
                   => \A m \in Held \ (Root \cup Ignored) : Locked(m)

-----------------------------------------------------------------------------
\* The test "avbryter rate limit-venting ved forste shutdown-signal" expects
\* that nothing is imported (app_test.go lines 193-214): a repository whose
\* wait the first signal interrupted is not saved.
InterruptedIsNotSaved ==
    \A r \in Repos : outcome[r] = "imported" => "interrupted" \notin fetch[r].lost

\* "Skip root-level files (they were already fetched via GraphQL)" (github.go
\* line 882): the dependency files of the root are in every entry.
RootFilesAreFetched ==
    \A r \in Repos :
        fetch[r].at = "entry" => fetch[r].holds \cap Manifests \cap Root \subseteq InEntry(fetch[r])
=============================================================================
