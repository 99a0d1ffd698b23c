-------------------------- MODULE FetchRepo_proofs --------------------------
(***************************************************************************)
(* Proofs about fetches inside a run of the runner, for any repositories   *)
(* with any files.  They rest on the runner's invariant.                   *)
(***************************************************************************)
EXTENDS FetchRepo, Runner_proofs

\* What was cut off is on its way to a worker that will not import it.
CutOffAt(r) ==
    "canceled" \in fetch[r].lost => /\ groupCancelled
                                    /\ stage[r] # "import"
                                    /\ outcome[r] # "imported"

\* Each file is in the entry at most once, and those still to come are not.
FilesAt(r) ==
    LET e == fetch[r] IN
    /\ \A f \in Files : e.files[f] \in {0, 1}
    /\ e.at \in {"sbom", "tree"} => \A f \in Files \ Root : e.files[f] = 0
    /\ e.at = "files" => /\ \A f \in Manifests \ Root : e.files[f] = 0
                         /\ \A f \in e.left : e.files[f] = 0

FetchInv ==
    /\ FetchTypeOK
    /\ IMore
    /\ \A r \in Repos : CutOffAt(r) /\ FilesAt(r)

USE DEF loopVars, poolVars, runVars

-----------------------------------------------------------------------------
(* The fetches inside the runner                                           *)

\* Each step is one of the runner's, or changes nothing there.
LEMMA RunnerSteps == [FetchNext]_fetchVars => [Next]_vars
<1> SUFFICES ASSUME [FetchNext]_fetchVars PROVE [Next]_vars
  OBVIOUS
<1>1. CASE UNCHANGED fetchVars
  BY <1>1 DEF fetchVars
<1>2. CASE Main \/ Signal
  BY <1>2 DEF Next
<1>3. ASSUME NEW r \in Repos, FetchRepoGraphQL(r) PROVE [Next]_vars
  <2>1. CASE \/ GraphQL(r) \/ FetchSBOM(r) \/ FetchRepoTreeREST(r) \/ FilesDone(r)
             \/ \E f \in Dockerfiles : FetchFileContent(r, f)
    BY <2>1
    DEF GraphQL, FetchSBOM, FetchRepoTreeREST, FilesDone, FetchFileContent, Search, Continue
  <2>2. CASE GraphQLFailed(r) \/ Analyse(r)
    BY <2>2 DEF GraphQLFailed, Analyse, Worker, Next
  <2> QED BY <1>3, <2>1, <2>2 DEF FetchRepoGraphQL
<1>4. ASSUME NEW r \in Repos, AfterFetch(r) PROVE Next
  BY <1>4 DEF AfterFetch, Forget, Worker, Next
<1> QED BY <1>1, <1>2, <1>3, <1>4 DEF FetchNext

\* A run with the inside of its fetches is a run of the runner: whatever is proved
\* of the runner, with a fetch as one step, holds with its requests (github.go
\* lines 140-248 in place of app.go line 118).
THEOREM FetchesAreRunner == FetchSpec => Spec
<1>1. FetchInit => Init
  BY DEF FetchInit
<1> QED BY <1>1, RunnerSteps, PTL DEF FetchSpec, Spec

\* So the runner's invariant holds here too.
LEMMA RunnerInvariance == FetchSpec => []IMore
BY FetchesAreRunner, MoreInvariance, PTL

\* No step takes an import back or makes one of a repository that was cut off,
\* and no step undoes the cancellation.
LEMMA RunnerKeepsCut ==
    ASSUME IMore, [Next]_vars, NEW r \in Repos, groupCancelled,
           stage[r] # "import", outcome[r] # "imported"
    PROVE  groupCancelled' /\ stage'[r] # "import" /\ outcome'[r] # "imported"
<1>0. TypeOK /\ CurrentIsListed
  BY DEF IMore, IInv
<1>1. ASSUME NEW q \in Repos,
             FetchOk(q) \/ Importing(q) \/ Finishing(q) \/ Release(q) \/ GroupDone(q)
      PROVE  groupCancelled' /\ stage'[r] # "import" /\ outcome'[r] # "imported"
  <2>1. groupCancelled'
    BY <1>0, <1>1, WorkerChanges DEF groupCancelled, processingCancelled
  <2>2. CASE q # r
    BY <1>0, <1>1, <2>1, <2>2, WorkerChanges
  <2>3. CASE q = r
    <3>1. ~Importing(r)
      BY DEF Importing
    <3>2. CASE FetchOk(r) \/ Release(r) \/ GroupDone(r)
      BY <1>0, <2>1, <3>2 DEF FetchOk, Release, GroupDone, WorkerStep, TypeOK
    <3>3. CASE Finishing(r)
      BY <1>0, <2>1, <3>3 DEF Finishing, Finish, WorkerStep, TypeOK
    <3> QED BY <1>1, <2>3, <3>1, <3>2, <3>3
  <2> QED BY <2>2, <2>3
<1>2. CASE \/ Quiet \/ SlotRefused \/ GroupWait \/ Signal \/ UNCHANGED vars
           \/ \E q \in Repos : TakeRepo(q)
  <2>1. UNCHANGED <<stage, outcome>>
    BY <1>2
    DEF Quiet, Top, PageEmpty, PageCanceled, PageFailed, PageDone, StopInPage, StopAtDebugLimit,
        Exit, SlotRefused, GroupWait, Signal, TakeRepo, vars
  <2> QED BY <1>0, <1>2, <2>1, OtherChanges
<1>3. CASE PageListed
  <2>1. outcome' = outcome /\ (stage'[r] # stage[r] => stage'[r] = "listed")
    BY <1>3 DEF PageListed
  <2> QED BY <1>0, <1>3, <2>1, OtherChanges
<1>4. ASSUME NEW q \in Repos, SkipArchivedRepo(q)
      PROVE  groupCancelled' /\ stage'[r] # "import" /\ outcome'[r] # "imported"
  <2>1. stage'[r] \in {stage[r], "done"} /\ outcome'[r] \in {outcome[r], "archived"}
    BY <1>0, <1>4 DEF SkipArchivedRepo, TypeOK
  <2> QED BY <1>0, <1>4, <2>1, OtherChanges
<1>5. CASE Dispatch
  <2>1. stage'[r] \in {stage[r], "fetch"} /\ outcome' = outcome
    BY <1>0, <1>5 DEF Dispatch, CurrentIsListed, TypeOK
  <2> QED BY <1>0, <1>5, <2>1, OtherChanges
<1> QED BY <1>0, <1>1, <1>2, <1>3, <1>4, <1>5, NextCases

-----------------------------------------------------------------------------
(* Entries                                                                 *)

\* A fetch that has not begun.
LEMMA EmptyIsFetch ==
    /\ NoFetch \in Fetch /\ NoFetch.at = "graphql" /\ NoFetch.lost = {}
    /\ NoFetch.holds = {} /\ NoFetch.left = {}
    /\ \A f \in Files : NoFetch.files[f] = 0
<1>1. "graphql" \in FetchAt /\ [f \in Files |-> 0] \in [Files -> Nat]
  BY DEF FetchAt
<1> QED BY <1>1 DEF NoFetch, Fetch

\* Appending files changes nothing else of an entry.
LEMMA Appended ==
    ASSUME NEW e \in Fetch, NEW more
    PROVE  /\ WithFiles(e, more) \in Fetch
           /\ WithFiles(e, more).left = e.left /\ WithFiles(e, more).lost = e.lost
           /\ WithFiles(e, more).holds = e.holds
           /\ WithFiles(e, more).signs = e.signs /\ WithFiles(e, more).code = e.code
           /\ \A f \in Files : WithFiles(e, more).files[f] =
                                  IF f \in more THEN e.files[f] + 1 ELSE e.files[f]
<1> DEFINE files == [f \in Files |-> IF f \in more THEN e.files[f] + 1 ELSE e.files[f]]
           new == [e EXCEPT !.files = files]
<1>1. e.files \in [Files -> Nat]
  BY DEF Fetch
<1>2. files \in [Files -> Nat]
  BY <1>1
<1>3. WithFiles(e, more) = new
  BY DEF WithFiles, Fetch
<1> HIDE DEF files
<1>4. new.left = e.left /\ new.lost = e.lost /\ new.files = files
      /\ new.holds = e.holds /\ new.signs = e.signs /\ new.code = e.code
  BY DEF Fetch
<1>5. new \in Fetch
  BY <1>2 DEF Fetch
<1>6. \A f \in Files : files[f] = IF f \in more THEN e.files[f] + 1 ELSE e.files[f]
  BY DEF files
<1> HIDE DEF new
<1> QED BY <1>3, <1>4, <1>5, <1>6

\* Losing a request changes nothing but the record of it.
LEMMA Lost ==
    ASSUME NEW e \in Fetch, NEW why \in Reason
    PROVE  /\ Lose(e, why) \in Fetch
           /\ Lose(e, why).left = e.left /\ Lose(e, why).files = e.files
           /\ Lose(e, why).holds = e.holds
           /\ Lose(e, why).lost = e.lost \cup {why}
<1> DEFINE new == [e EXCEPT !.lost = e.lost \cup {why}]
<1>1. Lose(e, why) = new
  BY DEF Lose, Fetch
<1>2. new.left = e.left /\ new.files = e.files /\ new.lost = e.lost \cup {why} /\ new.holds = e.holds
  BY DEF Fetch
<1>3. new \in Fetch
  BY DEF Fetch
<1> HIDE DEF new
<1> QED BY <1>1, <1>2, <1>3

\* A file that the query found lies in the root.
LEMMA FoundInRoot == ASSUME NEW holds PROVE ExtractFiles(holds) \subseteq Root
BY DEF ExtractFiles

-----------------------------------------------------------------------------
(* The steps                                                               *)

\* A repository whose fetch a step leaves alone keeps its part of the invariant.
LEMMA LeftAlone ==
    ASSUME IMore, [Next]_vars, NEW s \in Repos, CutOffAt(s), FilesAt(s), fetch'[s] = fetch[s]
    PROVE  CutOffAt(s)' /\ FilesAt(s)'
<1>1. FilesAt(s)'
  BY DEF FilesAt
<1>2. CutOffAt(s)'
  BY RunnerKeepsCut DEF CutOffAt
<1> QED BY <1>1, <1>2

\* What a fetch has to see to when it goes on.
Sound(e, place) ==
    /\ e \in Fetch /\ place \in FetchAt
    /\ "canceled" \in e.lost => groupCancelled
    /\ \A f \in Files : e.files[f] \in {0, 1}
    /\ place \in {"sbom", "tree"} => \A f \in Files \ Root : e.files[f] = 0
    /\ place = "files" => /\ \A f \in Manifests \ Root : e.files[f] = 0
                          /\ \A f \in e.left : e.files[f] = 0

\* Then it keeps the invariant.
LEMMA Continued ==
    ASSUME FetchInv, NEW r \in Repos, NEW e, NEW place,
           stage[r] = "fetch", Sound(e, place), Continue(r, e, place)
    PROVE  FetchTypeOK' /\ \A s \in Repos : CutOffAt(s)' /\ FilesAt(s)'
<1> DEFINE new == [e EXCEPT !.at = place]
<1>0. TypeOK /\ OutcomeInv /\ IMore /\ fetch \in [Repos -> Fetch]
  BY DEF FetchInv, FetchTypeOK, IMore, IInv
<1>1. new \in Fetch /\ new.at = place /\ new.files = e.files /\ new.left = e.left /\ new.lost = e.lost
  BY DEF Sound, Fetch
<1>2. fetch' = [fetch EXCEPT ![r] = new] /\ UNCHANGED vars
  BY DEF Continue
<1> HIDE DEF new
<1>3. fetch' \in [Repos -> Fetch] /\ fetch'[r] = new /\ \A s \in Repos \ {r} : fetch'[s] = fetch[s]
  BY <1>0, <1>1, <1>2
<1>4. \A s \in Repos \ {r} : CutOffAt(s)' /\ FilesAt(s)'
  BY <1>0, <1>2, <1>3, LeftAlone DEF FetchInv
<1>5. FilesAt(r)'
  BY <1>1, <1>3 DEF FilesAt, Sound
<1>6. UNCHANGED <<stage, outcome, signals, groupErr>> /\ outcome[r] = "none"
  BY <1>0, <1>2 DEF vars, OutcomeInv
<1>7. CutOffAt(r)'
  BY <1>1, <1>3, <1>6 DEF CutOffAt, Sound, groupCancelled, processingCancelled
<1>8. TypeOK'
  BY <1>0, <1>2 DEF vars, TypeOK
<1> QED BY <1>3, <1>4, <1>5, <1>7, <1>8 DEF FetchTypeOK

\* Every request keeps the invariant, whether it is answered or lost.
LEMMA RequestKeeps ==
    ASSUME FetchInv, NEW r \in Repos,
           \/ GraphQL(r) \/ FetchSBOM(r) \/ FetchRepoTreeREST(r) \/ FilesDone(r)
           \/ \E f \in Dockerfiles : FetchFileContent(r, f)
    PROVE  FetchTypeOK' /\ \A s \in Repos : CutOffAt(s)' /\ FilesAt(s)'
<1> DEFINE old == fetch[r]
<1>0. old \in Fetch /\ FilesAt(r) /\ stage[r] = "fetch"
  BY DEF FetchInv, FetchTypeOK, GraphQL, FetchSBOM, FetchRepoTreeREST, FilesDone, FetchFileContent,
         Fetching
<1>1. "canceled" \in old.lost => groupCancelled
  BY DEF FetchInv, CutOffAt
<1>2. {"graphql", "sbom", "tree", "files", "analyse", "entry"} = FetchAt
  BY DEF FetchAt
<1>3. /\ old.files \in [Files -> Nat] /\ old.left \subseteq Dockerfiles \ Root
      /\ \A f \in Files : old.files[f] \in {0, 1}
  BY <1>0 DEF Fetch, FilesAt
<1>4. \A why \in Failures : why \in Reason /\ (why = "canceled" => groupCancelled)
  BY DEF Failures
<1>5. CASE GraphQL(r)
  <2>1. PICK holds \in Contents, code, signs \in BOOLEAN :
           LET e == WithFiles([NoFetch EXCEPT !.holds = holds, !.code = code, !.signs = signs],
                              ExtractFiles(holds))
           IN  IF Feature_Sbom THEN Continue(r, e, "sbom") ELSE Search(r, e)
    BY <1>5 DEF GraphQL
  <2> DEFINE base == [NoFetch EXCEPT !.holds = holds, !.code = code, !.signs = signs]
             e == WithFiles(base, ExtractFiles(holds))
  <2>2. base \in Fetch /\ base.lost = {} /\ base.left = {} /\ \A f \in Files : base.files[f] = 0
    <3> DEFINE none == NoFetch
    <3>1. none \in Fetch /\ none.lost = {} /\ none.left = {} /\ \A f \in Files : none.files[f] = 0
      BY EmptyIsFetch
    <3> HIDE DEF none
    <3> DEFINE new == [none EXCEPT !.holds = holds, !.code = code, !.signs = signs]
    <3>2. holds \in SUBSET Files
      BY FilesAssumption
    <3>3. new \in Fetch /\ new.lost = none.lost /\ new.left = none.left /\ new.files = none.files
      BY <3>1, <3>2 DEF Fetch
    <3>4. base = new
      BY DEF none
    <3> HIDE DEF base, new
    <3> QED BY <3>1, <3>3, <3>4
  <2> HIDE DEF base
  <2> DEFINE found == ExtractFiles(holds)
  <2> HIDE DEF found
  <2>3. e \in Fetch /\ e.lost = {} /\ e.left = {}
        /\ \A f \in Files : e.files[f] = IF f \in found THEN 1 ELSE 0
    <3>1. /\ WithFiles(base, found) \in Fetch
          /\ WithFiles(base, found).left = base.left /\ WithFiles(base, found).lost = base.lost
          /\ \A f \in Files : WithFiles(base, found).files[f] =
                                 IF f \in found THEN base.files[f] + 1 ELSE base.files[f]
      BY <2>2, Appended
    <3>2. e = WithFiles(base, found)
      BY DEF found
    <3> HIDE DEF e
    <3> QED BY <2>2, <3>1, <3>2
  <2> HIDE DEF e
  <2>4. \A place \in {"sbom", "tree", "analyse"} : Sound(e, place)
    BY <1>2, <2>3, FoundInRoot DEF Sound, found
  <2>5. \E place \in {"sbom", "tree", "analyse"} : Continue(r, e, place)
    BY <2>1 DEF Search, base, e
  <2> QED BY <1>0, <2>4, <2>5, Continued
<1>6. CASE FetchSBOM(r)
  <2>1. old.at = "sbom"
    BY <1>6 DEF FetchSBOM, Fetching
  <2>2. Sound(old, "tree") /\ Sound(old, "analyse")
    BY <1>0, <1>1, <1>2, <1>3, <2>1 DEF Sound, FilesAt
  <2>3. ASSUME NEW why \in Failures
        PROVE  Sound(Lose(old, why), "tree") /\ Sound(Lose(old, why), "analyse")
    BY <1>0, <1>4, <2>2, Lost DEF Sound
  <2>4. ASSUME NEW e, Search(r, e)
        PROVE  Continue(r, e, "tree") \/ Continue(r, e, "analyse")
    BY <2>4 DEF Search
  <2>5. CASE Search(r, old)
    BY <1>0, <2>2, <2>4, <2>5, Continued
  <2>6. ASSUME NEW why \in Failures, Search(r, Lose(old, why))
        PROVE  FetchTypeOK' /\ \A s \in Repos : CutOffAt(s)' /\ FilesAt(s)'
    BY <1>0, <2>3, <2>4, <2>6, Continued
  <2> QED BY <1>6, <2>5, <2>6 DEF FetchSBOM
<1>7. CASE FetchRepoTreeREST(r)
  <2> DEFINE e == [old EXCEPT !.left = Candidates(old)]
  <2>1. old.at = "tree"
    BY <1>7 DEF FetchRepoTreeREST, Fetching
  <2>2. Candidates(old) \subseteq Dockerfiles \ Root
    BY DEF Candidates
  <2>3. e \in Fetch /\ e.left = Candidates(old) /\ e.files = old.files /\ e.lost = old.lost
    BY <1>0, <2>2 DEF Fetch
  <2>4. \A f \in Files \ Root : old.files[f] = 0
    BY <1>0, <2>1 DEF FilesAt
  <2> HIDE DEF e
  <2>5. Sound(e, "files")
    BY <1>1, <1>2, <1>3, <2>2, <2>3, <2>4 DEF Sound, Files
  <2>6. Sound(old, "analyse")
    BY <1>0, <1>1, <1>2, <1>3 DEF Sound
  <2>7. ASSUME NEW why \in Failures PROVE Sound(Lose(old, why), "analyse")
    BY <1>0, <1>4, <2>6, Lost DEF Sound
  <2>8. CASE Continue(r, e, "files")
    BY <1>0, <2>5, <2>8, Continued
  <2>9. ASSUME NEW why \in Failures, Continue(r, Lose(old, why), "analyse")
        PROVE  FetchTypeOK' /\ \A s \in Repos : CutOffAt(s)' /\ FilesAt(s)'
    BY <1>0, <2>7, <2>9, Continued
  <2> QED BY <1>7, <2>8, <2>9 DEF FetchRepoTreeREST, e
<1>8. ASSUME NEW f \in Dockerfiles, FetchFileContent(r, f)
      PROVE  FetchTypeOK' /\ \A s \in Repos : CutOffAt(s)' /\ FilesAt(s)'
  <2> DEFINE e == [old EXCEPT !.left = @ \ {f}]
  <2>1. old.at = "files" /\ f \in old.left
    BY <1>8 DEF FetchFileContent, Fetching
  <2>2. e \in Fetch /\ e.left = old.left \ {f} /\ e.files = old.files /\ e.lost = old.lost
    BY <1>0 DEF Fetch
  <2>3. /\ \A g \in Manifests \ Root : old.files[g] = 0
        /\ \A g \in old.left : old.files[g] = 0
    BY <1>0, <2>1 DEF FilesAt
  <2>4. f \in Files /\ f \notin Manifests
    BY FilesAssumption DEF Files
  <2> HIDE DEF e
  <2>5. Sound(e, "files")
    BY <1>1, <1>2, <1>3, <2>2, <2>3 DEF Sound
  <2>6. ASSUME NEW why \in Failures PROVE Sound(Lose(e, why), "files")
    BY <1>4, <2>2, <2>5, Lost DEF Sound
  <2>7. Sound(WithFiles(e, {f}), "files")
    <3>1. /\ WithFiles(e, {f}) \in Fetch
          /\ WithFiles(e, {f}).left = e.left /\ WithFiles(e, {f}).lost = e.lost
          /\ \A g \in Files : WithFiles(e, {f}).files[g] =
                                 IF g \in {f} THEN e.files[g] + 1 ELSE e.files[g]
      BY <2>2, Appended
    <3> DEFINE new == WithFiles(e, {f})
    <3> HIDE DEF new
    <3>2. \A g \in Files : new.files[g] = IF g = f THEN 1 ELSE old.files[g]
      <4>1. old.files[f] = 0
        BY <2>1, <2>3
      <4>2. e.files = old.files
        BY <2>2
      <4>3. \A g \in Files : new.files[g] = IF g \in {f} THEN old.files[g] + 1 ELSE old.files[g]
        BY <3>1, <4>2 DEF new
      <4> QED BY <2>4, <4>1, <4>3
    <3>3. new \in Fetch /\ new.left = old.left \ {f} /\ ("canceled" \in new.lost => groupCancelled)
      BY <1>1, <2>2, <3>1 DEF new
    <3>4. \A g \in Manifests \ Root : g \in Files /\ g # f
      BY <2>4 DEF Files
    <3>5. \A g \in old.left : g \in Files
      BY <1>3 DEF Files
    <3>6. "files" \in FetchAt
      BY <1>2
    <3>7. \A g \in Files : new.files[g] \in {0, 1}
      BY <1>3, <3>2
    <3>8. \A g \in Manifests \ Root : new.files[g] = 0
      BY <2>3, <3>2, <3>4
    <3>9. \A g \in new.left : new.files[g] = 0
      BY <2>3, <3>2, <3>3, <3>5
    <3> QED BY <3>3, <3>6, <3>7, <3>8, <3>9 DEF Sound, new
  <2>8. CASE Continue(r, WithFiles(e, {f}), "files")
    BY <1>0, <2>7, <2>8, Continued
  <2>9. ASSUME NEW why \in Failures, Continue(r, Lose(e, why), "files")
        PROVE  FetchTypeOK' /\ \A s \in Repos : CutOffAt(s)' /\ FilesAt(s)'
    BY <1>0, <2>6, <2>9, Continued
  <2> QED BY <1>8, <2>8, <2>9 DEF FetchFileContent, e
<1>9. CASE FilesDone(r)
  <2> DEFINE more == FetchDependencyfilesFromTree(old)
  <2>1. old.at = "files" /\ Continue(r, WithFiles(old, more), "analyse")
    BY <1>9 DEF FilesDone, Fetching
  <2>2. more \subseteq Manifests \ Root
    BY DEF FetchDependencyfilesFromTree
  <2>3. \A f \in Manifests \ Root : old.files[f] = 0
    BY <1>0, <2>1 DEF FilesAt
  <2> HIDE DEF more
  <2>4. Sound(WithFiles(old, more), "analyse")
    <3>1. /\ WithFiles(old, more) \in Fetch
          /\ WithFiles(old, more).left = old.left /\ WithFiles(old, more).lost = old.lost
          /\ \A g \in Files : WithFiles(old, more).files[g] =
                                 IF g \in more THEN old.files[g] + 1 ELSE old.files[g]
      BY <1>0, Appended
    <3> QED BY <1>1, <1>2, <1>3, <2>2, <2>3, <3>1 DEF Sound
  <2> QED BY <1>0, <2>1, <2>4, Continued
<1> QED BY <1>5, <1>6, <1>7, <1>8, <1>9

\* The lockfile analysis returns pairs of a manifest and lockfiles.
LEMMA PairingsType ==
    ASSUME NEW files \in SUBSET Files
    PROVE  DetectLockfilePairings(files)
              \subseteq [manifest : DOMAIN LockfilesOf, lockfile : SUBSET Manifests]
<1>1. ASSUME NEW m \in DOMAIN LockfilesOf PROVE FoundLockfile(m, files) \subseteq Manifests
  BY FilesAssumption DEF FoundLockfile
<1> QED BY <1>1 DEF DetectLockfilePairings

\* The end of a fetch keeps the invariant.
LEMMA AnalyseKeeps ==
    ASSUME FetchInv, TypeOK', NEW r \in Repos, Analyse(r)
    PROVE  FetchTypeOK' /\ \A s \in Repos : CutOffAt(s)' /\ FilesAt(s)'
<1> DEFINE pairs == DetectLockfilePairings(InEntry(fetch[r]))
           new == [fetch[r] EXCEPT !.at = "entry", !.pairings = pairs]
<1>0. IMore /\ fetch \in [Repos -> Fetch] /\ fetch[r] \in Fetch /\ CutOffAt(r) /\ FilesAt(r)
  BY DEF FetchInv, FetchTypeOK
<1>1. [Next]_vars
  BY DEF Analyse, Worker, Next
<1>2. pairs \subseteq [manifest : DOMAIN LockfilesOf, lockfile : SUBSET Manifests]
  BY PairingsType DEF InEntry
<1>3. fetch' = [fetch EXCEPT ![r] = new]
  BY <1>0 DEF Analyse
<1> HIDE DEF pairs
<1>4. "entry" \in FetchAt
  BY DEF FetchAt
<1>5. new \in Fetch /\ new.at = "entry" /\ new.files = fetch[r].files /\ new.lost = fetch[r].lost
  BY <1>0, <1>2, <1>4 DEF Fetch
<1> HIDE DEF new
<1>6. fetch' \in [Repos -> Fetch] /\ fetch'[r] = new /\ \A s \in Repos \ {r} : fetch'[s] = fetch[s]
  BY <1>0, <1>3, <1>5
<1>7. \A s \in Repos \ {r} : CutOffAt(s)' /\ FilesAt(s)'
  BY <1>0, <1>1, <1>6, LeftAlone DEF FetchInv
<1>8. FilesAt(r)'
  BY <1>0, <1>5, <1>6 DEF FilesAt
<1>9. CutOffAt(r)'
  BY <1>0, <1>1, <1>5, <1>6, RunnerKeepsCut DEF CutOffAt
<1> QED BY <1>6, <1>7, <1>8, <1>9 DEF FetchTypeOK

\* A forgotten entry is an empty one.
LEMMA ForgetKeeps ==
    ASSUME FetchInv, TypeOK', NEW r \in Repos, Forget(r)
    PROVE  FetchTypeOK' /\ \A s \in Repos : CutOffAt(s)' /\ FilesAt(s)'
<1>0. IMore /\ fetch \in [Repos -> Fetch]
  BY DEF FetchInv, FetchTypeOK
<1>1. [Next]_vars
  BY DEF Forget, Worker, Next
<1>2. /\ NoFetch \in Fetch /\ NoFetch.at = "graphql" /\ NoFetch.lost = {}
      /\ \A f \in Files : NoFetch.files[f] = 0
  BY EmptyIsFetch
<1>3. /\ fetch' \in [Repos -> Fetch] /\ fetch'[r] = NoFetch
      /\ \A s \in Repos \ {r} : fetch'[s] = fetch[s]
  BY <1>0, <1>2 DEF Forget
<1>4. \A s \in Repos \ {r} : CutOffAt(s)' /\ FilesAt(s)'
  BY <1>0, <1>1, <1>3, LeftAlone DEF FetchInv
<1>5. CutOffAt(r)' /\ FilesAt(r)'
  BY <1>2, <1>3 DEF CutOffAt, FilesAt
<1> QED BY <1>3, <1>4, <1>5 DEF FetchTypeOK

\* The invariant holds throughout.
LEMMA FetchInvariance == FetchSpec => []FetchInv
<1>1. FetchInit /\ IMore => FetchInv
  <2> SUFFICES ASSUME FetchInit, IMore PROVE FetchInv
    OBVIOUS
  <2>1. /\ NoFetch \in Fetch /\ NoFetch.at = "graphql" /\ NoFetch.lost = {}
        /\ \A f \in Files : NoFetch.files[f] = 0
    BY EmptyIsFetch
  <2>2. fetch \in [Repos -> Fetch] /\ \A r \in Repos : fetch[r] = NoFetch
    BY <2>1 DEF FetchInit
  <2>3. \A r \in Repos : CutOffAt(r) /\ FilesAt(r)
    BY <2>1, <2>2 DEF CutOffAt, FilesAt
  <2> QED BY <2>2, <2>3 DEF FetchInv, FetchTypeOK, IMore, IInv
<1>2. FetchInv /\ IMore' /\ [FetchNext]_fetchVars => FetchInv'
  <2> SUFFICES ASSUME FetchInv, IMore', [FetchNext]_fetchVars PROVE FetchInv'
    OBVIOUS
  <2>1. TypeOK' /\ [Next]_vars /\ IMore
    BY RunnerSteps DEF IMore, IInv, FetchInv
  <2>2. CASE UNCHANGED fetch
    <3>1. \A s \in Repos : CutOffAt(s)' /\ FilesAt(s)'
      BY <2>1, <2>2, LeftAlone DEF FetchInv
    <3>2. FetchTypeOK'
      BY <2>1, <2>2 DEF FetchInv, FetchTypeOK
    <3> QED BY <3>1, <3>2 DEF FetchInv
  <2>3. ASSUME NEW r \in Repos, FetchRepoGraphQL(r) PROVE FetchInv' \/ UNCHANGED fetch
    <3>1. CASE GraphQLFailed(r)
      BY <3>1 DEF GraphQLFailed
    <3>2. CASE Analyse(r)
      BY <2>1, <3>2, AnalyseKeeps DEF FetchInv
    <3>3. CASE \/ GraphQL(r) \/ FetchSBOM(r) \/ FetchRepoTreeREST(r) \/ FilesDone(r)
               \/ \E f \in Dockerfiles : FetchFileContent(r, f)
      BY <3>3, RequestKeeps DEF FetchInv
    <3> QED BY <2>3, <3>1, <3>2, <3>3 DEF FetchRepoGraphQL
  <2>4. ASSUME NEW r \in Repos, AfterFetch(r) PROVE FetchInv' \/ UNCHANGED fetch
    <3>1. CASE Forget(r)
      BY <2>1, <3>1, ForgetKeeps DEF FetchInv
    <3> QED BY <2>4, <3>1 DEF AfterFetch
  <2> QED BY <2>2, <2>3, <2>4 DEF FetchNext, fetchVars
<1> QED BY <1>1, <1>2, RunnerInvariance, PTL DEF FetchSpec

-----------------------------------------------------------------------------
(* What an entry holds                                                     *)

\* What the requests have gathered when the fetch comes to this place: files
\* the repository holds, all that the query finds in its root, and if none was
\* lost, all below the root or no reason to look there.
Gathered(e, place) ==
    /\ InEntry(e) \subseteq e.holds /\ e.left \subseteq e.holds
    /\ place # "graphql" => ExtractFiles(e.holds) \subseteq InEntry(e)
    /\ place \in {"sbom", "tree"} => InEntry(e) = ExtractFiles(e.holds)
    /\ place = "files" /\ e.lost = {} => Candidates(e) \subseteq InEntry(e) \cup e.left
    /\ place \in {"analyse", "entry"} /\ e.lost = {} =>
          \/ e.holds \ (Root \cup Ignored) \subseteq InEntry(e)
          \/ InEntry(e) = ExtractFiles(e.holds) /\ ~needsFiletreeFetching(e)

GatheredInv ==
    \A r \in Repos :
        LET e == fetch[r] IN
        /\ Gathered(e, e.at)
        /\ e.at = "entry" => e.pairings = DetectLockfilePairings(InEntry(e))

\* Whether the tree is needed depends on the files, the signs and the code.
LEMMA SameNeed ==
    ASSUME NEW e, NEW d, d.files = e.files, d.signs = e.signs, d.code = e.code,
           ~needsFiletreeFetching(e)
    PROVE  ~needsFiletreeFetching(d)
<1>1. InEntry(d) = InEntry(e)
  BY DEF InEntry
<1> QED BY <1>1
        DEF needsFiletreeFetching, IsMonorepoCandidate, shouldSearchDeepForManifests

\* What is gathered stays so when only the place or the pairings change.
LEMMA SameGathered ==
    ASSUME NEW e, NEW d, NEW place, Gathered(e, place),
           d.files = e.files, d.signs = e.signs, d.code = e.code,
           d.holds = e.holds, d.left = e.left, d.lost = e.lost
    PROVE  Gathered(d, place)
<1>1. InEntry(d) = InEntry(e) /\ Candidates(d) = Candidates(e)
  BY DEF InEntry, Candidates
<1> QED BY <1>1, SameNeed DEF Gathered

\* A swallowed error excuses the fetch from gathering more.
LEMMA LostGathers ==
    ASSUME NEW e \in Fetch, NEW why \in Reason, NEW from, NEW place, Gathered(e, from),
           from # "graphql", place \in {"sbom", "tree"} => from \in {"sbom", "tree"}
    PROVE  Gathered(Lose(e, why), place)
<1> DEFINE d == Lose(e, why)
<1>1. d.files = e.files /\ d.left = e.left /\ d.holds = e.holds /\ d.lost # {}
  BY Lost
<1> HIDE DEF d
<1>2. InEntry(d) = InEntry(e)
  BY <1>1 DEF InEntry
<1> QED BY <1>1, <1>2 DEF Gathered, d

\* The entry with these files appended has them and those it had.
LEMMA AppendedFiles ==
    ASSUME NEW e \in Fetch, NEW more
    PROVE  InEntry(WithFiles(e, more)) = InEntry(e) \cup (more \cap Files)
<1> DEFINE d == WithFiles(e, more)
<1>1. /\ \A f \in Files : d.files[f] = IF f \in more THEN e.files[f] + 1 ELSE e.files[f]
      /\ \A f \in Files : e.files[f] \in Nat
  BY Appended DEF Fetch
<1> HIDE DEF d
<1>2. \A f \in Files : d.files[f] > 0 <=> f \in more \/ e.files[f] > 0
  BY <1>1
<1>3. InEntry(d) = InEntry(e) \cup (more \cap Files)
  BY <1>2 DEF InEntry
<1> QED BY <1>3 DEF d

\* Past the SBOM an entry holds what the query found, and is searched for more
\* if there is a need.
LEMMA SearchGathers ==
    ASSUME NEW r \in Repos, NEW e \in Fetch, Gathered(e, "sbom"), Search(r, e)
    PROVE  \E place \in {"tree", "analyse"} : Gathered(e, place) /\ Continue(r, e, place)
<1>1. CASE needsFiletreeFetching(e)
  <2>1. Continue(r, e, "tree")
    BY <1>1 DEF Search
  <2>2. Gathered(e, "tree")
    BY DEF Gathered
  <2> QED BY <2>1, <2>2
<1>2. CASE ~needsFiletreeFetching(e)
  <2>1. Continue(r, e, "analyse")
    BY <1>2 DEF Search
  <2>2. Gathered(e, "analyse")
    BY <1>2 DEF Gathered
  <2> QED BY <2>1, <2>2
<1> QED BY <1>1, <1>2

\* Every request goes on with what it had to gather.
LEMMA RequestGathers ==
    ASSUME fetch \in [Repos -> Fetch], GatheredInv, NEW r \in Repos,
           \/ GraphQL(r) \/ FetchSBOM(r) \/ FetchRepoTreeREST(r) \/ FilesDone(r)
           \/ \E f \in Dockerfiles : FetchFileContent(r, f)
    PROVE  \E e \in Fetch, place \in {"sbom", "tree", "files", "analyse"} :
              Gathered(e, place) /\ Continue(r, e, place)
<1> DEFINE old == fetch[r]
           Gathers == \E e \in Fetch, place \in {"sbom", "tree", "files", "analyse"} :
                         Gathered(e, place) /\ Continue(r, e, place)
<1>0. old \in Fetch /\ Gathered(old, old.at)
  BY DEF GatheredInv
<1>1. \A why \in Failures : why \in Reason
  BY DEF Failures
<1>2. CASE GraphQL(r)
  <2>1. PICK holds \in Contents, code, signs \in BOOLEAN :
           LET e == WithFiles([NoFetch EXCEPT !.holds = holds, !.code = code, !.signs = signs],
                              ExtractFiles(holds))
           IN  IF Feature_Sbom THEN Continue(r, e, "sbom") ELSE Search(r, e)
    BY <1>2 DEF GraphQL
  <2> DEFINE base == [NoFetch EXCEPT !.holds = holds, !.code = code, !.signs = signs]
             e == WithFiles(base, ExtractFiles(holds))
  <2>2. holds \subseteq Files
    BY FilesAssumption
  <2>3. base \in Fetch /\ base.holds = holds /\ base.left = {} /\ \A f \in Files : base.files[f] = 0
    <3> DEFINE none == NoFetch
    <3>1. none \in Fetch /\ none.left = {} /\ \A f \in Files : none.files[f] = 0
      BY EmptyIsFetch
    <3> HIDE DEF none
    <3> DEFINE new == [none EXCEPT !.holds = holds, !.code = code, !.signs = signs]
    <3>2. new \in Fetch /\ new.holds = holds /\ new.left = none.left /\ new.files = none.files
      BY <2>2, <3>1 DEF Fetch
    <3>3. base = new
      BY DEF none
    <3> HIDE DEF base, new
    <3> QED BY <3>1, <3>2, <3>3
  <2> HIDE DEF base
  <2>4. e \in Fetch /\ e.holds = holds /\ e.left = {}
    <3> DEFINE found == ExtractFiles(holds)
    <3> HIDE DEF found
    <3>1. /\ WithFiles(base, found) \in Fetch
          /\ WithFiles(base, found).left = base.left /\ WithFiles(base, found).holds = base.holds
      BY <2>3, Appended
    <3> QED BY <2>3, <3>1 DEF found
  <2>5. InEntry(base) = {}
    BY <2>3 DEF InEntry
  <2>6. InEntry(e) = ExtractFiles(holds)
    BY <2>2, <2>3, <2>5, AppendedFiles DEF ExtractFiles
  <2> HIDE DEF e
  <2>7. Gathered(e, "sbom")
    BY <2>4, <2>6 DEF Gathered, ExtractFiles
  <2>8. Continue(r, e, "sbom") \/ Search(r, e)
    BY <2>1 DEF base, e
  <2> QED BY <2>4, <2>7, <2>8, SearchGathers
<1>3. CASE FetchSBOM(r)
  <2>1. Gathered(old, "sbom")
    BY <1>0, <1>3 DEF FetchSBOM, Fetching
  <2>2. ASSUME NEW why \in Failures
        PROVE  Lose(old, why) \in Fetch /\ Gathered(Lose(old, why), "sbom")
    BY <1>0, <1>1, <2>1, Lost, LostGathers
  <2>3. CASE Search(r, old)
    BY <1>0, <2>1, <2>3, SearchGathers
  <2>4. ASSUME NEW why \in Failures, Search(r, Lose(old, why)) PROVE Gathers
    BY <2>2, <2>4, SearchGathers
  <2> QED BY <1>3, <2>3, <2>4 DEF FetchSBOM
<1>4. CASE FetchRepoTreeREST(r)
  <2> DEFINE e == [old EXCEPT !.left = Candidates(old)]
  <2>1. Gathered(old, "tree")
    BY <1>0, <1>4 DEF FetchRepoTreeREST, Fetching
  <2>2. Candidates(old) \subseteq Dockerfiles \ Root /\ Candidates(old) \subseteq old.holds
    BY DEF Candidates
  <2>3. /\ e \in Fetch /\ e.left = Candidates(old) /\ e.files = old.files
        /\ e.holds = old.holds
    BY <1>0, <2>2 DEF Fetch
  <2> HIDE DEF e
  <2>4. InEntry(e) = InEntry(old) /\ Candidates(e) = Candidates(old)
    BY <2>3 DEF InEntry, Candidates
  <2>5. Gathered(e, "files")
    BY <2>1, <2>2, <2>3, <2>4 DEF Gathered
  <2>6. ASSUME NEW why \in Failures
        PROVE  Lose(old, why) \in Fetch /\ Gathered(Lose(old, why), "analyse")
    BY <1>0, <1>1, <2>1, Lost, LostGathers
  <2>7. CASE Continue(r, e, "files")
    BY <2>3, <2>5, <2>7
  <2>8. ASSUME NEW why \in Failures, Continue(r, Lose(old, why), "analyse") PROVE Gathers
    BY <2>6, <2>8
  <2> QED BY <1>4, <2>7, <2>8 DEF FetchRepoTreeREST, e
<1>5. ASSUME NEW f \in Dockerfiles, FetchFileContent(r, f) PROVE Gathers
  <2> DEFINE e == [old EXCEPT !.left = @ \ {f}]
             new == WithFiles(e, {f})
  <2>1. Gathered(old, "files") /\ f \in old.left
    BY <1>0, <1>5 DEF FetchFileContent, Fetching
  <2>2. /\ e \in Fetch /\ e.left = old.left \ {f} /\ e.files = old.files
        /\ e.holds = old.holds /\ e.lost = old.lost
    BY <1>0 DEF Fetch
  <2>3. new \in Fetch /\ new.left = e.left /\ new.holds = e.holds /\ new.lost = e.lost
    BY <2>2, Appended
  <2>4. InEntry(new) = InEntry(e) \cup {f}
    BY <2>2, AppendedFiles DEF Files
  <2> HIDE DEF e, new
  <2>5. InEntry(e) = InEntry(old) /\ Candidates(e) = Candidates(old) /\ Candidates(new) = Candidates(old)
    BY <2>2, <2>3 DEF InEntry, Candidates
  <2>6. Gathered(new, "files")
    BY <2>1, <2>2, <2>3, <2>4, <2>5 DEF Gathered
  <2>7. ASSUME NEW why \in Failures
        PROVE  Lose(e, why) \in Fetch /\ Gathered(Lose(e, why), "files")
    <3> DEFINE d == Lose(e, why)
    <3>1. d \in Fetch /\ d.files = e.files /\ d.left = e.left /\ d.holds = e.holds /\ d.lost # {}
      BY <1>1, <2>2, Lost
    <3> HIDE DEF d
    <3>2. InEntry(d) = InEntry(old)
      BY <2>5, <3>1 DEF InEntry
    <3>3. Gathered(d, "files")
      BY <2>1, <2>2, <3>1, <3>2 DEF Gathered
    <3> QED BY <3>1, <3>3 DEF d
  <2>8. CASE Continue(r, new, "files")
    BY <2>3, <2>6, <2>8
  <2>9. ASSUME NEW why \in Failures, Continue(r, Lose(e, why), "files") PROVE Gathers
    BY <2>7, <2>9
  <2> QED BY <1>5, <2>8, <2>9 DEF FetchFileContent, e, new
<1>6. CASE FilesDone(r)
  <2> DEFINE more == FetchDependencyfilesFromTree(old)
             new == WithFiles(old, more)
  <2>1. Gathered(old, "files") /\ old.left = {} /\ Continue(r, new, "analyse")
    BY <1>0, <1>6 DEF FilesDone, Fetching
  <2>2. /\ more \subseteq old.holds /\ more \subseteq Files /\ old.holds \subseteq Files
        /\ old.holds \ (Root \cup Ignored) \subseteq Candidates(old) \cup more
    BY <1>0 DEF FetchDependencyfilesFromTree, Candidates, Fetch, Files
  <2>3. new \in Fetch /\ new.left = old.left /\ new.holds = old.holds /\ new.lost = old.lost
    BY <1>0, Appended
  <2>4. InEntry(new) = InEntry(old) \cup more
    BY <1>0, <2>2, AppendedFiles
  <2> HIDE DEF more, new
  <2>5. Gathered(new, "analyse")
    BY <2>1, <2>2, <2>3, <2>4 DEF Gathered
  <2> QED BY <2>1, <2>3, <2>5
<1> QED BY <1>2, <1>3, <1>4, <1>5, <1>6

\* An empty entry has nothing to answer for.
LEMMA EmptyGathers == NoFetch \in Fetch /\ NoFetch.at = "graphql" /\ Gathered(NoFetch, "graphql")
<1>1. NoFetch \in Fetch /\ NoFetch.holds = {} /\ NoFetch.left = {} /\ NoFetch.at = "graphql"
      /\ \A f \in Files : NoFetch.files[f] = 0
  BY EmptyIsFetch
<1>2. InEntry(NoFetch) = {}
  BY <1>1 DEF InEntry
<1> QED BY <1>1, <1>2 DEF Gathered

\* What is gathered holds throughout.
LEMMA GatheredInvariance == FetchSpec => []GatheredInv
<1>1. FetchInit => GatheredInv
  <2> SUFFICES ASSUME FetchInit PROVE GatheredInv
    OBVIOUS
  <2>1. \A r \in Repos : fetch[r] = NoFetch
    BY DEF FetchInit
  <2> QED BY <2>1, EmptyGathers DEF GatheredInv
<1>2. FetchInv /\ GatheredInv /\ [FetchNext]_fetchVars => GatheredInv'
  <2> SUFFICES ASSUME FetchInv, GatheredInv, [FetchNext]_fetchVars PROVE GatheredInv'
    OBVIOUS
  <2> DEFINE Whole(e) == /\ Gathered(e, e.at)
                         /\ e.at = "entry" => e.pairings = DetectLockfilePairings(InEntry(e))
  <2>0. fetch \in [Repos -> Fetch] /\ \A s \in Repos : Whole(fetch[s])
    BY DEF FetchInv, FetchTypeOK, GatheredInv
  <2>1. ASSUME NEW r \in Repos, NEW new, Whole(new), fetch' = [fetch EXCEPT ![r] = new]
        PROVE  GatheredInv'
    <3> HIDE DEF Whole
    <3>1. \A s \in Repos : fetch'[s] = fetch[s] \/ fetch'[s] = new
      BY <2>0, <2>1
    <3>2. \A s \in Repos : Whole(fetch'[s])
      BY <2>0, <2>1, <3>1
    <3> QED BY <3>2 DEF Whole, GatheredInv
  <2>2. CASE UNCHANGED fetch
    BY <2>2 DEF GatheredInv
  <2>3. ASSUME NEW r \in Repos, FetchRepoGraphQL(r) PROVE GatheredInv'
    <3>1. CASE GraphQLFailed(r)
      BY <2>2, <3>1 DEF GraphQLFailed
    <3>2. CASE Analyse(r)
      <4> DEFINE e == fetch[r]
                 new == [e EXCEPT !.at = "entry", !.pairings = DetectLockfilePairings(InEntry(e))]
      <4>1. e \in Fetch /\ Gathered(e, "analyse") /\ fetch' = [fetch EXCEPT ![r] = new]
        BY <2>0, <3>2 DEF Analyse, Fetching
      <4>2. /\ new.at = "entry" /\ new.pairings = DetectLockfilePairings(InEntry(e))
            /\ new.files = e.files /\ new.signs = e.signs /\ new.code = e.code
            /\ new.holds = e.holds /\ new.left = e.left /\ new.lost = e.lost
        BY <4>1 DEF Fetch
      <4> HIDE DEF new
      <4>3. Gathered(e, "entry")
        BY <4>1 DEF Gathered
      <4>4. Gathered(new, "entry") /\ InEntry(new) = InEntry(e)
        BY <4>2, <4>3, SameGathered DEF InEntry
      <4>5. Whole(new)
        BY <4>2, <4>4
      <4> QED BY <2>1, <4>1, <4>5
    <3>3. CASE \/ GraphQL(r) \/ FetchSBOM(r) \/ FetchRepoTreeREST(r) \/ FilesDone(r)
               \/ \E f \in Dockerfiles : FetchFileContent(r, f)
      <4>1. PICK e \in Fetch, place \in {"sbom", "tree", "files", "analyse"} :
               Gathered(e, place) /\ Continue(r, e, place)
        BY <2>0, <3>3, RequestGathers
      <4> DEFINE new == [e EXCEPT !.at = place]
      <4>2. /\ new.at = place
            /\ new.files = e.files /\ new.signs = e.signs /\ new.code = e.code
            /\ new.holds = e.holds /\ new.left = e.left /\ new.lost = e.lost
        BY DEF Fetch
      <4>3. fetch' = [fetch EXCEPT ![r] = new]
        BY <4>1 DEF Continue
      <4> HIDE DEF new
      <4>4. Gathered(new, place)
        BY <4>1, <4>2, SameGathered
      <4>5. Whole(new)
        BY <4>2, <4>4
      <4> QED BY <2>1, <4>3, <4>5
    <3> QED BY <2>3, <3>1, <3>2, <3>3 DEF FetchRepoGraphQL
  <2>4. ASSUME NEW r \in Repos, AfterFetch(r) PROVE GatheredInv'
    <3>1. CASE Forget(r)
      BY <2>1, <3>1, EmptyGathers DEF Forget
    <3> QED BY <2>2, <2>4, <3>1 DEF AfterFetch
  <2> QED BY <2>2, <2>3, <2>4 DEF FetchNext, fetchVars
<1> QED BY <1>1, <1>2, FetchInvariance, PTL DEF FetchSpec

\* An entry that shows only the root and was not searched gave no reason to be.
LEMMA NoNeed ==
    ASSUME NEW e, InEntry(e) = ExtractFiles(e.holds), ~needsFiletreeFetching(e)
    PROVE  /\ ~(e.signs /\ e.holds \cap Dockerfiles \cap Root = {})
           /\ ~(e.code /\ e.holds \cap Manifests \cap Root \subseteq Capital)
<1>1. e.holds \cap Dockerfiles \cap Root = {} => InEntry(e) \cap Dockerfiles = {}
  BY DEF ExtractFiles
<1>2. e.holds \cap Manifests \cap Root \subseteq Capital => InEntry(e) \cap Manifests = {}
  BY DEF ExtractFiles
<1>3. /\ ~(InEntry(e) \cap Dockerfiles = {} /\ e.signs)
      /\ ~(InEntry(e) \cap Manifests = {} /\ e.code)
  BY Zenon DEF needsFiletreeFetching, IsMonorepoCandidate, shouldSearchDeepForManifests
<1> QED BY <1>1, <1>2, <1>3, Zenon

-----------------------------------------------------------------------------
(* The theorems                                                            *)

\* An entry that a cancellation has cut short is never saved, although the
\* cancellation was swallowed (github.go lines 386-389, 236-247 and 929-932
\* with app.go line 133).
THEOREM CutOffIsNotSaved == FetchSpec => []NothingCutOffIsSaved
<1>1. FetchInv => NothingCutOffIsSaved
  BY DEF FetchInv, CutOffAt, NothingCutOffIsSaved
<1> QED BY <1>1, FetchInvariance, PTL

\* No file comes into an entry twice, by whichever of the three ways (github.go
\* lines 519-559 and 833-913).
THEOREM FilesComeOnce == FetchSpec => []NoFileTwice
<1>1. FetchInv => NoFileTwice
  BY DEF FetchInv, FilesAt, NoFileTwice
<1> QED BY <1>1, FetchInvariance, PTL

\* With no request lost, an entry with a reason to be searched has every file
\* below its root, and the lockfile analysis has paired every manifest
\* (github.go lines 195-206 and 519-559).
THEOREM EntriesAreComplete == FetchSpec => []EntryIsComplete
<1>1. FetchInv /\ GatheredInv => EntryIsComplete
  <2> SUFFICES ASSUME FetchInv, GatheredInv, NEW r \in Repos,
                      fetch[r].at = "entry", fetch[r].lost = {}
               PROVE  LET e == fetch[r] IN
                      /\ {p.manifest : p \in e.pairings} = (InEntry(e) \cap DOMAIN LockfilesOf) \ Ignored
                      /\ \/ e.signs /\ e.holds \cap Dockerfiles \cap Root = {}
                         \/ e.code /\ e.holds \cap Manifests \cap Root \subseteq Capital
                         => e.holds \ (Root \cup Ignored) \subseteq InEntry(e)
    BY DEF EntryIsComplete
  <2> DEFINE e == fetch[r]
  <2>1. Gathered(e, "entry") /\ e.pairings = DetectLockfilePairings(InEntry(e))
    BY DEF GatheredInv
  <2>2. {p.manifest : p \in e.pairings} = (InEntry(e) \cap DOMAIN LockfilesOf) \ Ignored
    <3> DEFINE ms == (InEntry(e) \cap DOMAIN LockfilesOf) \ Ignored
               pair(m) == [manifest |-> m, lockfile |-> FoundLockfile(m, InEntry(e))]
    <3>1. e.pairings = {pair(m) : m \in ms} /\ \A m : pair(m).manifest = m
      BY <2>1 DEF DetectLockfilePairings
    <3> HIDE DEF ms, pair
    <3>2. {p.manifest : p \in e.pairings} = ms
      BY <3>1
    <3> QED BY <3>2 DEF ms
  <2>3. ASSUME InEntry(e) = ExtractFiles(e.holds), ~needsFiletreeFetching(e)
        PROVE  /\ ~(e.signs /\ e.holds \cap Dockerfiles \cap Root = {})
               /\ ~(e.code /\ e.holds \cap Manifests \cap Root \subseteq Capital)
    BY <2>3, NoNeed
  <2>4. \/ e.holds \ (Root \cup Ignored) \subseteq InEntry(e)
        \/ InEntry(e) = ExtractFiles(e.holds) /\ ~needsFiletreeFetching(e)
    BY <2>1 DEF Gathered
  <2> HIDE DEF e
  <2>5. \/ e.signs /\ e.holds \cap Dockerfiles \cap Root = {}
        \/ e.code /\ e.holds \cap Manifests \cap Root \subseteq Capital
        => e.holds \ (Root \cup Ignored) \subseteq InEntry(e)
    BY <2>3, <2>4, Zenon
  <2> QED BY <2>2, <2>5 DEF e
<1> QED BY <1>1, FetchInvariance, GatheredInvariance, PTL

\* A repository whose lockfiles are called complete has a lockfile beside every
\* manifest the query can find, and beside those below the root if there was a
\* reason to look there and nothing was lost (github.go lines 203-206 with
\* lockfileparser.go lines 142-225).
THEOREM VerdictsAreSound == FetchSpec => []VerdictIsSound
<1>1. FetchInv /\ GatheredInv => VerdictIsSound
  <2> SUFFICES ASSUME FetchInv, GatheredInv, NEW r \in Repos, fetch[r].at = "entry",
                      HasCompleteLockfiles(fetch[r].pairings)
               PROVE  LET e == fetch[r]
                          Locked(m) == ToSet(LockfilesOf[m]) \cap e.holds # {}
                          Held == e.holds \cap DOMAIN LockfilesOf
                      IN  /\ \A m \in (Held \cap Root) \ (Capital \cup Ignored) : Locked(m)
                          /\ e.lost = {} /\ (\/ e.signs /\ e.holds \cap Dockerfiles \cap Root = {}
                                             \/ e.holds \cap Manifests \cap Root \subseteq Capital)
                             => \A m \in Held \ (Root \cup Ignored) : Locked(m)
    BY DEF VerdictIsSound
  <2> DEFINE e == fetch[r]
             Locked(m) == ToSet(LockfilesOf[m]) \cap e.holds # {}
             Held == e.holds \cap DOMAIN LockfilesOf
  <2>1. Gathered(e, "entry") /\ e.pairings = DetectLockfilePairings(InEntry(e))
    BY DEF GatheredInv
  <2>2. ASSUME NEW m \in (InEntry(e) \cap DOMAIN LockfilesOf) \ Ignored PROVE Locked(m)
    <3> DEFINE p == [manifest |-> m, lockfile |-> FoundLockfile(m, InEntry(e))]
    <3>1. p \in e.pairings
      BY <2>1, <2>2 DEF DetectLockfilePairings
    <3>2. p.lockfile # {}
      BY <3>1 DEF HasCompleteLockfiles
    <3>3. FoundLockfile(m, InEntry(e)) # {}
      BY <3>2
    <3>4. \E i \in DOMAIN LockfilesOf[m] : LockfilesOf[m][i] \in InEntry(e)
      BY <3>3 DEF FoundLockfile
    <3>5. InEntry(e) \subseteq e.holds
      BY <2>1 DEF Gathered
    <3> QED BY <3>4, <3>5 DEF ToSet
  <2>3. \A m \in (Held \cap Root) \ (Capital \cup Ignored) : Locked(m)
    <3>1. ExtractFiles(e.holds) \subseteq InEntry(e)
      BY <2>1 DEF Gathered
    <3>2. (Held \cap Root) \ (Capital \cup Ignored)
             \subseteq (InEntry(e) \cap DOMAIN LockfilesOf) \ Ignored
      BY <3>1 DEF ExtractFiles
    <3> HIDE DEF Locked
    <3> QED BY <2>2, <3>2
  <2>4. ASSUME e.lost = {}, \/ e.signs /\ e.holds \cap Dockerfiles \cap Root = {}
                            \/ e.holds \cap Manifests \cap Root \subseteq Capital
        PROVE  \A m \in Held \ (Root \cup Ignored) : Locked(m)
    <3> HIDE DEF Locked
    <3>1. CASE e.holds \ (Root \cup Ignored) \subseteq InEntry(e)
      BY <2>2, <3>1
    <3>2. ASSUME InEntry(e) = ExtractFiles(e.holds), ~needsFiletreeFetching(e) PROVE FALSE
      <4>1. ~(e.signs /\ e.holds \cap Dockerfiles \cap Root = {})
        BY <3>2, NoNeed
      <4>2. e.holds \cap Manifests \cap Root \subseteq Capital
        BY <2>4, <4>1
      <4>3. InEntry(e) \cap DOMAIN LockfilesOf = {}
        BY <3>2, <4>2, FilesAssumption DEF ExtractFiles
      <4>4. e.pairings = {}
        BY <2>1, <4>3 DEF DetectLockfilePairings
      <4> QED BY <4>4 DEF HasCompleteLockfiles
    <3> QED BY <2>1, <2>4, <3>1, <3>2 DEF Gathered
  <2> QED BY <2>3, <2>4
<1> QED BY <1>1, FetchInvariance, GatheredInvariance, PTL
=============================================================================
