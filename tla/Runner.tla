------------------------------- MODULE Runner -------------------------------
(***************************************************************************)
(* One run of the job: App.Run (internal/runner/app.go) and the process    *)
(* around it (cmd/reposnusern/main.go).  The main goroutine walks the      *)
(* pages of the organisation's repositories and starts one worker per      *)
(* repository, at most Parallelism at a time; a worker fetches its         *)
(* repository and imports it.  The first stop signal ends shutdownCtx, the *)
(* second one processingCtx.  Requests and database calls are steps with   *)
(* every outcome the callee can return; their insides are other modules.   *)
(***************************************************************************)
EXTENDS Integers, FiniteSets

CONSTANTS
    Repos,          \* the repositories the organisation's listing returns
    Archived,       \* those of them that are archived
    SkipArchived,   \* Cfg.SkipArchived
    MaxDebugRepos,  \* Cfg.MaxDebugRepos
    Parallelism,    \* Cfg.Parallelism
    NoRepo          \* not a repository

ASSUME ReposAssumption == IsFiniteSet(Repos) /\ NoRepo \notin Repos
ASSUME ConfigAssumption ==
    /\ SkipArchived \in BOOLEAN
    /\ MaxDebugRepos \in Nat \ {0}
    /\ Parallelism \in Nat \ {0}

VARIABLES
    debug,       \* Cfg.Debug: whether this run is a debug run
    main,        \* where the main goroutine is in Run and main()
    current,     \* repository it is about to start a worker for
    debugCount,  \* debugDispatchCount
    graceful,    \* gracefulShutdown
    sem,         \* number of tokens in the semaphore channel
    stage,       \* where each repository is
    outcome,     \* what became of each repository
    groupErr,    \* an import error has been recorded by the errgroup
    signals,     \* stop signals delivered so far
    result,      \* what Run returned
    late         \* workers started after the first signal (not in the code)

loopVars == <<current, debugCount>>
poolVars == <<sem, stage, outcome, groupErr>>
runVars == <<debug, signals, result, late>>
vars == <<main, graceful, loopVars, poolVars, runVars>>

-----------------------------------------------------------------------------
\* "top", "page", "repo": the three places of the page loop; "slot": in
\* acquireWorkerSlot; "wait": in g.Wait; "returned": Run is back in main();
\* "exited": the process is gone and so are its goroutines.
MainAt == {"top", "page", "repo", "slot", "wait", "returned", "exited"}

\* "unseen": on a page not yet fetched; "listed": on the page being walked;
\* "fetch", "fetched", "import", "release", "return": a worker runs;
\* "done": nothing is left to do for it.
Stage == {"unseen", "listed", "fetch", "fetched", "import", "release",
          "return", "done"}

Outcome == {"none", "archived", "imported", "failed", "skipped", "aborted",
            "interrupted"}

\* "nil", or the error: a page could not be listed, a bare context.Canceled
\* from acquireWorkerSlot, or the errgroup's first import error.
Result == {"running", "nil", "page", "canceled", "import"}

TypeOK ==
    /\ debug \in BOOLEAN
    /\ main \in MainAt
    /\ current \in Repos \cup {NoRepo}
    /\ debugCount \in Nat
    /\ graceful \in BOOLEAN
    /\ sem \in Nat
    /\ stage \in [Repos -> Stage]
    /\ outcome \in [Repos -> Outcome]
    /\ groupErr \in BOOLEAN
    /\ signals \in 0 .. 2
    /\ result \in Result
    /\ late \in Nat

Init ==
    /\ debug \in BOOLEAN
    /\ main = "top"
    /\ current = NoRepo
    /\ debugCount = 0
    /\ graceful = FALSE
    /\ sem = 0
    /\ stage = [r \in Repos |-> "unseen"]
    /\ outcome = [r \in Repos |-> "none"]
    /\ groupErr = FALSE
    /\ signals = 0
    /\ result = "running"
    /\ late = 0

\* The three contexts.
shutdownRequested == signals >= 1
processingCancelled == signals = 2
groupCancelled == processingCancelled \/ groupErr

\* Mutant of StopBeforeRepo: the check inside the page loop is missing.
NeverStopInPage == FALSE

\* The check at the top of the loop over one page.
StopBeforeRepo == shutdownRequested

Unseen == {r \in Repos : stage[r] = "unseen"}
Batch == {r \in Repos : stage[r] = "listed"} \ {current}

\* The workers between g.Go and the deferred <-sem, and the goroutines the
\* errgroup still waits for.
Holding == {r \in Repos : stage[r] \in {"fetch", "fetched", "import", "release"}}
Working == {r \in Repos : r \in Holding \/ stage[r] = "return"}

Alive == main # "exited"

-----------------------------------------------------------------------------
(* The page loop of the main goroutine                                     *)

\* The loop ends and Run goes on to g.Wait.
Break(stopped) ==
    /\ main' = "wait"
    /\ graceful' = (graceful \/ stopped)

Top ==
    /\ main = "top"
    /\ IF shutdownRequested
         THEN Break(TRUE)
         ELSE main' = "page" /\ UNCHANGED graceful
    /\ UNCHANGED <<loopVars, poolVars, runVars>>

\* GetReposPage returns some of the repositories it has not returned before.
PageListed ==
    /\ main = "page"
    /\ \E page \in SUBSET Unseen \ {{}} :
          stage' = [r \in Repos |-> IF r \in page THEN "listed" ELSE stage[r]]
    /\ main' = "repo"
    /\ UNCHANGED <<graceful, loopVars, sem, outcome, groupErr, runVars>>

PageEmpty ==
    /\ main = "page"
    /\ Unseen = {}
    /\ Break(FALSE)
    /\ UNCHANGED <<loopVars, poolVars, runVars>>

\* GetReposPage runs under shutdownCtx: it is cancelled by the first signal.
PageCanceled ==
    /\ main = "page"
    /\ shutdownRequested
    /\ Break(TRUE)
    /\ UNCHANGED <<loopVars, poolVars, runVars>>

\* Any other error leaves Run at once, without g.Wait.
PageFailed ==
    /\ main = "page"
    /\ main' = "returned"
    /\ result' = "page"
    /\ UNCHANGED <<graceful, loopVars, poolVars, debug, signals, late>>

PageDone ==
    /\ main = "repo"
    /\ Batch = {}
    /\ main' = "top"
    /\ UNCHANGED <<graceful, loopVars, poolVars, runVars>>

-----------------------------------------------------------------------------
(* The body of the loop over one page                                      *)

StopInPage ==
    /\ main = "repo"
    /\ Batch # {}
    /\ StopBeforeRepo
    /\ Break(TRUE)
    /\ UNCHANGED <<loopVars, poolVars, runVars>>

SkipsRepo(r) == SkipArchived /\ r \in Archived

SkipArchivedRepo(r) ==
    /\ main = "repo"
    /\ r \in Batch
    /\ ~StopBeforeRepo
    /\ SkipsRepo(r)
    /\ stage' = [stage EXCEPT ![r] = "done"]
    /\ outcome' = [outcome EXCEPT ![r] = "archived"]
    /\ UNCHANGED <<main, graceful, loopVars, sem, groupErr, runVars>>

DebugLimitReached == debug /\ debugCount + 1 > MaxDebugRepos

StopAtDebugLimit(r) ==
    /\ main = "repo"
    /\ r \in Batch
    /\ ~StopBeforeRepo
    /\ ~SkipsRepo(r)
    /\ DebugLimitReached
    /\ Break(FALSE)
    /\ UNCHANGED <<loopVars, poolVars, runVars>>

TakeRepo(r) ==
    /\ main = "repo"
    /\ r \in Batch
    /\ ~StopBeforeRepo
    /\ ~SkipsRepo(r)
    /\ ~DebugLimitReached
    /\ debugCount' = IF debug THEN debugCount + 1 ELSE debugCount
    /\ current' = r
    /\ main' = "slot"
    /\ UNCHANGED <<graceful, poolVars, runVars>>

\* Mutant of SlotFree: one slot too many.
SlotFreeOffByOne == sem <= Parallelism

\* The semaphore channel has room.
SlotFree == sem < Parallelism

\* acquireWorkerSlot gets a slot and g.Go starts the worker.  Its select picks
\* any ready case, so a slot may be taken although a context has ended.
Dispatch ==
    /\ main = "slot"
    /\ SlotFree
    /\ sem' = sem + 1
    /\ stage' = [stage EXCEPT ![current] = "fetch"]
    /\ current' = NoRepo
    /\ main' = "repo"
    /\ late' = IF shutdownRequested THEN late + 1 ELSE late
    /\ UNCHANGED <<graceful, debugCount, outcome, groupErr, debug, signals,
                   result>>

\* Mutants of UnreservedCount: the reserved debug slot is not given back; one
\* is given back that was never reserved.
StillReservedCount == debugCount
AlwaysUnreservedCount == debugCount - 1

\* debugDispatchCount once a reserved debug slot is given back.
UnreservedCount == IF debug THEN debugCount - 1 ELSE debugCount

\* acquireWorkerSlot returns context.Canceled: the loop ends if it was told to
\* stop, else Run returns the bare error, again without g.Wait.
SlotRefused ==
    /\ main = "slot"
    /\ shutdownRequested \/ groupCancelled
    /\ debugCount' = UnreservedCount
    /\ current' = NoRepo
    /\ IF shutdownRequested
         THEN Break(TRUE) /\ UNCHANGED result
         ELSE main' = "returned" /\ result' = "canceled" /\ UNCHANGED graceful
    /\ UNCHANGED <<poolVars, debug, signals, late>>

-----------------------------------------------------------------------------
(* The worker of one repository                                            *)

WorkerStep(r, from, to) ==
    /\ Alive
    /\ stage[r] = from
    /\ stage' = [stage EXCEPT ![r] = to]

\* The worker's function ends with this outcome; the deferred <-sem follows.
Finish(r, from, how) ==
    /\ WorkerStep(r, from, "release")
    /\ outcome' = [outcome EXCEPT ![r] = how]
    /\ UNCHANGED <<main, loopVars, sem, groupErr, runVars>>

FetchOk(r) ==
    /\ WorkerStep(r, "fetch", "fetched")
    /\ UNCHANGED <<main, graceful, loopVars, sem, outcome, groupErr, runVars>>

\* GitHub's answer makes the fetch fail: the repository is skipped.
FetchFailed(r) == Finish(r, "fetch", "skipped") /\ UNCHANGED graceful

\* The fetch fails because its context was cancelled: counted as skipped too.
FetchCanceled(r) ==
    /\ groupCancelled
    /\ Finish(r, "fetch", "aborted")
    /\ UNCHANGED graceful

\* Mutant of FetchInterrupted: the run is not marked as stopped.
FetchInterruptedUnmarked(r) ==
    /\ shutdownRequested
    /\ Finish(r, "fetch", "interrupted")
    /\ UNCHANGED graceful

\* The fetch was sleeping when the first signal came: ErrWaitInterrupted.
FetchInterrupted(r) ==
    /\ shutdownRequested
    /\ Finish(r, "fetch", "interrupted")
    /\ graceful' = TRUE

\* ImportRepo begins; no writer starts under a context that has ended.
ImportBegin(r) ==
    IF groupCancelled
      THEN Finish(r, "fetched", "failed") /\ UNCHANGED graceful
      ELSE /\ WorkerStep(r, "fetched", "import")
           /\ UNCHANGED <<main, graceful, loopVars, sem, outcome, groupErr,
                          runVars>>

ImportOk(r) == Finish(r, "import", "imported") /\ UNCHANGED graceful

ImportFailed(r) == Finish(r, "import", "failed") /\ UNCHANGED graceful

\* Mutant of Release: only a successful worker gives its slot back.
ReleaseOnSuccess(r) ==
    /\ WorkerStep(r, "release", "return")
    /\ sem' = IF outcome[r] = "imported" THEN sem - 1 ELSE sem
    /\ UNCHANGED <<main, graceful, loopVars, outcome, groupErr, runVars>>

\* The deferred <-sem runs inside the function, before the errgroup sees what
\* it returned.
Release(r) ==
    /\ WorkerStep(r, "release", "return")
    /\ sem' = sem - 1
    /\ UNCHANGED <<main, graceful, loopVars, outcome, groupErr, runVars>>

\* The errgroup records the first error and cancels groupCtx.
GroupDone(r) ==
    /\ WorkerStep(r, "return", "done")
    /\ groupErr' = (groupErr \/ outcome[r] = "failed")
    /\ UNCHANGED <<main, graceful, loopVars, sem, outcome, runVars>>

Worker(r) ==
    \/ FetchOk(r)
    \/ FetchFailed(r)
    \/ FetchCanceled(r)
    \/ FetchInterrupted(r)
    \/ ImportBegin(r)
    \/ ImportOk(r)
    \/ ImportFailed(r)
    \/ Release(r)
    \/ GroupDone(r)

-----------------------------------------------------------------------------
(* The end of the run, and the signals                                     *)

\* Mutant of GroupIdle: waits for the slots instead of the goroutines.
SlotsIdle == Holding = {}

\* The errgroup's WaitGroup is at zero.
GroupIdle == Working = {}

GroupWait ==
    /\ main = "wait"
    /\ GroupIdle
    /\ main' = "returned"
    /\ result' = IF groupErr THEN "import" ELSE "nil"
    /\ UNCHANGED <<graceful, loopVars, poolVars, debug, signals, late>>

Exit ==
    /\ main = "returned"
    /\ main' = "exited"
    /\ UNCHANGED <<graceful, loopVars, poolVars, runVars>>

\* main() turns every error of Run into status 1.
ExitCode == IF result = "nil" THEN 0 ELSE 1

Signal ==
    /\ Alive
    /\ signals < 2
    /\ signals' = signals + 1
    /\ UNCHANGED <<main, graceful, loopVars, poolVars, debug, result, late>>

Main ==
    \/ Top
    \/ PageListed
    \/ PageEmpty
    \/ PageCanceled
    \/ PageFailed
    \/ PageDone
    \/ StopInPage
    \/ \E r \in Repos : SkipArchivedRepo(r) \/ StopAtDebugLimit(r) \/ TakeRepo(r)
    \/ Dispatch
    \/ SlotRefused
    \/ GroupWait
    \/ Exit

Next == Main \/ Signal \/ \E r \in Repos : Worker(r)

Spec == Init /\ [][Next]_vars

\* Goroutines that can run do run, and every call a worker makes returns: the
\* HTTP client gives up after 30 seconds and the rate limiter's sleeps end.
\* Nothing is assumed about signals.
Fairness == WF_vars(Main) /\ \A r \in Repos : WF_vars(Worker(r))

FairSpec == Spec /\ Fairness

-----------------------------------------------------------------------------
\* Every worker holds exactly one slot until its deferred release and there
\* are never more of them than Parallelism, whichever way a worker ends
\* (app.go lines 103-115).
SlotsMatchWorkers ==
    /\ sem = Cardinality(Holding)
    /\ sem <= Parallelism

\* The repositories a worker was, or is about to be, started for.
Started == {r \in Repos : stage[r] \notin {"unseen", "listed"} /\ outcome[r] # "archived"}
           \cup ({current} \ {NoRepo})

\* In debug mode every reserved slot belongs to a repository that is started,
\* so the limit is neither exceeded nor eaten up by refused repositories
\* (lines 92-106).
DebugBudget ==
    debug => /\ debugCount = Cardinality(Started)
             /\ debugCount <= MaxDebugRepos

\* After the first stop signal at most one more repository is started: the one
\* already past the check at the top of the loop body when acquireWorkerSlot's
\* select had both a free slot and the signal to choose from.
OneStartAfterStop == late <= 1

\* When Run returns nil no goroutine is left and no import has failed; and when
\* it says it is finished with all repositories (no graceful shutdown, no
\* abort), each one was imported, skipped because GitHub failed it, or left
\* out as archived -- in debug mode, if the limit was not reached first.
FinishedRunIsComplete ==
    result = "nil" =>
        /\ Working = {}
        /\ \A r \in Repos : outcome[r] # "failed"
        /\ ~graceful /\ ~processingCancelled =>
              \/ \A r \in Repos : outcome[r] \in {"imported", "skipped", "archived"}
              \/ debug /\ Cardinality({r \in Repos : outcome[r] \in {"imported", "skipped"}})
                              = MaxDebugRepos

\* No import that failed is forgotten: the process then ends with status 1,
\* even when Run leaves early or another error comes first.
ImportErrorFailsRun ==
    main = "exited" /\ (\E r \in Repos : outcome[r] = "failed") => ExitCode = 1

\* The process ends, with or without signals, errors and archived repositories.
Terminates == <>(main = "exited")

\* What the job promises whoever schedules it.
Job == INSTANCE SnapshotJob WITH
    importing <- {r \in Repos : stage[r] = "import"},
    saved <- {r \in Repos : outcome[r] = "imported"},
    failed <- {r \in Repos : outcome[r] = "failed"},
    status <- IF main # "exited" THEN "running"
              ELSE IF ExitCode = 0 THEN "ok" ELSE "failed"

\* The runner keeps that promise, step by step.
KeepsJobPromise == Job!JobSpec
=============================================================================
