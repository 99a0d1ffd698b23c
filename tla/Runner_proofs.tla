--------------------------- MODULE Runner_proofs ---------------------------
(***************************************************************************)
(* Proofs about the runner, for any finite set of repositories, any        *)
(* parallelism and any debug limit.  The properties are not inductive by   *)
(* themselves; IInv adds what they rest on.  IMore adds what the debug     *)
(* limit, the meaning of nil and the refinement of SnapshotJob rest on.    *)
(***************************************************************************)
EXTENDS Runner, FiniteSetTheorems, TLAPS

\* The main goroutine holds a repository exactly while it asks for a slot, and
\* in debug mode it has then reserved a debug slot for it.
CurrentIsListed ==
    /\ IF main = "slot" THEN current \in Repos /\ stage[current] = "listed"
                        ELSE current = NoRepo
    /\ main = "slot" /\ debug => debugCount >= 1

\* A late start needs the signal to come while the main goroutine asks for a
\* slot, and it does not get there again.
LateInv ==
    /\ late > 0 => shutdownRequested
    /\ main = "slot" => late = 0
    /\ OneStartAfterStop

\* A failed import is on its way to the errgroup or recorded there, and Run
\* returns nil only when nothing is on its way and nothing is recorded.
ErrorInv ==
    /\ \A r \in Repos : outcome[r] = "failed" =>
          stage[r] \in {"release", "return"} \/ (stage[r] = "done" /\ groupErr)
    /\ result = "nil" => /\ main \in {"returned", "exited"}
                         /\ Working = {}
                         /\ ~groupErr

IInv == TypeOK /\ CurrentIsListed /\ SlotsMatchWorkers /\ LateInv /\ ErrorInv

USE DEF loopVars, poolVars, runVars

-----------------------------------------------------------------------------
(* The steps                                                               *)

\* The steps of the main goroutine that only move it, mark the stop or note
\* the error Run returns.
Quiet ==
    \/ Top \/ PageEmpty \/ PageCanceled \/ PageFailed \/ PageDone \/ StopInPage
    \/ \E r \in Repos : StopAtDebugLimit(r)
    \/ Exit

\* The steps that set a worker's outcome and let it go on to its release.
Finishing(r) ==
    \E from \in {"fetch", "fetched", "import"}, how \in Outcome :
        /\ Finish(r, from, how)
        /\ \/ from = "fetch" /\ how \in {"skipped", "aborted", "interrupted"}
           \/ from = "fetched" /\ how = "failed"
           \/ from = "import" /\ how \in {"imported", "failed"}
        /\ how = "aborted" => groupCancelled
        /\ IF how = "interrupted" THEN graceful' = TRUE ELSE UNCHANGED graceful

\* An import that is allowed to begin.
Importing(r) ==
    /\ ~groupCancelled
    /\ WorkerStep(r, "fetched", "import")
    /\ UNCHANGED <<main, graceful, loopVars, sem, outcome, groupErr, runVars>>

\* Every step is one of these, with the workers' ways of ending gathered in one.
LEMMA NextCases ==
    ASSUME TypeOK, [Next]_vars
    PROVE  \/ Quiet
           \/ PageListed
           \/ \E r \in Repos : SkipArchivedRepo(r) \/ TakeRepo(r)
           \/ Dispatch \/ SlotRefused \/ GroupWait \/ Signal
           \/ \E r \in Repos :
                 \/ FetchOk(r)
                 \/ Importing(r)
                 \/ Finishing(r)
                 \/ Release(r)
                 \/ GroupDone(r)
           \/ UNCHANGED vars
<1>1. ASSUME NEW r \in Repos, Worker(r)
      PROVE  \/ FetchOk(r)
             \/ Importing(r)
             \/ Finishing(r)
             \/ Release(r)
             \/ GroupDone(r)
  <2>1. graceful \in BOOLEAN
    BY DEF TypeOK
  <2>2. ASSUME FetchFailed(r) \/ FetchCanceled(r) \/ FetchInterrupted(r)
        PROVE  Finishing(r)
    BY <2>1, <2>2
    DEF FetchFailed, FetchCanceled, FetchInterrupted, Finishing, Outcome
  <2>3. ASSUME ImportOk(r) \/ ImportFailed(r)
        PROVE  Finishing(r)
    BY <2>1, <2>3 DEF ImportOk, ImportFailed, Finishing, Outcome
  <2>4. ASSUME ImportBegin(r), groupCancelled
        PROVE  Finishing(r)
    BY <2>1, <2>4 DEF ImportBegin, Finishing, Outcome
  <2>5. ASSUME ImportBegin(r), ~groupCancelled
        PROVE  Importing(r)
    BY <2>5 DEF ImportBegin, Importing
  <2> QED BY <1>1, <2>2, <2>3, <2>4, <2>5 DEF Worker
<1> QED BY <1>1 DEF Next, Main, Quiet

\* A worker's step takes a repository that is being worked on, in a live process.
LEMMA StepStages ==
    ASSUME TypeOK, NEW r \in Repos, NEW from \in Stage, NEW to \in Stage,
           WorkerStep(r, from, to)
    PROVE  /\ stage[r] = from
           /\ stage'[r] = to
           /\ \A q \in Repos \ {r} : stage'[q] = stage[q]
           /\ stage' \in [Repos -> Stage]
           /\ main # "exited"
BY DEF TypeOK, WorkerStep, Alive

-----------------------------------------------------------------------------
(* Holding changes by one repository at a time                             *)

\* There are finitely many workers with a slot.
LEMMA HoldingFinite == IsFiniteSet(Holding) /\ Cardinality(Holding) \in Nat
<1>1. Holding \in SUBSET Repos
  BY DEF Holding
<1> QED BY <1>1, ReposAssumption, FS_Subset, FS_CardinalityType

\* A step that moves no slot and no worker in or out keeps them matched.
LEMMA HoldingSame ==
    ASSUME SlotsMatchWorkers, sem' = sem, Holding' = Holding
    PROVE  SlotsMatchWorkers'
BY DEF SlotsMatchWorkers

\* The same for the next state.
LEMMA HoldingNextFinite == IsFiniteSet(Holding') /\ Cardinality(Holding') \in Nat
<1>1. Holding' \in SUBSET Repos
  BY DEF Holding
<1> QED BY <1>1, ReposAssumption, FS_Subset, FS_CardinalityType

\* Sem follows the set of workers through every step.
LEMMA SlotsStep == IInv /\ [Next]_vars => SlotsMatchWorkers'
<1> SUFFICES ASSUME IInv, [Next]_vars PROVE SlotsMatchWorkers'
  OBVIOUS
<1>0. TypeOK /\ SlotsMatchWorkers /\ CurrentIsListed
  BY DEF IInv
<1>1. CASE Quiet \/ Signal \/ GroupWait \/ SlotRefused \/ \E r \in Repos : TakeRepo(r)
  <2>1. UNCHANGED <<sem, stage>>
    BY <1>1
    DEF Quiet, Top, PageEmpty, PageCanceled, PageFailed, PageDone, StopInPage,
        StopAtDebugLimit, Exit, Signal, GroupWait, SlotRefused, TakeRepo
  <2> QED BY <1>0, <2>1, HoldingSame DEF Holding
<1>2. CASE PageListed
  <2>1. /\ sem' = sem
        /\ \A r \in Repos : stage'[r] # stage[r] =>
              stage[r] = "unseen" /\ stage'[r] = "listed"
    BY <1>2 DEF PageListed, Unseen
  <2> QED BY <1>0, <2>1, HoldingSame DEF Holding
<1>3. ASSUME NEW r \in Repos, SkipArchivedRepo(r) PROVE SlotsMatchWorkers'
  <2>1. /\ sem' = sem
        /\ stage[r] = "listed" /\ stage'[r] = "done"
        /\ \A q \in Repos \ {r} : stage'[q] = stage[q]
    BY <1>0, <1>3 DEF SkipArchivedRepo, Batch, TypeOK
  <2> QED BY <1>0, <2>1, HoldingSame DEF Holding
<1>4. CASE Dispatch
  <2>1. /\ current \in Repos \ Holding
        /\ sem' = sem + 1
        /\ sem < Parallelism
        /\ stage'[current] = "fetch"
        /\ \A q \in Repos \ {current} : stage'[q] = stage[q]
    BY <1>0, <1>4 DEF Dispatch, SlotFree, CurrentIsListed, Holding, TypeOK
  <2>2. Holding' = Holding \cup {current}
    BY <2>1 DEF Holding
  <2>3. Cardinality(Holding') = Cardinality(Holding) + 1
    BY <2>1, <2>2, HoldingFinite, FS_AddElement
  <2> QED
    BY <1>0, <2>1, <2>3, HoldingFinite, ConfigAssumption DEF SlotsMatchWorkers
<1>5. ASSUME NEW r \in Repos,
             FetchOk(r) \/ Importing(r)
      PROVE  SlotsMatchWorkers'
  <2>1. /\ sem' = sem
        /\ stage[r] \in {"fetch", "fetched"} /\ stage'[r] \in {"fetched", "import"}
        /\ \A q \in Repos \ {r} : stage'[q] = stage[q]
    BY <1>0, <1>5 DEF FetchOk, Importing, WorkerStep, TypeOK
  <2> QED BY <1>0, <2>1, HoldingSame DEF Holding
<1>6. ASSUME NEW r \in Repos, Finishing(r) PROVE SlotsMatchWorkers'
  <2>1. /\ sem' = sem
        /\ stage[r] \in {"fetch", "fetched", "import"} /\ stage'[r] = "release"
        /\ \A q \in Repos \ {r} : stage'[q] = stage[q]
    BY <1>0, <1>6 DEF Finishing, Finish, WorkerStep, TypeOK
  <2> QED BY <1>0, <2>1, HoldingSame DEF Holding
<1>7. ASSUME NEW r \in Repos, Release(r) PROVE SlotsMatchWorkers'
  <2>1. /\ sem' = sem - 1
        /\ stage[r] = "release" /\ stage'[r] = "return"
        /\ \A q \in Repos \ {r} : stage'[q] = stage[q]
    BY <1>0, <1>7 DEF Release, WorkerStep, TypeOK
  <2>2. r \in Holding /\ Holding' = Holding \ {r}
    BY <2>1 DEF Holding
  <2>3. Cardinality(Holding') = Cardinality(Holding) - 1
    BY <2>2, HoldingFinite, FS_RemoveElement
  <2> QED
    BY <1>0, <2>1, <2>3, HoldingFinite, ConfigAssumption DEF SlotsMatchWorkers
<1>8. ASSUME NEW r \in Repos, GroupDone(r) PROVE SlotsMatchWorkers'
  <2>1. /\ sem' = sem
        /\ stage[r] = "return" /\ stage'[r] = "done"
        /\ \A q \in Repos \ {r} : stage'[q] = stage[q]
    BY <1>0, <1>8 DEF GroupDone, WorkerStep, TypeOK
  <2> QED BY <1>0, <2>1, HoldingSame DEF Holding
<1>9. CASE UNCHANGED vars
  BY <1>0, <1>9, HoldingSame DEF vars, Holding
<1> QED
  BY <1>0, <1>1, <1>2, <1>3, <1>4, <1>5, <1>6, <1>7, <1>8, <1>9, NextCases

-----------------------------------------------------------------------------
(* The other parts of the invariant                                        *)

\* Every step keeps the runner's state well typed.
LEMMA TypeStep == IInv /\ [Next]_vars => TypeOK'
<1> SUFFICES ASSUME IInv, [Next]_vars PROVE TypeOK'
  OBVIOUS
<1>0. TypeOK /\ SlotsMatchWorkers /\ CurrentIsListed
  BY DEF IInv
<1>a. /\ \A r \in Repos : stage[r] \in Stage
      /\ {"listed", "done", "fetch", "fetched", "import", "release", "return"}
            \subseteq Stage
  BY <1>0 DEF TypeOK, Stage
<1>1. CASE Quiet
  BY <1>0, <1>1
  DEF Quiet, Top, PageEmpty, PageCanceled, PageFailed, PageDone, StopInPage,
      StopAtDebugLimit, Exit, Break, TypeOK, MainAt, Result
<1>2. CASE PageListed
  <2>1. stage' \in [Repos -> Stage]
    BY <1>a, <1>2 DEF PageListed
  <2> QED BY <1>0, <1>2, <2>1 DEF PageListed, TypeOK, MainAt
<1>3. ASSUME NEW r \in Repos, SkipArchivedRepo(r) \/ TakeRepo(r) PROVE TypeOK'
  <2>1. CASE SkipArchivedRepo(r)
    BY <1>0, <1>a, <2>1 DEF SkipArchivedRepo, TypeOK, Outcome
  <2>2. CASE TakeRepo(r)
    BY <1>0, <2>2 DEF TakeRepo, TypeOK, MainAt
  <2> QED BY <1>3, <2>1, <2>2
<1>4. CASE Dispatch
  <2>1. stage' \in [Repos -> Stage]
    BY <1>0, <1>a, <1>4 DEF Dispatch, CurrentIsListed, TypeOK
  <2> QED BY <1>0, <1>4, <2>1 DEF Dispatch, TypeOK, MainAt
<1>5. CASE SlotRefused
  <2>1. debugCount' \in Nat
    BY <1>0, <1>5 DEF SlotRefused, UnreservedCount, CurrentIsListed, TypeOK
  <2> QED BY <1>0, <1>5, <2>1 DEF SlotRefused, Break, TypeOK, MainAt, Result
<1>6. CASE GroupWait
  BY <1>0, <1>6 DEF GroupWait, TypeOK, MainAt, Result
<1>7. CASE Signal
  BY <1>0, <1>7 DEF Signal, TypeOK
<1>8. ASSUME NEW r \in Repos, FetchOk(r) \/ Importing(r) PROVE TypeOK'
  <2>1. \E to \in {"fetched", "import"} : stage' = [stage EXCEPT ![r] = to]
    BY <1>8 DEF FetchOk, Importing, WorkerStep
  <2>2. stage' \in [Repos -> Stage]
    BY <1>0, <1>a, <2>1 DEF TypeOK
  <2>3. UNCHANGED <<main, graceful, loopVars, sem, outcome, groupErr, runVars>>
    BY <1>8 DEF FetchOk, Importing
  <2> QED BY <1>0, <2>2, <2>3 DEF TypeOK
<1>9. ASSUME NEW r \in Repos, Finishing(r) PROVE TypeOK'
  <2>1. stage' \in [Repos -> Stage]
    BY <1>0, <1>a, <1>9 DEF Finishing, Finish, WorkerStep, TypeOK
  <2>2. outcome' \in [Repos -> Outcome]
    BY <1>0, <1>9 DEF Finishing, Finish, TypeOK, Outcome
  <2>3. graceful' \in BOOLEAN
    BY <1>0, <1>9, Zenon DEF Finishing, TypeOK
  <2>4. UNCHANGED <<main, loopVars, sem, groupErr, runVars>>
    BY <1>9 DEF Finishing, Finish
  <2> QED BY <1>0, <2>1, <2>2, <2>3, <2>4 DEF TypeOK
<1>10. ASSUME NEW r \in Repos, Release(r) PROVE TypeOK'
  <2>1. stage' \in [Repos -> Stage]
    BY <1>0, <1>a, <1>10 DEF Release, WorkerStep, TypeOK
  <2>2. sem' \in Nat
    BY SlotsStep, HoldingNextFinite DEF SlotsMatchWorkers
  <2> QED BY <1>0, <1>10, <2>1, <2>2 DEF Release, TypeOK
<1>11. ASSUME NEW r \in Repos, GroupDone(r) PROVE TypeOK'
  BY <1>0, <1>a, <1>11 DEF GroupDone, WorkerStep, TypeOK
<1>12. CASE UNCHANGED vars
  BY <1>0, <1>12 DEF vars, TypeOK
<1> QED
  BY <1>0, <1>1, <1>2, <1>3, <1>4, <1>5, <1>6, <1>7, <1>8, <1>9, <1>10, <1>11,
     <1>12, NextCases

\* Every step keeps the repository being started and its debug slot together.
LEMMA CurrentStep == IInv /\ [Next]_vars => CurrentIsListed'
<1> SUFFICES ASSUME IInv, [Next]_vars PROVE CurrentIsListed'
  OBVIOUS
<1>0. TypeOK /\ CurrentIsListed
  BY DEF IInv
<1>1. CASE Quiet \/ Dispatch \/ SlotRefused \/ GroupWait
  <2>1. main' # "slot" /\ current' = NoRepo
    BY <1>0, <1>1
    DEF Quiet, Top, PageEmpty, PageCanceled, PageFailed, PageDone, StopInPage,
        StopAtDebugLimit, Exit, Break, Dispatch, SlotRefused, GroupWait,
        CurrentIsListed
  <2> QED BY <2>1 DEF CurrentIsListed
<1>2. CASE PageListed
  BY <1>0, <1>2 DEF PageListed, CurrentIsListed
<1>3. ASSUME NEW r \in Repos, SkipArchivedRepo(r) PROVE CurrentIsListed'
  BY <1>0, <1>3 DEF SkipArchivedRepo, CurrentIsListed
<1>4. ASSUME NEW r \in Repos, TakeRepo(r) PROVE CurrentIsListed'
  BY <1>0, <1>4 DEF TakeRepo, Batch, CurrentIsListed, TypeOK
<1>5. CASE Signal
  BY <1>0, <1>5 DEF Signal, CurrentIsListed
<1>6. ASSUME NEW r \in Repos,
             FetchOk(r) \/ Importing(r) \/ Finishing(r) \/ Release(r) \/ GroupDone(r)
      PROVE  CurrentIsListed'
  <2>1. /\ UNCHANGED <<main, current, debug, debugCount>>
        /\ stage[r] # "listed"
        /\ \A q \in Repos \ {r} : stage'[q] = stage[q]
    BY <1>0, <1>6
    DEF FetchOk, Importing, Finishing, Finish, Release, GroupDone, WorkerStep, TypeOK
  <2> QED BY <1>0, <2>1 DEF CurrentIsListed
<1>7. CASE UNCHANGED vars
  BY <1>0, <1>7 DEF vars, CurrentIsListed
<1> QED
  BY <1>0, <1>1, <1>2, <1>3, <1>4, <1>5, <1>6, <1>7, NextCases

\* Every step keeps the number of late starts at most one.
LEMMA LateStep == IInv /\ [Next]_vars => LateInv'
<1> SUFFICES ASSUME IInv, [Next]_vars PROVE LateInv'
  OBVIOUS
<1>0. TypeOK /\ LateInv
  BY DEF IInv
<1>1. CASE Dispatch
  <2>1. /\ main = "slot" /\ main' = "repo" /\ signals' = signals
        /\ late' = IF shutdownRequested THEN late + 1 ELSE late
    BY <1>1 DEF Dispatch
  <2> QED BY <1>0, <2>1 DEF LateInv, OneStartAfterStop, shutdownRequested
<1>2. CASE Signal
  <2>1. signals' = signals + 1 /\ UNCHANGED <<main, late>> /\ signals \in 0 .. 2
    BY <1>0, <1>2 DEF Signal, TypeOK
  <2> QED BY <1>0, <2>1 DEF LateInv, OneStartAfterStop, shutdownRequested
<1>3. ASSUME NEW r \in Repos, TakeRepo(r) PROVE LateInv'
  <2>1. ~shutdownRequested /\ UNCHANGED <<signals, late>> /\ late \in Nat
    BY <1>0, <1>3 DEF TakeRepo, StopBeforeRepo, TypeOK
  <2> QED BY <1>0, <2>1 DEF LateInv, OneStartAfterStop, shutdownRequested
<1>4. CASE /\ UNCHANGED <<signals, late>>
           /\ main' = main \/ main' # "slot"
  BY <1>0, <1>4 DEF LateInv, OneStartAfterStop, shutdownRequested
<1>5. ASSUME Quiet \/ PageListed \/ SlotRefused \/ GroupWait \/ UNCHANGED vars
      PROVE  UNCHANGED <<signals, late>> /\ (main' = main \/ main' # "slot")
  BY <1>5
  DEF Quiet, Top, PageEmpty, PageCanceled, PageFailed, PageDone, StopInPage,
      StopAtDebugLimit, Exit, Break, PageListed, SlotRefused, GroupWait, vars
<1>6. ASSUME NEW r \in Repos,
             \/ SkipArchivedRepo(r) \/ FetchOk(r) \/ Importing(r)
             \/ Finishing(r) \/ Release(r) \/ GroupDone(r)
      PROVE  UNCHANGED <<signals, late>> /\ main' = main
  BY <1>6
  DEF SkipArchivedRepo, FetchOk, Importing, Finishing, Finish, Release, GroupDone
<1> QED
  BY <1>0, <1>1, <1>2, <1>3, <1>4, <1>5, <1>6, NextCases

\* Every step keeps failed imports on their way to Run's result.
LEMMA ErrorStep == IInv /\ [Next]_vars => ErrorInv'
<1> SUFFICES ASSUME IInv, [Next]_vars PROVE ErrorInv'
  OBVIOUS
<1>0. TypeOK /\ ErrorInv /\ CurrentIsListed
  BY DEF IInv
<1>1. ASSUME Quiet \/ SlotRefused \/ Signal \/ UNCHANGED vars
             \/ \E r \in Repos : TakeRepo(r)
      PROVE  ErrorInv'
  <2>1. /\ UNCHANGED <<stage, outcome, groupErr>>
        /\ \/ result' # "nil"
           \/ UNCHANGED <<main, result>>
           \/ result' = result /\ main' = "exited"
    BY <1>0, <1>1
    DEF Quiet, Top, PageEmpty, PageCanceled, PageFailed, PageDone, StopInPage,
        StopAtDebugLimit, Exit, Break, SlotRefused, Signal, TakeRepo, vars, ErrorInv
  <2> QED BY <1>0, <2>1 DEF ErrorInv, Working, Holding
<1>2. CASE GroupWait
  <2>1. /\ UNCHANGED <<stage, outcome, groupErr>>
        /\ main' = "returned" /\ Working = {}
        /\ result' = "nil" => ~groupErr
    BY <1>2 DEF GroupWait, GroupIdle
  <2> QED BY <1>0, <2>1 DEF ErrorInv, Working, Holding
<1>3. CASE PageListed
  <2>1. /\ UNCHANGED <<outcome, groupErr, result>>
        /\ main = "page"
        /\ \A q \in Repos : stage'[q] # stage[q] => stage[q] = "unseen"
    BY <1>3 DEF PageListed, Unseen
  <2> QED BY <1>0, <2>1 DEF ErrorInv
<1>4. ASSUME NEW r \in Repos, SkipArchivedRepo(r) PROVE ErrorInv'
  <2>1. /\ UNCHANGED <<groupErr, result>>
        /\ main = "repo"
        /\ outcome'[r] = "archived"
        /\ \A q \in Repos \ {r} : outcome'[q] = outcome[q] /\ stage'[q] = stage[q]
    BY <1>0, <1>4 DEF SkipArchivedRepo, TypeOK
  <2> QED BY <1>0, <2>1 DEF ErrorInv
<1>5. CASE Dispatch
  <2>1. /\ UNCHANGED <<outcome, groupErr, result>>
        /\ main = "slot"
        /\ stage[current] = "listed"
        /\ \A q \in Repos \ {current} : stage'[q] = stage[q]
    BY <1>0, <1>5 DEF Dispatch, CurrentIsListed, TypeOK
  <2> QED BY <1>0, <2>1 DEF ErrorInv
<1>6. ASSUME NEW r \in Repos, FetchOk(r) \/ Importing(r) PROVE ErrorInv'
  <2>1. /\ UNCHANGED <<outcome, groupErr, result>>
        /\ stage[r] \in {"fetch", "fetched"} /\ r \in Working
        /\ \A q \in Repos \ {r} : stage'[q] = stage[q]
    BY <1>0, <1>6 DEF FetchOk, Importing, WorkerStep, TypeOK, Working, Holding
  <2> QED BY <1>0, <2>1 DEF ErrorInv
<1>7. ASSUME NEW r \in Repos, Finishing(r) PROVE ErrorInv'
  <2>1. /\ UNCHANGED <<groupErr, result>>
        /\ stage'[r] = "release" /\ r \in Working
        /\ \A q \in Repos \ {r} : outcome'[q] = outcome[q] /\ stage'[q] = stage[q]
    BY <1>0, <1>7 DEF Finishing, Finish, WorkerStep, TypeOK, Working, Holding
  <2> QED BY <1>0, <2>1 DEF ErrorInv
<1>8. ASSUME NEW r \in Repos, Release(r) PROVE ErrorInv'
  <2>1. /\ UNCHANGED <<outcome, groupErr, result>>
        /\ stage'[r] = "return" /\ r \in Working
        /\ \A q \in Repos \ {r} : stage'[q] = stage[q]
    BY <1>0, <1>8 DEF Release, WorkerStep, TypeOK, Working, Holding
  <2> QED BY <1>0, <2>1 DEF ErrorInv
<1>9. ASSUME NEW r \in Repos, GroupDone(r) PROVE ErrorInv'
  <2>1. /\ UNCHANGED <<outcome, result>>
        /\ groupErr' = (groupErr \/ outcome[r] = "failed")
        /\ stage'[r] = "done" /\ r \in Working
        /\ \A q \in Repos \ {r} : stage'[q] = stage[q]
    BY <1>0, <1>9 DEF GroupDone, WorkerStep, TypeOK, Working, Holding
  <2> QED BY <1>0, <2>1 DEF ErrorInv
<1> QED
  BY <1>0, <1>1, <1>2, <1>3, <1>4, <1>5, <1>6, <1>7, <1>8, <1>9, NextCases

-----------------------------------------------------------------------------
(* The theorems                                                            *)

\* The invariant holds at the start and every step keeps it.
THEOREM Invariance == Spec => []IInv
<1>1. Init => IInv
  <2> SUFFICES ASSUME Init PROVE IInv
    OBVIOUS
  <2>1. TypeOK
    <3>1. "unseen" \in Stage /\ "none" \in Outcome /\ main \in MainAt /\ result \in Result
      BY DEF Init, Stage, Outcome, MainAt, Result
    <3>2. stage \in [Repos -> Stage] /\ outcome \in [Repos -> Outcome]
      BY <3>1 DEF Init
    <3>3. debugCount \in Nat /\ sem \in Nat /\ late \in Nat /\ signals \in 0 .. 2
      BY DEF Init
    <3>4. debug \in BOOLEAN /\ graceful \in BOOLEAN /\ groupErr \in BOOLEAN
      BY Zenon DEF Init
    <3> QED BY <3>1, <3>2, <3>3, <3>4, Zenon DEF Init, TypeOK
  <2>2. Holding = {} /\ Working = {}
    BY DEF Init, Holding, Working
  <2>3. SlotsMatchWorkers
    BY <2>2, FS_EmptySet, ConfigAssumption DEF Init, SlotsMatchWorkers
  <2> QED
    BY <2>1, <2>3
    DEF Init, IInv, CurrentIsListed, LateInv, OneStartAfterStop, ErrorInv
<1>2. IInv /\ [Next]_vars => IInv'
  BY TypeStep, CurrentStep, SlotsStep, LateStep, ErrorStep DEF IInv
<1> QED BY <1>1, <1>2, PTL DEF Spec

\* Type correctness; in particular neither the semaphore nor the debug counter
\* ever goes below zero.
THEOREM TypeCorrect == Spec => []TypeOK
BY Invariance, PTL DEF IInv

\* Whatever ends the workers, each holds exactly one slot until it gives it
\* back, and there are never more than Parallelism of them.
THEOREM SlotsAreWorkers == Spec => []SlotsMatchWorkers
BY Invariance, PTL DEF IInv

\* The first stop signal lets at most one more repository through.
THEOREM AtMostOneLateStart == Spec => []OneStartAfterStop
<1>1. IInv => OneStartAfterStop
  BY DEF IInv, LateInv
<1> QED BY <1>1, Invariance, PTL

\* An import that failed always ends the process with status 1.
THEOREM ImportErrorsAreReported == Spec => []ImportErrorFailsRun
<1>1. IInv => ImportErrorFailsRun
  <2> SUFFICES ASSUME IInv, NEW r \in Repos, outcome[r] = "failed", result = "nil"
               PROVE  FALSE
    BY DEF ImportErrorFailsRun, ExitCode
  <2>1. /\ stage[r] \in {"release", "return"} \/ groupErr
        /\ Working = {} /\ ~groupErr
    BY DEF IInv, ErrorInv
  <2> QED BY <2>1 DEF Working, Holding
<1> QED BY <1>1, Invariance, PTL

-----------------------------------------------------------------------------
(* The debug limit, what nil means, and SnapshotJob                        *)

\* A repository has its outcome once its worker is past the import, and the
\* outcomes of a stopped or aborted run have their cause.
OutcomeInv ==
    \A r \in Repos :
        /\ outcome[r] = "none" <=> stage[r] \in {"unseen", "listed", "fetch", "fetched", "import"}
        /\ outcome[r] = "interrupted" => graceful
        /\ outcome[r] = "aborted" => groupCancelled

\* The loop over a page has seen every repository of it, and the loop over the
\* pages ends because it was stopped, because it has seen every repository, or
\* at the debug limit.
LoopInv ==
    /\ main \in {"top", "page"} => \A r \in Repos : stage[r] # "listed"
    /\ main = "wait" \/ result = "nil" =>
          \/ graceful
          \/ \A r \in Repos : stage[r] \notin {"unseen", "listed"}
          \/ debug /\ debugCount = MaxDebugRepos

IMore == IInv /\ OutcomeInv /\ DebugBudget /\ LoopInv

-----------------------------------------------------------------------------
(* The invariant                                                           *)

\* A worker's step changes the stage and the outcome of its repository only.
LEMMA WorkerChanges ==
    ASSUME TypeOK, NEW r \in Repos,
           FetchOk(r) \/ Importing(r) \/ Finishing(r) \/ Release(r) \/ GroupDone(r)
    PROVE  /\ \A q \in Repos \ {r} : stage'[q] = stage[q] /\ outcome'[q] = outcome[q]
           /\ UNCHANGED <<main, current, debug, debugCount, signals, result>>
           /\ graceful => graceful'
           /\ groupErr => groupErr'
           /\ main # "exited"
           /\ stage[r] \in {"fetch", "fetched", "import", "release", "return"}
           /\ stage'[r] \in {"fetched", "import", "release", "return", "done"}
<1>1. UNCHANGED outcome \/ outcome' = [outcome EXCEPT ![r] = outcome'[r]]
  BY DEF TypeOK, FetchOk, Importing, Finishing, Finish, Release, GroupDone
<1>2. \A q \in Repos \ {r} : outcome'[q] = outcome[q]
  BY <1>1 DEF TypeOK
<1>3. /\ \A q \in Repos \ {r} : stage'[q] = stage[q]
      /\ main # "exited"
      /\ stage[r] \in {"fetch", "fetched", "import", "release", "return"}
      /\ stage'[r] \in {"fetched", "import", "release", "return", "done"}
  BY DEF TypeOK, FetchOk, Importing, Finishing, Finish, Release, GroupDone, WorkerStep, Alive
<1>4. UNCHANGED <<main, current, debug, debugCount, signals, result>>
  BY DEF FetchOk, Importing, Finishing, Finish, Release, GroupDone
<1>5. graceful => graceful'
  <2>1. CASE FetchOk(r) \/ Importing(r) \/ Release(r) \/ GroupDone(r)
    BY <2>1, Zenon DEF FetchOk, Importing, Release, GroupDone
  <2>2. CASE Finishing(r)
    <3>1. PICK how \in Outcome : IF how = "interrupted" THEN graceful' = TRUE
                                                      ELSE UNCHANGED graceful
      BY <2>2 DEF Finishing
    <3> QED BY <3>1, Zenon
  <2> QED BY <2>1, <2>2
<1>6. groupErr' = (groupErr \/ outcome[r] = "failed") \/ UNCHANGED groupErr
  BY DEF FetchOk, Importing, Finishing, Finish, Release, GroupDone
<1>7. groupErr => groupErr'
  BY <1>6, Zenon
<1> QED BY <1>2, <1>3, <1>4, <1>5, <1>7

\* Nothing but workers and the skipping of archived repositories changes outcomes,
\* and no step takes back the marks of a stop or an abort.
LEMMA OtherChanges ==
    ASSUME TypeOK,
           \/ Quiet \/ PageListed \/ Dispatch \/ SlotRefused \/ GroupWait \/ Signal
           \/ \E r \in Repos : SkipArchivedRepo(r) \/ TakeRepo(r)
           \/ UNCHANGED vars
    PROVE  /\ graceful => graceful'
           /\ groupCancelled => groupCancelled'
<1>1. graceful => graceful'
  BY DEF Quiet, Top, PageEmpty, PageCanceled, PageFailed, PageDone, StopInPage, StopAtDebugLimit,
         Exit, Break, PageListed, Dispatch, SlotRefused, GroupWait, Signal, SkipArchivedRepo,
         TakeRepo, vars
<1>2. groupErr' = groupErr /\ (signals' = signals \/ signals < 2)
  BY DEF Quiet, Top, PageEmpty, PageCanceled, PageFailed, PageDone, StopInPage, StopAtDebugLimit,
         Exit, Break, PageListed, Dispatch, SlotRefused, GroupWait, Signal, SkipArchivedRepo,
         TakeRepo, vars
<1> QED BY <1>1, <1>2 DEF groupCancelled, processingCancelled

\* Every step keeps outcomes and stages together.
LEMMA OutcomeStep == IMore /\ [Next]_vars => OutcomeInv'
<1> SUFFICES ASSUME IMore, [Next]_vars PROVE OutcomeInv'
  OBVIOUS
<1>0. TypeOK /\ OutcomeInv /\ CurrentIsListed
  BY DEF IMore, IInv
<1>1. CASE Quiet \/ SlotRefused \/ GroupWait \/ Signal \/ UNCHANGED vars
           \/ \E r \in Repos : TakeRepo(r)
  <2>1. UNCHANGED <<stage, outcome>>
    BY <1>1
    DEF Quiet, Top, PageEmpty, PageCanceled, PageFailed, PageDone, StopInPage, StopAtDebugLimit,
        Exit, SlotRefused, GroupWait, Signal, TakeRepo, vars
  <2> QED BY <1>0, <1>1, <2>1, OtherChanges DEF OutcomeInv
<1>2. CASE PageListed
  <2>1. /\ outcome' = outcome
        /\ \A q \in Repos : stage'[q] # stage[q] => stage[q] = "unseen" /\ stage'[q] = "listed"
    BY <1>2 DEF PageListed, Unseen
  <2> QED BY <1>0, <1>2, <2>1, OtherChanges DEF OutcomeInv
<1>3. ASSUME NEW r \in Repos, SkipArchivedRepo(r) PROVE OutcomeInv'
  <2>1. /\ stage'[r] = "done" /\ outcome'[r] = "archived"
        /\ \A q \in Repos \ {r} : stage'[q] = stage[q] /\ outcome'[q] = outcome[q]
    BY <1>0, <1>3 DEF SkipArchivedRepo, TypeOK
  <2> QED BY <1>0, <1>3, <2>1, OtherChanges DEF OutcomeInv
<1>4. CASE Dispatch
  <2>1. /\ stage[current] = "listed" /\ stage'[current] = "fetch" /\ outcome' = outcome
        /\ \A q \in Repos \ {current} : stage'[q] = stage[q]
    BY <1>0, <1>4 DEF Dispatch, CurrentIsListed, TypeOK
  <2> QED BY <1>0, <1>4, <2>1, OtherChanges DEF OutcomeInv
<1>5. ASSUME NEW r \in Repos, FetchOk(r) \/ Importing(r) \/ Release(r) \/ GroupDone(r)
      PROVE  OutcomeInv'
  <2>1. /\ outcome' = outcome
        /\ \/ stage[r] \in {"fetch", "fetched"} /\ stage'[r] \in {"fetched", "import"}
           \/ stage[r] \in {"release", "return"} /\ stage'[r] \in {"return", "done"}
    BY <1>0, <1>5 DEF FetchOk, Importing, Release, GroupDone, WorkerStep, TypeOK
  <2> QED
    BY <1>0, <1>5, <2>1, WorkerChanges DEF OutcomeInv, groupCancelled, processingCancelled
<1>6. ASSUME NEW r \in Repos, Finishing(r) PROVE OutcomeInv'
  <2>1. /\ stage'[r] = "release"
        /\ outcome'[r] \in {"skipped", "aborted", "interrupted", "failed", "imported"}
        /\ outcome'[r] = "aborted" => groupCancelled
        /\ outcome'[r] = "interrupted" => graceful'
    BY <1>0, <1>6 DEF Finishing, Finish, WorkerStep, TypeOK
  <2> QED
    BY <1>0, <1>6, <2>1, WorkerChanges DEF OutcomeInv, groupCancelled, processingCancelled
<1> QED BY <1>0, <1>1, <1>2, <1>3, <1>4, <1>5, <1>6, NextCases

-----------------------------------------------------------------------------
\* Finitely many repositories are started.
LEMMA StartedFinite ==
    ASSUME TypeOK
    PROVE  IsFiniteSet(Started) /\ Cardinality(Started) \in Nat
<1>1. Started \in SUBSET Repos
  BY DEF Started, TypeOK
<1> QED BY <1>1, ReposAssumption, FS_Subset, FS_CardinalityType

\* A worker's step starts nothing and takes nothing back.
LEMMA StartedByWorker ==
    ASSUME IMore, NEW r \in Repos,
           FetchOk(r) \/ Importing(r) \/ Finishing(r) \/ Release(r) \/ GroupDone(r)
    PROVE  Started' = Started
<1>0. TypeOK /\ OutcomeInv
  BY DEF IMore, IInv
<1>1. outcome[r] # "archived" <=> outcome'[r] # "archived"
  <2>1. CASE FetchOk(r) \/ Importing(r) \/ Release(r) \/ GroupDone(r)
    BY <2>1 DEF FetchOk, Importing, Release, GroupDone
  <2>2. CASE Finishing(r)
    BY <1>0, <2>2 DEF Finishing, Finish, WorkerStep, OutcomeInv, TypeOK
  <2> QED BY <2>1, <2>2
<1> QED BY <1>0, <1>1, WorkerChanges DEF Started

\* Every step keeps the debug counter and the repositories started together.
LEMMA BudgetStep == IMore /\ [Next]_vars => DebugBudget'
<1> SUFFICES ASSUME IMore, [Next]_vars PROVE DebugBudget'
  OBVIOUS
<1>0. /\ TypeOK /\ OutcomeInv /\ CurrentIsListed /\ DebugBudget
      /\ NoRepo \notin Repos
  BY ReposAssumption DEF IMore, IInv
<1>1. CASE /\ Started' = Started
           /\ UNCHANGED <<debug, debugCount>>
  BY <1>0, <1>1 DEF DebugBudget
<1>2. ASSUME Quiet \/ GroupWait \/ Signal \/ UNCHANGED vars
      PROVE  Started' = Started /\ UNCHANGED <<debug, debugCount>>
  BY <1>2
  DEF Quiet, Top, PageEmpty, PageCanceled, PageFailed, PageDone, StopInPage, StopAtDebugLimit,
      Exit, GroupWait, Signal, vars, Started
<1>3. ASSUME PageListed
      PROVE  Started' = Started /\ UNCHANGED <<debug, debugCount>>
  <2>1. \A q \in Repos : stage'[q] # stage[q] => stage[q] = "unseen" /\ stage'[q] = "listed"
    BY <1>3 DEF PageListed, Unseen
  <2> QED BY <1>3, <2>1 DEF PageListed, Started
<1>4. ASSUME NEW r \in Repos, SkipArchivedRepo(r)
      PROVE  Started' = Started /\ UNCHANGED <<debug, debugCount>>
  <2>1. /\ stage[r] = "listed" /\ stage'[r] = "done" /\ outcome'[r] = "archived"
        /\ \A q \in Repos \ {r} : stage'[q] = stage[q] /\ outcome'[q] = outcome[q]
        /\ current' = current /\ current # r
    BY <1>0, <1>4 DEF SkipArchivedRepo, Batch, TypeOK
  <2> QED BY <1>4, <2>1 DEF SkipArchivedRepo, Started
<1>5. ASSUME Dispatch
      PROVE  Started' = Started /\ UNCHANGED <<debug, debugCount>>
  <2>1. /\ current \in Repos /\ current' = NoRepo
        /\ stage[current] = "listed" /\ stage'[current] = "fetch"
        /\ outcome[current] = "none" /\ outcome' = outcome
        /\ \A q \in Repos \ {current} : stage'[q] = stage[q]
    BY <1>0, <1>5 DEF Dispatch, CurrentIsListed, OutcomeInv, TypeOK
  <2> QED BY <1>0, <1>5, <2>1 DEF Dispatch, Started
<1>6. ASSUME NEW r \in Repos,
             FetchOk(r) \/ Importing(r) \/ Finishing(r) \/ Release(r) \/ GroupDone(r)
      PROVE  Started' = Started /\ UNCHANGED <<debug, debugCount>>
  BY <1>0, <1>6, StartedByWorker, WorkerChanges
<1>7. ASSUME NEW r \in Repos, TakeRepo(r) PROVE DebugBudget'
  <2>1. /\ r \notin Started /\ current = NoRepo
        /\ Started' = Started \cup {r}
    <3>1. stage[r] = "listed" /\ current = NoRepo
      BY <1>0, <1>7 DEF TakeRepo, Batch, CurrentIsListed
    <3>2. r \notin Started
      BY <3>1 DEF Started
    <3>3. UNCHANGED <<stage, outcome>> /\ current' = r
      BY <1>7 DEF TakeRepo
    <3> QED BY <1>0, <3>1, <3>2, <3>3 DEF Started
  <2>2. Cardinality(Started') = Cardinality(Started) + 1
    BY <1>0, <2>1, StartedFinite, FS_AddElement
  <2>3. /\ debug' = debug
        /\ debug => debugCount' = debugCount + 1 /\ debugCount + 1 <= MaxDebugRepos
    BY <1>0, <1>7, ConfigAssumption DEF TakeRepo, DebugLimitReached, TypeOK
  <2> QED BY <1>0, <2>2, <2>3, StartedFinite DEF DebugBudget
<1>8. CASE SlotRefused
  <2>1. current \in Started /\ Started' = Started \ {current}
    <3>1. current \in Repos /\ stage[current] = "listed"
      BY <1>0, <1>8 DEF SlotRefused, CurrentIsListed
    <3>2. UNCHANGED <<stage, outcome>> /\ current' = NoRepo
      BY <1>8 DEF SlotRefused
    <3> QED BY <1>0, <3>1, <3>2 DEF Started
  <2>2. Cardinality(Started') = Cardinality(Started) - 1
    BY <1>0, <2>1, StartedFinite, FS_RemoveElement
  <2>3. debug' = debug /\ (debug => debugCount' = debugCount - 1)
    BY <1>8 DEF SlotRefused, UnreservedCount
  <2> QED BY <1>0, <2>2, <2>3, StartedFinite, ConfigAssumption DEF DebugBudget
<1> QED
  BY <1>0, <1>1, <1>2, <1>3, <1>4, <1>5, <1>6, <1>7, <1>8, NextCases

-----------------------------------------------------------------------------
\* Every step keeps why the loops end.
LEMMA LoopStep == IMore /\ [Next]_vars => LoopInv'
<1> SUFFICES ASSUME IMore, [Next]_vars PROVE LoopInv'
  OBVIOUS
<1>0. TypeOK /\ LoopInv /\ CurrentIsListed /\ DebugBudget /\ ErrorInv
  BY DEF IMore, IInv
<1>1. CASE Quiet
  <2>a. graceful => graceful'
    BY <1>0, <1>1, OtherChanges
  <2>b. UNCHANGED <<stage, debug, debugCount>>
    BY <1>1
    DEF Quiet, Top, PageEmpty, PageCanceled, PageFailed, PageDone, StopInPage, StopAtDebugLimit,
        Exit
  <2>0. UNCHANGED <<stage, debug, debugCount>> /\ (graceful => graceful')
    BY <2>a, <2>b
  <2>1. CASE Top \/ PageFailed \/ Exit
    <3>1. /\ main' \in {"top", "page"} => main \in {"top", "page"}
          /\ main' = "wait" => graceful'
          /\ result' = "nil" => result = "nil"
      BY <1>0, <2>1 DEF Top, PageFailed, Exit, Break
    <3> QED BY <1>0, <2>0, <3>1 DEF LoopInv
  <2>2. CASE PageCanceled \/ StopInPage
    <3>1. main' = "wait" /\ graceful'
      BY <2>2 DEF PageCanceled, StopInPage, Break
    <3> QED BY <3>1 DEF LoopInv
  <2>3. CASE PageEmpty
    <3>1. \A r \in Repos : stage[r] \notin {"unseen", "listed"}
      BY <1>0, <2>3 DEF PageEmpty, Unseen, LoopInv
    <3>2. main' = "wait"
      BY <2>3 DEF PageEmpty, Break
    <3> QED BY <2>0, <3>1, <3>2 DEF LoopInv
  <2>4. CASE PageDone
    <3>1. /\ \A r \in Repos : stage[r] # "listed"
          /\ main' = "top" /\ result' = result
      BY <1>0, ReposAssumption, <2>4 DEF PageDone, Batch, CurrentIsListed
    <3> QED BY <1>0, <2>0, <3>1 DEF LoopInv
  <2>5. ASSUME NEW r \in Repos, StopAtDebugLimit(r) PROVE LoopInv'
    <3>1. debug /\ debugCount = MaxDebugRepos /\ main' = "wait"
      BY <1>0, <2>5, ConfigAssumption
      DEF StopAtDebugLimit, DebugLimitReached, Break, DebugBudget, TypeOK
    <3> QED BY <2>0, <3>1 DEF LoopInv
  <2> QED BY <1>1, <2>1, <2>2, <2>3, <2>4, <2>5 DEF Quiet
<1>2. ASSUME PageListed \/ Dispatch \/ \E r \in Repos : SkipArchivedRepo(r) \/ TakeRepo(r)
      PROVE  LoopInv'
  <2>1. main' \in {"repo", "slot"} /\ result' = result /\ main \in {"page", "slot", "repo"}
    BY <1>2 DEF PageListed, Dispatch, SkipArchivedRepo, TakeRepo
  <2> QED BY <1>0, <2>1 DEF LoopInv, ErrorInv
<1>3. CASE SlotRefused
  <2>1. \/ main' = "wait" /\ graceful'
        \/ main' = "returned" /\ result' = "canceled"
    BY <1>3 DEF SlotRefused, Break
  <2> QED BY <2>1 DEF LoopInv
<1>4. CASE GroupWait \/ Signal \/ UNCHANGED vars
  <2>1. /\ UNCHANGED <<stage, debug, debugCount, graceful>>
        /\ main' = "wait" \/ result' = "nil" => main = "wait" \/ result = "nil"
        /\ main' \in {"top", "page"} => main' = main
    BY <1>4 DEF GroupWait, Signal, vars
  <2> QED BY <1>0, <2>1 DEF LoopInv
<1>5. ASSUME NEW r \in Repos,
             FetchOk(r) \/ Importing(r) \/ Finishing(r) \/ Release(r) \/ GroupDone(r)
      PROVE  LoopInv'
  BY <1>0, <1>5, WorkerChanges DEF LoopInv
<1> QED BY <1>0, <1>1, <1>2, <1>3, <1>4, <1>5, NextCases

\* The invariant is inductive and holds throughout.
LEMMA MoreInvariance == Spec => []IMore
<1>1. Init /\ IInv => IMore
  <2> SUFFICES ASSUME Init, IInv PROVE IMore
    OBVIOUS
  <2>1. OutcomeInv /\ LoopInv
    BY DEF Init, OutcomeInv, LoopInv
  <2>2. Started = {}
    BY DEF Init, Started
  <2>3. DebugBudget
    BY <2>2, FS_EmptySet, ConfigAssumption DEF Init, DebugBudget
  <2> QED BY <2>1, <2>3 DEF IMore
<1>2. IMore /\ IInv' /\ [Next]_vars => IMore'
  BY OutcomeStep, BudgetStep, LoopStep DEF IMore
<1> QED BY <1>1, <1>2, Invariance, PTL DEF Spec

-----------------------------------------------------------------------------
(* The theorems                                                            *)

\* The debug limit is kept exactly: each reserved slot belongs to a repository
\* that is started, and a refused one gives it back (app.go lines 92-106).
THEOREM DebugLimitIsExact == Spec => []DebugBudget
BY MoreInvariance, PTL DEF IMore

\* A run that returns nil without a stop or an abort is finished with every
\* repository, or with as many as the debug limit allows.
THEOREM NilMeansComplete == Spec => []FinishedRunIsComplete
<1>1. IMore => FinishedRunIsComplete
  <2> SUFFICES ASSUME IMore, result = "nil" PROVE FinishedRunIsComplete
    BY DEF FinishedRunIsComplete
  <2>0. /\ TypeOK /\ OutcomeInv /\ ErrorInv /\ LoopInv /\ CurrentIsListed /\ DebugBudget
        /\ Working = {} /\ ~groupErr
        /\ main \in {"returned", "exited"}
    BY DEF IMore, IInv, ErrorInv
  <2>1. \A r \in Repos : stage[r] \in {"unseen", "listed", "done"}
    BY <2>0 DEF Working, Holding, TypeOK, Stage
  <2>2. \A r \in Repos : outcome[r] # "failed"
    BY <2>0, <2>1 DEF ErrorInv
  <2>3. ASSUME ~graceful, ~processingCancelled
        PROVE  \/ \A r \in Repos : outcome[r] \in {"imported", "skipped", "archived"}
               \/ debug /\ Cardinality({r \in Repos : outcome[r] \in {"imported", "skipped"}})
                               = MaxDebugRepos
    <3>1. \A r \in Repos :
             outcome[r] \in {"imported", "skipped", "archived"} <=> stage[r] = "done"
      BY <2>0, <2>1, <2>2, <2>3 DEF OutcomeInv, groupCancelled, TypeOK, Outcome
    <3>2. CASE \A r \in Repos : stage[r] \notin {"unseen", "listed"}
      BY <2>1, <3>1, <3>2
    <3>3. CASE debug /\ debugCount = MaxDebugRepos
      <4>1. Started = {r \in Repos : outcome[r] \in {"imported", "skipped"}}
        BY <2>0, <2>1, <3>1 DEF Started, CurrentIsListed
      <4> QED BY <2>0, <3>3, <4>1 DEF DebugBudget
    <3> QED BY <2>0, <2>3, <3>2, <3>3 DEF LoopInv
  <2> QED BY <2>0, <2>2, <2>3 DEF FinishedRunIsComplete
<1> QED BY <1>1, MoreInvariance, PTL

-----------------------------------------------------------------------------
(* The refinement                                                          *)

\* What the mapping makes of the runner's state.
Importings == {r \in Repos : stage[r] = "import"}
Saved == {r \in Repos : outcome[r] = "imported"}
Failed == {r \in Repos : outcome[r] = "failed"}

\* The mapping sees nothing of a step that moves neither of these.
LEMMA NotSeen ==
    ASSUME Importings' = Importings, Saved' = Saved, Failed' = Failed,
           main' # "exited", main # "exited"
    PROVE  UNCHANGED Job!jobVars
BY DEF Job!jobVars, Importings, Saved, Failed

\* A worker that ends its fetch is not seen, one that ends its import saves or
\* refuses its repository.
LEMMA FinishingMaps ==
    ASSUME IMore, NEW r \in Repos, Finishing(r)
    PROVE  [Job!JobNext]_Job!jobVars
<1>0. TypeOK /\ OutcomeInv
  BY DEF IMore, IInv
<1>1. PICK from \in {"fetch", "fetched", "import"}, how \in Outcome :
         /\ Finish(r, from, how)
         /\ \/ from = "fetch" /\ how \in {"skipped", "aborted", "interrupted"}
            \/ from = "fetched" /\ how = "failed"
            \/ from = "import" /\ how \in {"imported", "failed"}
  BY DEF Finishing
<1>2. /\ stage[r] = from /\ stage'[r] = "release"
      /\ outcome[r] = "none" /\ outcome'[r] = how
      /\ \A q \in Repos \ {r} : stage'[q] = stage[q] /\ outcome'[q] = outcome[q]
      /\ main # "exited" /\ main' = main
  BY <1>0, <1>1 DEF Finish, WorkerStep, Alive, OutcomeInv, TypeOK
<1>3. Importings' = Importings \ {r}
  BY <1>1, <1>2 DEF Importings
<1>4. r \notin Saved \cup Failed
  BY <1>2 DEF Saved, Failed
<1>5. CASE how \in {"skipped", "aborted", "interrupted"}
  <2>1. r \notin Importings
    BY <1>1, <1>2, <1>5 DEF Importings
  <2>2. Saved' = Saved /\ Failed' = Failed
    BY <1>2, <1>5 DEF Saved, Failed
  <2> QED BY <1>2, <1>3, <2>1, <2>2, NotSeen
<1>6. CASE how = "imported"
  <2>1. r \in Importings
    BY <1>1, <1>2, <1>6 DEF Importings
  <2>2. Saved' = Saved \cup {r} /\ Failed' = Failed
    BY <1>2, <1>6 DEF Saved, Failed
  <2>3. Job!Save(r)
    BY <1>2, <1>3, <2>1, <2>2 DEF Job!Save, Importings, Saved, Failed
  <2> QED BY <2>3 DEF Job!JobNext
<1>7. CASE how = "failed"
  <2>1. Saved' = Saved /\ Failed' = Failed \cup {r}
    BY <1>2, <1>7 DEF Saved, Failed
  <2>2. Job!Refuse(r)
    BY <1>2, <1>3, <1>4, <2>1 DEF Job!Refuse, Importings, Saved, Failed
  <2> QED BY <2>2 DEF Job!JobNext
<1> QED BY <1>1, <1>5, <1>6, <1>7

\* The job counts as the runner does.
LEMMA JobCardinality == ASSUME NEW S PROVE Job!Cardinality(S) = Cardinality(S)
BY DEF Job!Cardinality, Cardinality

\* A worker that begins its import is one more of those that hold a slot.
LEMMA ImportingMaps ==
    ASSUME IMore, [Next]_vars, NEW r \in Repos, Importing(r)
    PROVE  Job!BeginImport(r)
<1>0. TypeOK /\ OutcomeInv /\ IInv
  BY DEF IMore, IInv
<1>1. /\ stage[r] = "fetched" /\ stage'[r] = "import" /\ outcome' = outcome
      /\ \A q \in Repos \ {r} : stage'[q] = stage[q]
      /\ main # "exited" /\ main' = main
  BY <1>0 DEF Importing, WorkerStep, Alive, TypeOK
<1>2. Importings' = Importings \cup {r}
  BY <1>1 DEF Importings
<1>3. r \notin Importings \cup Saved \cup Failed
  BY <1>0, <1>1 DEF OutcomeInv, Importings, Saved, Failed
<1>4. Cardinality(Importings') <= Parallelism
  <2>1. Importings' \subseteq Holding'
    BY DEF Importings, Holding
  <2>2. /\ Cardinality(Importings') <= Cardinality(Holding')
        /\ Cardinality(Importings') \in Nat
    BY <2>1, HoldingNextFinite, FS_Subset, FS_CardinalityType
  <2>3. Cardinality(Holding') <= Parallelism
    BY <1>0, SlotsStep DEF SlotsMatchWorkers
  <2> QED BY <2>2, <2>3, HoldingNextFinite, ConfigAssumption
<1>5. Saved' = Saved /\ Failed' = Failed
  BY <1>1 DEF Saved, Failed
<1>6. Job!Cardinality({q \in Repos : stage[q] = "import"}') <= Parallelism
  BY <1>4, JobCardinality, Zenon DEF Importings
<1>7. /\ {q \in Repos : stage[q] = "import"}' = {q \in Repos : stage[q] = "import"} \cup {r}
      /\ r \notin {q \in Repos : stage[q] = "import"}
                  \cup {q \in Repos : outcome[q] = "imported"}
                  \cup {q \in Repos : outcome[q] = "failed"}
  BY <1>2, <1>3, Zenon DEF Importings, Saved, Failed
<1>8. UNCHANGED <<{q \in Repos : outcome[q] = "imported"}, {q \in Repos : outcome[q] = "failed"}>>
  BY <1>5, Zenon DEF Saved, Failed
<1> QED
  BY <1>1, <1>6, <1>7, <1>8, Zenon DEF Job!BeginImport

\* The process ends with status 0 only when nothing is under way and nothing
\* has failed.
LEMMA ExitMaps ==
    ASSUME IMore, Exit
    PROVE  [Job!JobNext]_Job!jobVars
<1>0. TypeOK /\ ErrorInv
  BY DEF IMore, IInv
<1>1. /\ UNCHANGED <<stage, outcome, result>>
      /\ main # "exited" /\ main' = "exited"
  BY DEF Exit
<1>2. UNCHANGED <<Importings, Saved, Failed>>
  BY <1>1 DEF Importings, Saved, Failed
<1>3. CASE result = "nil"
  <2>1. Importings = {} /\ Failed = {}
    BY <1>0, <1>3 DEF ErrorInv, Importings, Failed, Working, Holding
  <2>2. Job!Succeed
    BY <1>1, <1>2, <1>3, <2>1 DEF Job!Succeed, ExitCode, Importings, Saved, Failed
  <2> QED BY <2>2 DEF Job!JobNext
<1>4. CASE result # "nil"
  <2>1. Job!Fail
    BY <1>1, <1>2, <1>4 DEF Job!Fail, ExitCode, Importings, Saved, Failed
  <2> QED BY <2>1 DEF Job!JobNext
<1> QED BY <1>3, <1>4

\* Each step of the runner is one of the job's, or changes nothing there.
LEMMA JobStep ==
    ASSUME IMore, [Next]_vars
    PROVE  [Job!JobNext]_Job!jobVars
<1>0. TypeOK /\ CurrentIsListed /\ OutcomeInv
  BY DEF IMore, IInv
<1>1. CASE Exit
  BY <1>1, ExitMaps
<1>2. CASE UNCHANGED vars
  BY <1>2 DEF vars, Job!jobVars, ExitCode
<1>3. ASSUME \/ Top \/ PageEmpty \/ PageCanceled \/ PageFailed \/ PageDone \/ StopInPage
             \/ SlotRefused \/ GroupWait
             \/ \E r \in Repos : StopAtDebugLimit(r) \/ TakeRepo(r)
      PROVE  UNCHANGED Job!jobVars
  <2>1. UNCHANGED <<stage, outcome>> /\ main # "exited" /\ main' # "exited"
    BY <1>3
    DEF Top, PageEmpty, PageCanceled, PageFailed, PageDone, StopInPage, SlotRefused, GroupWait,
        StopAtDebugLimit, TakeRepo, Break
  <2> QED BY <2>1, NotSeen DEF Importings, Saved, Failed
<1>4. CASE Signal
  <2>1. UNCHANGED <<stage, outcome, main, result>>
    BY <1>4 DEF Signal
  <2> QED BY <2>1 DEF Job!jobVars, ExitCode
<1>5. ASSUME PageListed PROVE UNCHANGED Job!jobVars
  <2>1. /\ \A q \in Repos : stage'[q] # stage[q] => stage[q] = "unseen" /\ stage'[q] = "listed"
        /\ outcome' = outcome /\ main = "page" /\ main' = "repo"
    BY <1>5 DEF PageListed, Unseen
  <2>2. Importings' = Importings /\ Saved' = Saved /\ Failed' = Failed
    BY <2>1 DEF Importings, Saved, Failed
  <2> QED BY <2>1, <2>2, NotSeen
<1>6. ASSUME NEW r \in Repos, SkipArchivedRepo(r) PROVE UNCHANGED Job!jobVars
  <2>1. /\ stage[r] = "listed" /\ stage'[r] = "done"
        /\ outcome[r] = "none" /\ outcome'[r] = "archived"
        /\ \A q \in Repos \ {r} : stage'[q] = stage[q] /\ outcome'[q] = outcome[q]
        /\ main = "repo" /\ main' = main
    BY <1>0, <1>6 DEF SkipArchivedRepo, Batch, OutcomeInv, TypeOK
  <2>2. Importings' = Importings /\ Saved' = Saved /\ Failed' = Failed
    BY <2>1 DEF Importings, Saved, Failed
  <2> QED BY <2>1, <2>2, NotSeen
<1>7. ASSUME Dispatch PROVE UNCHANGED Job!jobVars
  <2>1. /\ stage[current] = "listed" /\ stage'[current] = "fetch" /\ outcome' = outcome
        /\ \A q \in Repos \ {current} : stage'[q] = stage[q]
        /\ main = "slot" /\ main' = "repo"
    BY <1>0, <1>7 DEF Dispatch, CurrentIsListed, TypeOK
  <2>2. Importings' = Importings /\ Saved' = Saved /\ Failed' = Failed
    BY <2>1 DEF Importings, Saved, Failed
  <2> QED BY <2>1, <2>2, NotSeen
<1>8. ASSUME NEW r \in Repos, FetchOk(r) \/ Release(r) \/ GroupDone(r)
      PROVE  UNCHANGED Job!jobVars
  <2>1. /\ stage[r] # "import" /\ stage'[r] # "import" /\ outcome' = outcome
    BY <1>0, <1>8 DEF FetchOk, Release, GroupDone, WorkerStep, TypeOK
  <2>2. /\ main # "exited" /\ main' = main
        /\ \A q \in Repos \ {r} : stage'[q] = stage[q]
    BY <1>0, <1>8, WorkerChanges
  <2>3. Importings' = Importings /\ Saved' = Saved /\ Failed' = Failed
    BY <2>1, <2>2 DEF Importings, Saved, Failed
  <2> QED BY <2>2, <2>3, NotSeen
<1>9. ASSUME NEW r \in Repos, Importing(r) PROVE Job!JobNext
  BY <1>9, ImportingMaps DEF Job!JobNext
<1>10. ASSUME NEW r \in Repos, Finishing(r) PROVE [Job!JobNext]_Job!jobVars
  BY <1>10, FinishingMaps
<1> QED
  BY <1>0, <1>1, <1>2, <1>3, <1>4, <1>5, <1>6, <1>7, <1>8, <1>9, <1>10, NextCases DEF Quiet

\* The runner implements SnapshotJob: imports are begun a bounded number at a
\* time and only while the job runs, and it reports success only when each
\* import it began has been saved (app.go lines 54-162, main.go lines 83-99).
THEOREM RunnerKeepsJobPromise == Spec => KeepsJobPromise
<1>1. Init => Job!JobInit
  BY DEF Init, Job!JobInit
<1> QED BY <1>1, JobStep, MoreInvariance, PTL DEF Spec, KeepsJobPromise, Job!JobSpec
=============================================================================
