# A TLA+ model of reposnusern

reposnusern takes a snapshot of all repositories of a GitHub organisation: it
walks the organisation's listing page by page, fetches each repository through
GitHub's GraphQL and REST interfaces, and writes what it found to PostgreSQL or
BigQuery. It runs as a job; a run is stopped by signals, slowed down by GitHub's
rate limits, and works on several repositories at once. This directory holds TLA+
modules for that behaviour, the TLC configurations that check them on small
instances, and proofs of their main invariants.

## Inventory

| component | code | state | operations | interacts with |
|---|---|---|---|---|
| process and signals | `cmd/reposnusern/main.go` | two contexts, exit status | first and second signal, `Run`, exit | cancels the contexts of everything else |
| runner | `internal/runner/app.go` | page number, debug counter, semaphore, errgroup, `gracefulShutdown` | page loop, dispatch, worker, `g.Wait` | calls the fetcher and the writer, shares counters with its workers |
| rate limiter | `internal/fetcher/ratelimit.go` | deadline and counters of each resource, a mutex | `Wait`, `BlockFor`, `BlockUntil`, `Stats`, `Reset` | shared by all goroutines that send requests |
| request and retry | `internal/fetcher/github.go` 250-373, `waitcontext.go` | attempt counter of each request | `doRequestWithHeaders`, `sleepWithContext` | rate limiter, HTTP client, both contexts |
| repository fetch | `github.go` 121-248, 375-391, 804-959 | entry under construction, token | `GetReposPage`, `FetchRepoGraphQL`, SBOM, tree, file contents | request and retry, parsers |
| response extraction | `github.go` 500-719, 785-802 | none | `Extract*`, `IsMonorepoCandidate` | repository fetch |
| PostgreSQL writer | `internal/dbwriter/postgresql.go`, `internal/storage` | one connection, a transaction | `ImportRepo` | database |
| BigQuery writer | `internal/bqwriter/bqwriter.go` | none of its own | `ImportRepo`: up to six appends | BigQuery tables |
| BigQuery schema sync | `bqwriter.go` 23-52, 408-459 | none of its own | `ensureTableExists`, `syncSchema` | BigQuery tables |
| configuration | `internal/config/config.go` | settings | read and validate | everything |
| parsers | `internal/parser/*.go` | none | Dockerfile, workflow and shell-line analysis, lockfile pairing | fetch (lockfiles) and both writers (the rest) |

What is hard here, and what makes each component correct:

- **Runner.** Three contexts end at different times (`shutdownCtx` by the first
  signal, `groupCtx` by a failed import or the second signal, `processingCtx` by
  the second signal), `acquireWorkerSlot` chooses at random between a slot and a
  signal, a worker's deferred `<-sem` runs before the errgroup has seen its error,
  and `Run` has five ways to return. Correct means: never more than `Parallelism`
  workers and no slot lost, the debug limit exact, at most one repository started
  after the stop signal, no success reported over a failed import, the run always
  ends.
- **Rate limiter.** Several goroutines learn of the same cooldown at once, with
  different lengths; `BlockFor` reads the clock outside the mutex. Correct means:
  cooldowns only grow, sleepers wake in time, the counters in the summary are true.
- **Requests.** Cooldowns, transient failures and two kinds of interruption meet
  in one loop. Correct means: a resource in cooldown is left alone, a stop signal
  ends every wait at once, every request ends, and the error tells the runner why.
- **Repository fetch.** Errors of the requests after the first one are swallowed;
  the token is fetched once although a cooldown may outlast it.
- **Parsers.** Hand-written line readers: whether a line continues an instruction,
  ends a block or opens the next one depends on the lines before it, and one wrong
  decision shifts everything after it. Correct means: instructions are what Docker reads,
  stages are what is built from outside, shell lines are all found and nothing else is
  taken for one.
- **Writers.** Failures between the statements or appends of one repository, the
  end of the process at any point, and a second run on the same day.

`PROJECT.json` lists every hazard at its line with the properties that cover it.

## Modules

| module | models | extends |
|---|---|---|
| `RateLimiter` | the limiter: clock, deadlines, counters, goroutines inside `Wait` and `BlockFor` | |
| `Request` | requests of several goroutines through the limiter | `RateLimiter` |
| `Runner` | one run of the process | |
| `SnapshotJob` | what a run promises (abstract) | |
| `FetchRepo` | the runner with the inside of each fetch | `Runner` |
| `PostgresWriter` | the PostgreSQL writer's imports over the runs of a day | |
| `SnapshotStore` | what a writer promises of a day's rows (abstract) | |
| `BigQueryWriter` | the runner with the inside of each import into BigQuery | `Runner` |
| `BigQuerySchema` | the start of BigQuery writers: tables and columns | |
| `Shell` | how a shell command line is judged | |
| `Dockerfile`, `Workflow` | the two parsers, line by line | `Shell` |
| `Parsers` | a file of an entry in the hands of its parser | `Dockerfile`, `Workflow` |
| `Request_proofs` | theorems about the limiter and the requests through it | `Request` |
| `Runner_proofs` | theorems about the runner | `Runner` |
| `FetchRepo_proofs`, `BigQueryWriter_proofs` | theorems about fetches and imports inside a run | `FetchRepo`, `BigQueryWriter`, `Runner_proofs` |
| `Dockerfile_proofs` | lemmas about the Dockerfile parser, one inductive invariant for each of its properties | `Dockerfile` |
| `Parsers_proofs` | the same for workflows, and the theorems about both parsers | `Parsers`, `Dockerfile_proofs` |
| `PostgresWriter_proofs`, `BigQuerySchema_proofs` | theorems | the module they are about |
| `MCRequest`, `MCRunner`, `MCFetchRepo`, `MCPostgresWriter`, `MCBigQueryWriter`, `MCBigQuerySchema`, `MCParsers` | instances for TLC | the module they check |

### How the modules correspond to the code

**`RateLimiter`.** `states` is the limiter's map; a duration is a number of clock
ticks, and `time.Time`'s zero value is instant 0. A step is one critical section
of `mu` or one thing done outside of it: `WaitPass` and `WaitSleep` are the two
exits of the locked part of `Wait`, `SleepOver` and `SleepAbort` the two ends of
`sleepWithContext`, `BlockFor` is the reading of the clock, `BlockUntil` the locked
part that follows it. `history` is not in the code: it records for how long each
resource really was blocked (`spent`) and by how much calls were late (`lost`).
The code reads the clock more than once inside a critical section; those readings
are taken to be the same tick. `Stats` and `Reset` only read and initialise.

**`Request`.** `req[c].pc` is the place of caller `c` in the loop of
`doRequestWithHeaders`; the actions are its branches. The caller `Pager` is the
goroutine that runs `GetReposPage` under `shutdownCtx`; the others are workers
under `groupCtx` with `WithWaitInterrupt`. An answer of GitHub is a record of what
the code looks at: the status, the three headers, and whether the body's errors are
all rate limits. `rateLimitWait` and `graphQLRateLimitWait` decide, in the code's
order, whether it is a cooldown and of what length; a second is a tick. `WaitsCoverHorizon`
says that the limiter is prepared for every wait that ends before `Horizon`. A rate-limited GraphQL
body makes `FetchRepoGraphQL` call `BlockFor` and start the request anew with the next `round`
of its backoff, which is the same step. A rate limit sets the attempt counter back
(github.go 334), so `MaxAttempts` bounds the attempts since the last one. A cancelled
request comes back as `canceled`, also where the HTTP client wraps the context's
error. `sent` and `told` are not in the code: they record what each caller sends into a
cooldown, and until when GitHub told the callers to stay away.

**`Runner`.** `main` is the place of the main goroutine, `stage[r]` the place of
repository `r` from the listing to the end of its worker's goroutine, `sem` the
number of tokens in the channel. The deferred release and the errgroup's
bookkeeping are two steps (`Release`, `GroupDone`), in that order. A fetch and an
import are steps with all their outcomes: `FetchFailed` (GitHub's answer),
`FetchCanceled` (its context ended), `FetchInterrupted` (`ErrWaitInterrupted`),
and a fetch that had swallowed an error is `FetchOk`, as in the code. The listing
returns each repository once, in pages of any size; a repository that moves
between pages while they are fetched is not modelled. `late` is not in the code.

**`SnapshotJob`** knows only which repositories are being imported, saved or
refused, and the status of the job. `Runner!KeepsJobPromise` is its specification
under the mapping in `Job`: a step of the runner begins, saves or refuses one
import, ends the job, or changes nothing there.

**`FetchRepo`.** Adds to `Runner` the variable `fetch`: the request each fetch is
in, the files in the entry so far, and why requests failed whose errors were
swallowed (`lost`, not in the code). Its actions are the requests of
`FetchRepoGraphQL` in their order, the lockfile analysis, and the return; a worker
that has returned from it goes on as in `Runner`. Each request is one step that
succeeds or fails for one of the reasons that `Request` shows possible at that
moment. A file is a model value with its attributes (in the root, capital
letter, ignored directory, the lockfiles that fit it in its own directory), because
the code's decisions depend on nothing else. `DetectLockfilePairings` is part of the last
step: each manifest of the entry outside ignored directories with the first lockfile
beside it, in the order of the code's table. A
tree that GitHub truncated and the expiry of the token during a long cooldown are
not modelled.

**`PostgresWriter`.** `import[r]` is the place of repository `r` in `ImportRepo`,
`conn` the transaction that has the pool's only connection, `stored` the
committed rows with the run that wrote each and the number of its copies. A
statement inserts one row; the order of the statements of one transaction is left
open, as nobody sees it. `database/sql` and the server are modelled as the code
meets them: after a failed statement PostgreSQL answers every other statement of
the transaction with an error and turns its commit into a rollback, which `lib/pq`
reports as an error. A commit whose answer is lost may have saved the rows.
`NewRun` is the end of the process at any moment, by a signal, an error or a panic,
followed by the job's next run on the same day.

**`SnapshotStore`** knows neither connections nor transactions: a repository's rows
are saved at once or not at all, "ok" is answered only for saved rows, "error" says
nothing. `PostgresWriter!KeepsStorePromise` is its specification under the mapping
in `Store`.

**`BigQueryWriter`.** Adds to `Runner` the appends of each import: `import[r].next` is the number of
the table whose turn it is, `sent` says that a request is on its way, `tables`
counts how often BigQuery has each repository's rows of each table. A table without rows
(`NoRows`) is passed over without a request, as `insert` does; `insert` and
`PutOk` are two steps, so that a cancellation, a failure elsewhere or the end of
the process may come between a request and its answer; `PutFailed` leaves the rows
appended or not. Rows carry the time of their run, so other runs do not matter.
BigQuery is taken to append all rows of a request or none, and to drop the
duplicates of the client library's own retries by their row ids.

**`BigQuerySchema`.** A process goes through its tables in any order (the code ranges
over a map): it reads a table's metadata, and then creates the table (409 if it
exists by now), updates it under the ETag it read (412 if that has changed), or
goes on. `Wants` are the columns of each process's structs, so that different
versions can meet; `Restart` ends a process and starts the next. `Touch` is a
change of a table's metadata by somebody else, once. Nobody is modelled to remove
a column or a table.

**`Dockerfile`.** A line is its words and a mark that it ends in a backslash.
`SkipLine`, `ContinueInstruction`, `EndInstruction` and `EndOfText` are the ways
through one round of the loop of `parseDockerInstructions` and its end; `Arg`, `From`,
`OtherInstruction` and `Return` those of `ParseDockerfile`. `Reference`,
`Assignment` and `Image` say what the regular expressions and
`splitDockerImageReference` find inside a word (a reference to an ARG, a setting of
one, name, tag and digest of an image); `Image` has the words with a tag or a digest, all others
are names of images as they stand. Quotes are left out. A reference is a word of its own;
one inside a longer word (`node:$V`) is not modelled.

**`Workflow`.** A line is its indentation, whether an item's dash follows, its key, how the
value is written, and words. The actions of `extractRunLines` are the branches of
its loop; `inBlock` and `blockIndent` are its variables. `result` also has the
number of each line, which the code drops. `JudgeLine` is the loop over those lines in
`ParseCIConfig`. A YAML document is what the two decoding loops look at: whether it
decodes, its events, the secrets it names. In **`Shell`** a word is a command with
its subcommand, a flag or a separator; the expressions that match them are left out, the
splitting into segments and the rule which command decides are not.

Definitions whose comment starts with "Mutant of" are not used by any
specification. They are the same definition with a plausible bug and stand before
the one they alter; replacing the original by one of them makes the property that
`PROJECT.json` names fail, which shows that the property can.

## Runs

| run | instance | result | distinct states |
|---|---|---|---|
| `request` | 1 worker and the pager, 2 resources, 10 answers, waits of 1 and 2 ticks, clock 0..2, two attempts, one request each | pass | 157 000 |
| `runner` | 4 repositories, one archived; 2 slots; debug limit 2, debug on and off | pass | 361 000 |
| `fetch_repo` | 2 repositories, 2 slots, 3 sets of contents with up to 5 files each | pass | 6.1 million |
| `postgres` | 2 imports of up to 2 rows besides the repository's own, 2 runs | pass | 46 600 |
| `bigquery` | 2 repositories, 2 slots, entries with rows for 1, 3 and 6 tables | pass | 228 000 |
| `bigquery_schema` | 2 processes of different versions, 2 tables, 3 columns, any initial tables | pass | 154 000 |
| `parsers` | all Dockerfiles of up to 4 out of 16 lines; all well-formed workflows of up to 5 out of 13 lines; up to 3 YAML documents out of 4 | pass | 879 000 |
| `fetch_interrupted`, `fetch_root` | as `fetch_repo` | violated | |
| `postgres_unique` | as `postgres` | violated | |
| `parsers_names`, `parsers_segments` | as `parsers` | violated | |

- `request` shows that a caller sends at most one request into a cooldown
  (`OneSendPerCooldown`), that nobody is let through before the instant GitHub named
  (`NobodyComesBackEarly`), that the error tells the cause (`ErrorsTellTheCause`),
  that a stop ends every wait although the clock stands still (`StopEndsWaiting`),
  that requests end (`RequestEnds`) and that they use the limiter as
  `RateLimiter` assumes (`UsesLimiter`). The answers are each status alone and each
  way to name an instant (seconds, a date, a reset, none or one that cannot be read) before, at and after the present
  one; both attempts, their backoff, and a cooldown before, between or after fit in
  two ticks. The run also shows what the limiter promises whoever uses it: that the reported wait time
  is exact (`WaitTimeAccounted`), that hits and extensions are counted exactly when they
  happen (`HitOpensWindow`, `ExtensionProlongs`, which also says that no cooldown is cut
  short) and that nobody oversleeps (`NoOversleep`). A report shorter and one longer
  than what is left of a running cooldown, and a call that gets the mutex after its
  own deadline, fit in two ticks as well. The retry loop is the limiter's only user; that
  the four hold for any other use, and for any number of callers, resources and ticks, is proved. Resources
  do not touch each other; two are enough to see it.
- `runner` shows the eight properties at the end of `Runner`, among them that the
  run ends (`Terminates`) and keeps the promise of `SnapshotJob`. Two slots and three
  unarchived repositories are the smallest instance in which the main goroutine
  waits for a slot while two workers interfere, and the third one is stopped by
  the debug limit, a signal or an error.
- `fetch_repo` shows that an entry which a cancellation cut short is never saved
  although the cancellation is swallowed (`NothingCutOffIsSaved`), that no file is
  in an entry twice (`NoFileTwice`), that an entry from which no request was lost
  has everything the two rules for looking below the root promise
  (`EntryIsComplete`), and that a repository whose lockfiles are called complete has one
  beside each manifest that was to be found (`VerdictIsSound`). Two repositories let the
  failed import of one cancel the fetch of the other; the three contents make every
  combination of the two rules happen, with and without lockfile. Repositories are
  symmetric and the run has no liveness property, so symmetry is sound.
- `postgres` shows that the connection belongs to exactly one import or nobody
  (`ConnectionHeld`), that every import gets it or an error (`ImportsEnd`), and that
  with swallowed statement errors, lost commit answers, the end of the process and
  a rerun a repository's rows stay whole (`KeepsStorePromise`). The price is that one
  failed statement, which the code only logs, fails the commit and with it the run.
  Two imports compete for the connection; one row with a version and one without show
  both kinds of key.
- `bigquery` shows that at no moment a row is there without the row it belongs to
  (`NoOrphans`), and that a job that ends with status 0 has left no half repository
  (`SuccessIsWhole`), although nothing is ever taken back. Two imports are enough for
  the failure of one to stop the other between any two appends.
- `bigquery_schema` shows that no process takes a column away (`ColumnsOnlyGrow`),
  that a process that has started finds its columns (`ServingHasColumns`), and that
  processes that start together do not all exit for a conflict
  (`NotEveryoneLoses`). Each version has a column the other lacks; two tables let the
  processes meet in opposite orders.
- `parsers` compares the loops with what the text means, said without a loop:
  instructions with comments and blank lines dropped and continued lines joined
  (`JoinedAsDocker`), stages as the FROMs from outside under the ARG in force
  (`StagesAreExternal`, `SummaryMatchesStages`), run fields and the blocks they open
  (`ShellLinesAreTaken`, `TakenInOwnStep`), the first command of each line with the flags of
  its own segment (`CommandsAreJudged`; what this leaves unreported is shown by `parsers_segments`),
  documents of which one is unreadable (`DocumentsAreRead`). A line's
  treatment depends on the state one earlier line has left, and on what
  that line found: ARG, ARG that uses it, FROM, FROM of its stage take four lines; a block, its
  text, a blank line, the line that ends it and its own block take five.

CHECK_DEADLOCK is off in all runs but `bigquery_schema`: a finished process, a parsed file, and
a clock at its bound with all callers idle, have no step left.

Bounds: `Horizon` (last instant of the clock), `MaxWaits` (no new `Wait` once a
resource counted that many; `request` never gets there), `MaxRequests` (requests per caller),
`MaxRuns` (runs of the job on one day), and the single `Touch` of `BigQuerySchema`. They sit in the
guards of `Tick`, `BlockFor`, the backoff, `WaitCall`, `Begin` and `NewRun`. Past `Horizon` no
wait can begin, so "GitHub behaves" there: this is why `RequestEnds` can hold
although rate-limit retries are unlimited in the code, and each starts the count of
transient failures over; a server that alternates the two for ever keeps a request going. The lengths of texts are bounded by
the sets `Texts` and `Workflows`.

### Fairness

`Runner!Fairness` is weak fairness of the main goroutine and of each worker: the Go
scheduler runs every runnable goroutine, HTTP calls end by the client's timeout of
30 seconds, database calls are taken to return. There is no fairness of signals.
Weak fairness of `Main` as a whole, and of a worker as a whole, says nothing about which
outcome a call has. `Request!RequestSpec` is fair to every step of every caller and
not to the clock; `RequestEnds` adds the clock as a premise, `StopEndsWaiting` does
without. `PostgresWriter!WriterSpec` is fair to each import's steps (every database
call returns) and not to `Cancel` or `NewRun`.

### Disagreements the runs show

1. `fetch_interrupted`: the first signal interrupts waits so that the repository is
   given up (app.go 121-123, and the test at app_test.go 193). That works in the
   GraphQL request; the SBOM, tree and file requests swallow `ErrWaitInterrupted`
   (github.go 386-389, 235-247, 929-932), and the repository is imported without them.
2. `fetch_root`: `ExtractFiles` looks a lower-cased name up among manifest names some of
   which have capital letters (github.go 606 and 612), and the tree search skips the root
   because it was "already fetched via GraphQL" (line 882): `Cargo.toml`, `Gemfile`,
   `Pipfile`, `Package.swift` and `DESCRIPTION` in the root are never in an entry.
3. `postgres_unique`: a package without a version is stored with NULL, which no unique
   key holds equal to another, so a second run on the same day inserts it again
   where the statement says `ON CONFLICT ... DO UPDATE`.
4. `parsers_names`: for `- run: |` the indentation of the dash is taken for that of the
   key (ciparser.go 52), so the keys that follow in the same step (`name:`, `env:` and their
   values) are read as shell lines, which the comment at ciparser.go 35 excludes.
5. `parsers_segments`: `splitRunSegments` splits a line "so that each individual command can be
   checked independently" (shellparser.go 5-6), but `commandMissingFlag` returns at the first segment
   with such a command (56-58): of `npm ci --ignore-scripts && npm ci` the second command is not
   judged, and nothing is reported.

Also seen in the code while modelling it, and without a run of their own:

- when a page cannot be listed (any error but a cancellation), `Run` returns without
  `g.Wait` (app.go 73); the process exits with workers half-way, also after a first signal
  that announced their completion;
- a fetch cancelled by the second signal is counted as one GitHub failed (app.go 125-127):
  `Run` returns nil and the process ends with status 0, where `main.go` 94-96 has an error
  for an aborted run;
- a comment between the lines of a continued instruction is taken as its last line
  (dockerfileparser.go 210 skips comments between instructions only), so that commands in it
  set flags; `JoinedAsDocker` leaves those texts out by its premise `Uninterrupted`;
- a block written `|+` or `>+` is taken as a command of one word (ciparser.go 68), and a mapping
  called `run`, as under `defaults:`, as a block of commands;
- a tree request that failed can make the lockfiles of a repository look complete; hence the
  premise `e.lost = {}` in `VerdictIsSound`.

## Theorems

Proved for all constants that satisfy the modules' assumptions (runner:
`ReposAssumption`, `ConfigAssumption`; limiter: `ResourcesAssumption`, `WaitsAssumption`,
`HorizonAssumption`, `MaxWaitsAssumption`; requests: `PagerAssumption`, `AnswersAssumption`,
`WaitsCoverHorizon`, `AttemptsAssumption`; fetches: `FilesAssumption`; writers: `EntriesAssumption`, `WriterAssumption`, `StartAssumption`,
`WantsAssumption`; parsers: `TextsAssumption`, `ReferenceAssumption`, `WorkflowsAssumption`). The runner's come from
`config.go`, which rejects other values; the limiter's say that there is a
resource and that a wait is positive, as `rateLimitWait` guarantees. The parsers' say that a text is
lines of words and a workflow lines and documents, and that a word with a `$` in front is not itself
an image's name with a tag.

`Request_proofs`, the limiter: `LimiterTypeCorrect` (TypeOK is inductive),
`WaitTimeIsAccounted` and `SleepersWakeInTime`. The heart of the second is
`ExtendAccounts`: prolonging a cooldown adds to `totalWait` what it adds to the
remaining time, less the lateness of the call; the clock moves time from remaining
to spent. The third rests on `DeadlineMonotone`: a sleeper's deadline was the
resource's when it went to sleep, and that one only moves forward. `CountersStep` says what a
step does to the counters; `HitsAreWindows` and `ExtensionsProlong` follow.

`Request_proofs`, the requests: `LimiterSteps` shows that every step of a request is a step of the limiter
or leaves it alone, so that `RequestsUseLimiter` holds and what the limiter promises holds
here (`LimiterInRequests`). The inductive invariant `RequestInv` adds what connects the two modules: a
request at the gate or in `BlockFor` is where its goroutine is in the limiter, for the same
resource, and a report asks for no less than the answer it stems from did (`Coupled`, from
`WaitIsEnough`, which goes through the ways to name an instant); what GitHub has told
lies within the cooldown (`ToldIsBlocked`); and whoever was let through, and has not sent
yet, has sent nothing into what may be a cooldown by then (`SentInto`). `OneSendPerCooldown` alone is not
inductive: a second request into the same cooldown is excluded because the gate opens
only when there is none. The theorems are `RequestTypeCorrect`, `OneSendEach`, `ErrorsTell`
and `NobodyIsEarly`.

`Runner_proofs`: the inductive invariant is

    IInv == TypeOK /\ CurrentIsListed /\ SlotsMatchWorkers /\ LateInv /\ ErrorInv

The parts need each other. `SlotsMatchWorkers` needs to know that the repository
the main goroutine is about to start has no worker yet (`CurrentIsListed`, which also
says that its debug slot is reserved, so that giving it back keeps the counter
natural). `OneStartAfterStop` is not inductive: a late start is possible only
while the main goroutine is past its check, in `slot`, and it then meets the
check before the next one (`LateInv`). `ImportErrorFailsRun` needs that a failed
import is either still on its way through a live worker or recorded by the errgroup,
and that a run that returned nil had waited for all of them (`ErrorInv`). From it
follow `TypeCorrect`, `SlotsAreWorkers`, `AtMostOneLateStart` and
`ImportErrorsAreReported`.

In its second part, `IMore` adds to `IInv` that outcomes fit stages (`OutcomeInv`), `DebugBudget`
(itself inductive given the rest), and that a loop which has passed its pages has left
nothing listed behind unless it was stopped (`LoopInv`). From it follow `DebugLimitIsExact`,
`NilMeansComplete` and the refinement `RunnerKeepsJobPromise`: the beginning of an import is the job's
`BeginImport`, its end `Save` or `Refuse`, the end of the process the job's end, all else invisible.

`FetchRepo_proofs` and `BigQueryWriter_proofs`: every step there is one of the runner's or
leaves it alone (`FetchesAreRunner`, `ImportsAreRunner`: both specifications imply the
runner's), so `IMore` and the promise of `SnapshotJob` hold in both. `FetchInv` adds, for each repository,
`CutOffAt` (an entry that lost a request to a cancellation belongs to a worker whose group is
cancelled and which is not importing, and `RunnerKeepsCut`: no step takes that back) and
`FilesAt` (what is in the entry at each stage, so that no later request can bring a file a
second time); `CutOffIsNotSaved` and `FilesComeOnce` follow. `GatheredInv` says what the requests
have gathered at each place (`Gathered`): nothing the repository does not hold, all the query
finds in its root, and if none was lost, at the end either all below the root or no reason to
look there. It does not mention the runner, so only the steps of a fetch can disturb it;
`EntriesAreComplete` and `VerdictsAreSound` follow, for any repositories and ecosystems. `WriterInv` adds to the runner's
invariant how far each import is (`Progress`: the tables before `next` have their rows once,
the others none);
`NoRowIsAnOrphan` and, with `ErrorInv`, `StatusZeroMeansWhole` follow.

`PostgresWriter_proofs`: the inductive invariant is types, `ConnectionHeld` and
`AnsweredOnReturn` (an import has its answer exactly when it has returned). From it
follow `OneHoldsTheConnection` and, with `ImportCases` (what a step of an import may do
to the connection, the tables and the answer), the refinement
`WriterKeepsStorePromise`: a commit that takes effect is the store's `Save`, a return
without one its `Refuse`, and everything else is invisible there.

`BigQuerySchema_proofs`: `SeenIsCurrent` says that what a process read is still so if the
ETag is, and that ETags only grow; with it an accepted update keeps every column
(`TablesGrow`, hence `NoColumnIsLost`), and with that a table once ensured stays so
(`EnsuredHasColumns`, hence `ServingProcessHasColumns`). `SomebodyIsUnbeaten` needs
`WinnerInv`: there is always a process that has met no conflict and would meet none
if it moved next; when another process changes a table, that one takes its place.
The assumptions are that there is a process and a table and that a process wants
at least one column of each table.

`Dockerfile_proofs` and `Parsers_proofs`: the properties of the parsers compare a loop with a
definition without one, at its end. Each invariant says the same of the part that has been read.

- `JoinInv`: what is left open at a line is the words of the kept lines joined so far (`OpenAt`), and the
  instructions are those of the lines before it that end one. `WordsUpTo` is the place where the premise
  `Uninterrupted` is needed: with it, the kept line before a line that is joined is the line right before it.
- `ArgsInv`: the known ARGs and names are those of the ARGs and FROMs read. An ARG's value is the text of
  its last setter, resolved when that was read (`GlobalArgRead`); that this is what `Meaning` says by
  recursion is `Resolved`.
- `StagesInv` needs both `ArgsInv`, for what a FROM refers to (`FromRead`), and `SummaryInv`, for the
  type of the stages: their number is that of the FROMs from outside among the instructions read, and each
  such FROM has its image at its own number.
- `SummaryInv`: the summary agrees with the stages; that there are several is noted at the end only.
- `OwnStepInv`, `ShellInv`: a line is taken under a field that opened its block, and every line of a
  block that has been passed is taken. The latter is not inductive alone: a block can begin inside what
  looks like another's text, and is not lost because the open block is no farther in (`blockIndent <= ...`).
- `TriggerInv`, `SecretsInv`: what the documents read so far say, until one cannot be read.
- `RunsJudged`, `LinesOfRunsJudged`, `OneParser`: a flag is set exactly for the lines read that miss it
  (`FirstDecides`: those whose first command lacks it in its own segment), and only one parser sets any.

`ParsersInv` is all of it. The theorems are `ParsersAreTyped`, `InstructionsAsDocker`,
`StagesFromOutside`, `SummaryIsOfStages`, `EveryShellLine`, `LinesInOwnStep`, `EveryDocument`
and `EveryCommand`. Two definitions they rest on are recursive functions, `ArgValue` and
`WordsTo`; a proof may unfold one only if such a function exists, which `ArgValuesExist` and
`WordsToExist` show: a least instruction (or line) up to which there is none cannot be, as each goes
back to earlier ones only.

Only model-checked: liveness (`Terminates`, `RequestEnds`, `StopEndsWaiting`,
`ImportsEnd`), which the prover does not handle, and what the five violated runs show.

## Plan

The modules above are done. What could follow, each with its runs and mutants: the token of
a GitHub App over a long cooldown; a listing that changes while its pages are fetched; a
tree that GitHub truncated.

## Not modelled

Regular expressions and the text inside a word, JSON decoding field by field, the conversion
of an entry to rows column by column, reading of configuration, logging, memory statistics and
generated SQL text: no state and no interleaving, or out of reach of a model of this size. API
call counting is an atomic counter that nothing reads before the end. GitHub App tokens are
fetched as part of a request and not modelled apart; whether a cooldown outlasts one depends on
GitHub. The deployment files and the plotting scripts beside the program are not part of it.
