------------------------------ MODULE Request ------------------------------
(***************************************************************************)
(* Requests to GitHub (internal/fetcher/github.go, doRequestWithHeaders    *)
(* and sleepWithContext): several goroutines send requests through the     *)
(* shared limiter of RateLimiter, wait out cooldowns and retry transient   *)
(* failures.  The main goroutine, Pager, lists pages under shutdownCtx;    *)
(* every other caller is a worker, whose context is groupCtx and whose     *)
(* sleeps shutdownCtx interrupts (waitcontext.go).                         *)
(***************************************************************************)
EXTENDS RateLimiter

CONSTANTS
    Pager,          \* the caller that runs GetReposPage
    GraphQLResource,\* the resource of FetchRepoGraphQL's query
    Answers,        \* what GitHub may answer
    MaxAttempts,    \* attempts at a request that fails transiently
    MaxRequests     \* bound: requests one caller makes

\* "after": Retry-After in seconds, 0 if absent or zero; "date": Retry-After as
\* a date, 0 if absent; "exhausted": X-RateLimit-Remaining is 0; "reset":
\* X-RateLimit-Reset, 0 if unreadable; "limited": a body whose errors are all
\* rate limits.
Answer == [status : 100 .. 599, after : Nat, date : Nat, exhausted : BOOLEAN,
           reset : Nat, limited : BOOLEAN]

ASSUME PagerAssumption == Pager \in Callers
ASSUME AnswersAssumption == Answers \subseteq Answer
ASSUME WaitsCoverHorizon == 1 .. Horizon \subseteq Waits
ASSUME AttemptsAssumption == MaxAttempts \in Nat \ {0} /\ MaxRequests \in Nat

VARIABLES
    req,        \* each caller's request
    shutdown,   \* the first stop signal has ended shutdownCtx
    cancelled,  \* groupCtx has ended
    sent,       \* requests sent into each resource's present cooldown
                \* (not in the code)
    told        \* until when GitHub told the callers to leave the resource
                \* alone, 0 once that is over (not in the code)

requestVars == <<limiterVars, req, shutdown, cancelled, sent, told>>

-----------------------------------------------------------------------------
\* "top": at the head of the retry loop; "gate": in SharedRateLimiter.Wait;
\* "send": let through by it; "flight": in HttpClient.Do; "block": in
\* BlockFor; "backoff": asleep before the next attempt.  "round" is
\* FetchRepoGraphQL's rateLimitAttempt; "told" is what the answer that is being
\* reported to BlockFor says (not in the code).
Place == {"idle", "top", "gate", "send", "flight", "block", "backoff"}

Request == [pc : Place, res : Resources, attempt : 1 .. MaxAttempts,
            until : 0 .. Horizon, round : Nat \ {0}, told : Nat,
            left : 0 .. MaxRequests,
            result : {"none", "ok", "error", "canceled", "interrupted"}]

RequestTypeOK ==
    /\ TypeOK
    /\ req \in [Callers -> Request]
    /\ shutdown \in BOOLEAN
    /\ cancelled \in BOOLEAN
    /\ sent \in [Resources -> [Callers -> Nat]]
    /\ told \in [Resources -> Nat]

RequestInit ==
    /\ LimiterInit
    /\ req = [c \in Callers |->
                [pc |-> "idle", res |-> Outside.res, attempt |-> 1, until |-> 0,
                 round |-> 1, told |-> 0, left |-> MaxRequests, result |-> "none"]]
    /\ shutdown = FALSE
    /\ cancelled = FALSE
    /\ sent = [r \in Resources |-> [c \in Callers |-> 0]]
    /\ told = [r \in Resources |-> 0]

\* The context a caller's requests run under has ended.
CtxDone(c) == IF c = Pager THEN shutdown ELSE cancelled

\* Mutant of WaitInterrupted: the page request's sleeps are interrupted too.
WaitInterruptedAll(c) == shutdown

\* A context attached with WithWaitInterrupt has ended.
WaitInterrupted(c) == c # Pager /\ shutdown

At(c, place) == req[c].pc = place

Goto(c, place) == req' = [req EXCEPT ![c].pc = place]

\* The request returns; nothing of it is left.
Return(c, result) ==
    req' = [req EXCEPT ![c].pc = "idle", ![c].result = result, ![c].attempt = 1,
                       ![c].until = 0, ![c].round = 1, ![c].res = Outside.res]

\* Mutant of SleepCut: only the request's own context wakes a sleeper.
SleepCutByCancel(c) == CtxDone(c) /\ Return(c, "canceled")

\* sleepWithContext returns early, with the error of whichever context ended.
SleepCut(c) ==
    \/ CtxDone(c) /\ Return(c, "canceled")
    \/ WaitInterrupted(c) /\ Return(c, "interrupted")

-----------------------------------------------------------------------------
(* The retry loop                                                          *)

Begin(c, r) ==
    /\ At(c, "idle")
    /\ req[c].left > 0
    /\ c = Pager => r # GraphQLResource
    /\ req' = [req EXCEPT ![c].pc = "top", ![c].res = r, ![c].left = @ - 1,
                          ![c].result = "none"]
    /\ UNCHANGED <<limiterVars, shutdown, cancelled, sent, told>>

ContextCheck(c) ==
    /\ At(c, "top")
    /\ CtxDone(c)
    /\ Return(c, "canceled")
    /\ UNCHANGED <<limiterVars, shutdown, cancelled, sent, told>>

EnterWait(c) ==
    /\ At(c, "top")
    /\ ~CtxDone(c)
    /\ WaitCall(c, req[c].res)
    /\ Goto(c, "gate")
    /\ UNCHANGED <<shutdown, cancelled, sent, told>>

\* Mutant of GateOpen: the last tick of a cooldown counts as over.
GateOpenTooSoon(c) ==
    /\ At(c, "gate")
    /\ call[c].at = "wait"
    /\ Remaining(call[c].res) <= 1
    /\ call' = [call EXCEPT ![c] = Outside]
    /\ UNCHANGED <<now, states, history>>
    /\ Goto(c, "send")

\* In Wait: look at the deadline, sleep, look again.
GateOpen(c) == At(c, "gate") /\ WaitPass(c) /\ Goto(c, "send")
GateShut(c) == At(c, "gate") /\ WaitSleep(c) /\ UNCHANGED req

GateAgain(c) == At(c, "gate") /\ SleepOver(c) /\ UNCHANGED req
GateCut(c) == At(c, "gate") /\ SleepAbort(c) /\ SleepCut(c)

Gate(c) ==
    /\ GateOpen(c) \/ GateShut(c) \/ GateAgain(c) \/ GateCut(c)
    /\ UNCHANGED <<shutdown, cancelled, sent, told>>

\* HttpClient.Do: from here on the limiter is not asked again.
Send(c) ==
    /\ At(c, "send")
    /\ Goto(c, "flight")
    /\ sent' = [sent EXCEPT ![req[c].res][c] = IF Blocked(req[c].res) THEN @ + 1 ELSE @]
    /\ UNCHANGED <<limiterVars, shutdown, cancelled, told>>

\* The request fails for good; the HTTP client's error wraps context.Canceled
\* when it was its context that ended.
Fail(c) ==
    \/ Return(c, "error")
    \/ CtxDone(c) /\ Return(c, "canceled")

-----------------------------------------------------------------------------
(* Answers.  A wait of 0 stands for the code's "no wait found".            *)

RetryBackoff(attempt) == 2 ^ (attempt - 1)

\* Seconds win; a date that has passed says nothing.
retryAfterWait(a) == IF a.after > 0 THEN a.after ELSE Later(a.date - now, 0)

\* Mutant of resetWait: the named second itself is not waited out.
resetWaitShort(a) == IF a.reset = 0 THEN 0 ELSE Later(a.reset - now, 0)

\* time.Until(reset) and a second on top; nothing without a readable reset.
resetWait(a) == IF a.reset = 0 THEN 0 ELSE Later(a.reset + 1 - now, 0)

rateLimitWait(a) ==
    IF a.status < 400 THEN 0
    ELSE IF retryAfterWait(a) > 0 THEN retryAfterWait(a)
    ELSE IF a.exhausted THEN resetWait(a) ELSE 0

graphQLRateLimitWait(a, attempt) ==
    IF retryAfterWait(a) > 0 THEN retryAfterWait(a)
    ELSE IF resetWait(a) > 0 THEN resetWait(a) ELSE RetryBackoff(attempt)

\* isGraphQLRateLimitError, which only FetchRepoGraphQL asks.
LimitedBody(c, a) ==
    a.status \in 200 .. 299 /\ a.limited /\ req[c].res = GraphQLResource

\* The instant before which the answer asks not to come back.
ComeBackAt(a) ==
    IF a.after > 0 THEN now + a.after
    ELSE IF a.date > now THEN a.date
    ELSE IF a.exhausted /\ a.reset > 0 THEN a.reset + 1 ELSE 0

-----------------------------------------------------------------------------
\* An answer that is final: success, a 404 where one is allowed, an error
\* status, or a body that cannot be read or has other errors.
Answered(c) ==
    /\ At(c, "flight")
    /\ \E a \in Answers :
          /\ a.status < 500
          /\ rateLimitWait(a) = 0
          /\ ~LimitedBody(c, a)
          /\ \/ a.status \in 200 .. 299 /\ (Return(c, "ok") \/ Fail(c))
             \/ a.status = 404 /\ Return(c, "ok")
             \/ a.status \notin 200 .. 299 /\ Return(c, "error")
    /\ UNCHANGED <<limiterVars, shutdown, cancelled, sent, told>>

\* Mutant of TransientFailure: retried at once, the attempt not counted.
TransientFailureUncounted(c) ==
    /\ At(c, "flight")
    /\ Goto(c, "top")
    /\ UNCHANGED <<limiterVars, shutdown, cancelled, sent, told>>

\* A network failure (also of a cancelled context), or a 5xx status without a
\* rate limit.
TransientFailure(c) ==
    /\ At(c, "flight")
    /\ IF req[c].attempt >= MaxAttempts
         THEN Fail(c)
         ELSE \E until \in now .. Horizon :
                 /\ until = now + RetryBackoff(req[c].attempt)
                 /\ req' = [req EXCEPT ![c].pc = "backoff", ![c].until = until]
    /\ UNCHANGED <<limiterVars, shutdown, cancelled, sent, told>>

BackoffOver(c) ==
    /\ At(c, "backoff")
    /\ req[c].until <= now
    /\ req' = [req EXCEPT ![c].pc = "top", ![c].until = 0, ![c].attempt = @ + 1]
    /\ UNCHANGED <<limiterVars, shutdown, cancelled, sent, told>>

BackoffCut(c) ==
    /\ At(c, "backoff")
    /\ SleepCut(c)
    /\ UNCHANGED <<limiterVars, shutdown, cancelled, sent, told>>

\* The wait an answer leads to, from doRequestWithHeaders or, for a GraphQL
\* body, from FetchRepoGraphQL.
LimitWait(c, a) ==
    IF LimitedBody(c, a) THEN graphQLRateLimitWait(a, req[c].round) ELSE rateLimitWait(a)

RateLimited(c) ==
    /\ At(c, "flight")
    /\ \E a \in Answers, wait \in 1 .. Horizon :
          /\ wait = LimitWait(c, a)
          /\ BlockFor(c, req[c].res, wait)
          /\ req' = [req EXCEPT ![c].pc = "block", ![c].told = ComeBackAt(a),
                                ![c].round = IF LimitedBody(c, a) THEN @ + 1 ELSE @]
    /\ UNCHANGED <<shutdown, cancelled, sent, told>>

\* Mutants of Retry: sent again without asking the limiter; the attempt is not
\* counted up from its reset value.
RetryUnchecked(c) == req' = [req EXCEPT ![c].pc = "send", ![c].attempt = 1, ![c].told = 0]
RetryFromZero(c) == req' = [req EXCEPT ![c].pc = "top", ![c].attempt = 0, ![c].told = 0]

\* "attempt = 0" and the loop's "attempt++", or doRequestWithHeaders anew: the
\* transient attempts start over.
Retry(c) == req' = [req EXCEPT ![c].pc = "top", ![c].attempt = 1, ![c].told = 0]

BlockAndRetry(c) ==
    LET r == req[c].res IN
    /\ At(c, "block")
    /\ BlockUntil(c)
    /\ Retry(c)
    /\ told' = [told EXCEPT ![r] = IF req[c].told > now THEN Later(@, req[c].told) ELSE @]
    /\ UNCHANGED <<shutdown, cancelled, sent>>

-----------------------------------------------------------------------------
RequestStep(c) ==
    \/ ContextCheck(c)
    \/ EnterWait(c)
    \/ Gate(c)
    \/ Send(c)
    \/ Answered(c)
    \/ TransientFailure(c)
    \/ BackoffOver(c)
    \/ BackoffCut(c)
    \/ RateLimited(c)
    \/ BlockAndRetry(c)

Shutdown ==
    /\ ~shutdown
    /\ shutdown' = TRUE
    /\ UNCHANGED <<limiterVars, req, cancelled, sent, told>>

Cancel ==
    /\ ~cancelled
    /\ cancelled' = TRUE
    /\ UNCHANGED <<limiterVars, req, shutdown, sent, told>>

Clock ==
    /\ Tick
    /\ sent' = [r \in Resources |->
                 IF states[r].blockedUntil > now' THEN sent[r] ELSE [c \in Callers |-> 0]]
    /\ told' = [r \in Resources |-> IF told[r] > now' THEN told[r] ELSE 0]
    /\ UNCHANGED <<req, shutdown, cancelled>>

RequestNext ==
    \/ \E c \in Callers : RequestStep(c) \/ \E r \in Resources : Begin(c, r)
    \/ Shutdown
    \/ Cancel
    \/ Clock

\* Goroutines run and GitHub (or the HTTP client's timeout) answers; the clock
\* is left out on purpose.
RequestSpec ==
    /\ RequestInit
    /\ [][RequestNext]_requestVars
    /\ \A c \in Callers : WF_requestVars(RequestStep(c))

-----------------------------------------------------------------------------
\* However many goroutines share a resource, each of them sends at most one
\* request into a cooldown, from its first report to its end with all its
\* extensions: the one Wait had let through before (lines 296-312).
OneSendPerCooldown ==
    \A r \in Resources, c \in Callers : Blocked(r) => sent[r][c] <= 1

\* What App.Run relies on to tell a controlled stop from a failure (app.go
\* lines 69 and 120): only a worker is ever "interrupted", and only after the
\* first signal; a request is "canceled" only when its own context has ended.
ErrorsTellTheCause ==
    \A c \in Callers :
        /\ req[c].result = "interrupted" => shutdown /\ c # Pager
        /\ req[c].result = "canceled" => CtxDone(c)

\* Nobody is let through before the instant that GitHub named to any caller who
\* has reported it, whichever header named it, however the reports of several
\* callers crossed, and although a reset is named only to the second (lines
\* 431-497 with ratelimit.go lines 56-109).
NobodyComesBackEarly ==
    [][\A c \in Callers :
        At(c, "gate") /\ req'[c].pc = "send" => now >= told[req[c].res]]_requestVars

\* After the first signal every request comes to an end even if the clock
\* never moves again: no cooldown and no backoff is waited out.
StopEndsWaiting == \A c \in Callers : shutdown ~> At(c, "idle")

\* While the clock moves every request comes to an end, whatever cooldowns and
\* failures it meets before Horizon, after which GitHub behaves.
RequestEnds ==
    WF_requestVars(Clock) => \A c \in Callers : At(c, "top") ~> At(c, "idle")

\* Requests use the limiter as RateLimiter says it is used.
UsesLimiter == LimiterSpec
=============================================================================
