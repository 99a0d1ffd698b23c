---------------------------- MODULE RateLimiter ----------------------------
(***************************************************************************)
(* The cooldown shared by every request the fetcher sends                  *)
(* (internal/fetcher/ratelimit.go).  For each GitHub resource the limiter  *)
(* keeps the instant until which the resource is blocked and the counters  *)
(* the runner logs at the end of a run.  A caller is a goroutine inside    *)
(* Wait or inside BlockFor.  What the code does under l.mu is one step;    *)
(* what it does outside the mutex (reading the clock in BlockFor, sleeping *)
(* in Wait) is a step of its own, so the clock and the other callers move  *)
(* in between.                                                             *)
(***************************************************************************)
EXTENDS Integers

CONSTANTS
    Callers,    \* goroutines that use the limiter
    Resources,  \* GitHub rate-limit buckets ("core" and "graphql")
    Waits,      \* the waits the server may ask for, in ticks
    Horizon,    \* bound: the last instant of the clock
    MaxWaits    \* bound: no new Wait call once a resource counted this many

ASSUME ResourcesAssumption == Resources # {}
ASSUME WaitsAssumption == Waits \subseteq Nat \ {0}
ASSUME HorizonAssumption == Horizon \in Nat
ASSUME MaxWaitsAssumption == MaxWaits \in Nat

VARIABLES
    now,        \* the clock
    states,     \* the limiter's map of rateLimitState
    call,       \* where each caller is inside the limiter
    history     \* what really happened to each resource (not in the code)

limiterVars == <<now, states, call, history>>

-----------------------------------------------------------------------------
LimiterState == [blockedUntil : 0 .. Horizon, hits : Nat, extensions : Nat,
                 waits : Nat, totalWait : Int]

\* "out": not in the limiter; "wait": about to look at the deadline;
\* "sleep": in sleepWithContext until the deadline it saw; "block": between
\* the time.Now() of BlockFor and the mutex of BlockUntil.
Call == [at : {"out", "wait", "sleep", "block"}, res : Resources,
         until : 0 .. Horizon]

\* "spent": ticks during which the resource was blocked; "lost": by how much
\* BlockUntil calls that got the mutex after their own deadline were late.
History == [spent : Nat, lost : Nat]

TypeOK ==
    /\ now \in 0 .. Horizon
    /\ states \in [Resources -> LimiterState]
    /\ call \in [Callers -> Call]
    /\ history \in [Resources -> History]

\* Outside the limiter the other two fields mean nothing.
Outside == [at |-> "out", res |-> CHOOSE r \in Resources : TRUE, until |-> 0]

\* The zero time.Time lies before every instant the clock shows.
NewState == [blockedUntil |-> 0, hits |-> 0, extensions |-> 0,
             waits |-> 0, totalWait |-> 0]

\* Run resets the shared limiter before the first request.
LimiterInit ==
    /\ now = 0
    /\ states = [r \in Resources |-> NewState]
    /\ call = [c \in Callers |-> Outside]
    /\ history = [r \in Resources |-> [spent |-> 0, lost |-> 0]]

Blocked(r) == states[r].blockedUntil > now

Later(a, b) == IF a > b THEN a ELSE b

Remaining(r) == Later(states[r].blockedUntil - now, 0)

-----------------------------------------------------------------------------
(* Wait                                                                    *)

WaitCall(c, r) ==
    /\ call[c].at = "out"
    /\ states[r].waits < MaxWaits
    /\ call' = [call EXCEPT ![c] = [at |-> "wait", res |-> r, until |-> 0]]
    /\ UNCHANGED <<now, states, history>>

WaitPass(c) ==
    /\ call[c].at = "wait"
    /\ ~Blocked(call[c].res)
    /\ call' = [call EXCEPT ![c] = Outside]
    /\ UNCHANGED <<now, states, history>>

WaitSleep(c) ==
    LET r == call[c].res IN
    /\ call[c].at = "wait"
    /\ Blocked(r)
    /\ states' = [states EXCEPT ![r].waits = @ + 1]
    /\ call' = [call EXCEPT ![c].at = "sleep", ![c].until = states[r].blockedUntil]
    /\ UNCHANGED <<now, history>>

\* The timer fires: the loop looks at the deadline again.
SleepOver(c) ==
    /\ call[c].at = "sleep"
    /\ call[c].until <= now
    /\ call' = [call EXCEPT ![c].at = "wait", ![c].until = 0]
    /\ UNCHANGED <<now, states, history>>

\* The context or the interrupt context ends: Wait returns the error.
SleepAbort(c) ==
    /\ call[c].at = "sleep"
    /\ call' = [call EXCEPT ![c] = Outside]
    /\ UNCHANGED <<now, states, history>>

-----------------------------------------------------------------------------
(* BlockFor                                                                *)

BlockFor(c, r, wait) ==
    /\ call[c].at = "out"
    /\ now + wait <= Horizon
    /\ call' = [call EXCEPT ![c] = [at |-> "block", res |-> r, until |-> now + wait]]
    /\ UNCHANGED <<now, states, history>>

\* Mutants of Extend: the part two cooldowns share is counted twice; a cooldown
\* that is over before it is recorded is a hit.
ExtendCountsTwice(s, until) ==
    [s EXCEPT !.blockedUntil = until, !.totalWait = @ + until - now]
ExtendCountsLate(s, until) ==
    [s EXCEPT !.blockedUntil = until, !.hits = IF s.blockedUntil <= now THEN @ + 1 ELSE @]

\* The state of a resource after BlockUntil(until) at the present instant.
Extend(s, until) ==
    [s EXCEPT
        !.blockedUntil = until,
        !.totalWait = @ + until - Later(now, s.blockedUntil),
        !.hits = IF s.blockedUntil <= now /\ until > now THEN @ + 1 ELSE @,
        !.extensions = IF s.blockedUntil > now THEN @ + 1 ELSE @]

\* Mutant of Prolongs: the last report wins.
ProlongsAlways(r, until) == TRUE

\* The new deadline is later than the present one.
Prolongs(r, until) == until > states[r].blockedUntil

BlockUntil(c) ==
    LET r == call[c].res
        until == call[c].until
    IN  /\ call[c].at = "block"
        /\ call' = [call EXCEPT ![c] = Outside]
        /\ IF Prolongs(r, until)
             THEN /\ states' = [states EXCEPT ![r] = Extend(@, until)]
                  /\ history' = [history EXCEPT ![r].lost = @ + Later(now - until, 0)]
             ELSE UNCHANGED <<states, history>>
        /\ UNCHANGED now

-----------------------------------------------------------------------------
Tick ==
    /\ now < Horizon
    /\ now' = now + 1
    /\ history' = [r \in Resources |->
                    [history[r] EXCEPT !.spent = IF Blocked(r) THEN @ + 1 ELSE @]]
    /\ UNCHANGED <<states, call>>

LimiterStep(c) ==
    \/ \E r \in Resources : WaitCall(c, r)
    \/ WaitPass(c)
    \/ WaitSleep(c)
    \/ SleepOver(c)
    \/ SleepAbort(c)
    \/ \E r \in Resources, wait \in Waits : BlockFor(c, r, wait)
    \/ BlockUntil(c)

LimiterNext == Tick \/ \E c \in Callers : LimiterStep(c)

LimiterSpec == LimiterInit /\ [][LimiterNext]_limiterVars

-----------------------------------------------------------------------------
\* The wait time the runner reports is the time the resource really was and
\* still will be blocked, counted once however many callers reported the same
\* cooldown, less what late calls took off it (BlockUntil lines 101-109: only
\* the part of the new window that sticks out of the old one is added).
WaitTimeAccounted ==
    \A r \in Resources :
        states[r].totalWait = history[r].spent + Remaining(r) - history[r].lost

\* A goroutine asleep in Wait never sleeps past the end of the cooldown, in
\* whatever order shorter and longer cooldowns were reported meanwhile.
NoOversleep ==
    \A c \in Callers : call[c].at = "sleep" =>
        call[c].until <= states[call[c].res].blockedUntil

\* A hit is counted exactly when a free resource becomes blocked, whichever
\* of several concurrent reporters gets the mutex first and however late.
HitOpensWindow ==
    [][\A r \in Resources :
        states'[r].hits - states[r].hits =
            IF ~Blocked(r) /\ states'[r].blockedUntil > now' THEN 1 ELSE 0]_limiterVars

\* An extension is counted exactly when a running cooldown is prolonged, and
\* no cooldown is ever cut short by a caller with an earlier deadline.
ExtensionProlongs ==
    [][\A r \in Resources :
        /\ states'[r].blockedUntil >= states[r].blockedUntil
        /\ states'[r].extensions - states[r].extensions =
              IF Blocked(r) /\ states'[r].blockedUntil > states[r].blockedUntil
                THEN 1 ELSE 0]_limiterVars

=============================================================================
