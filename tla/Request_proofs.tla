--------------------------- MODULE Request_proofs ---------------------------
(***************************************************************************)
(* Proofs about the rate limiter and about requests, for any number of     *)
(* callers, any resources, any answers and any waits they name.  Those     *)
(* about requests rest on those about the limiter, which hold because      *)
(* requests use it as it is meant to be used.                              *)
(***************************************************************************)
EXTENDS Request, TLAPS

USE HorizonAssumption DEF limiterVars

\* The fields of an idle caller are well typed.
LEMMA OutsideType == Outside \in Call /\ Outside.at = "out"
BY ResourcesAssumption DEF Outside, Call

\* So is a resource whose cooldown was prolonged.
LEMMA ExtendType ==
    ASSUME NEW s \in LimiterState, NEW until \in 0 .. Horizon, now \in 0 .. Horizon
    PROVE  Extend(s, until) \in LimiterState
<1>1. Extend(s, until).totalWait \in Int
  BY DEF Extend, LimiterState, Later
<1>2. Extend(s, until).hits \in Nat /\ Extend(s, until).extensions \in Nat
  BY DEF Extend, LimiterState
<1> QED BY <1>1, <1>2 DEF Extend, LimiterState

\* Every step of the limiter keeps its state well typed.
LEMMA TypeStep == TypeOK /\ [LimiterNext]_limiterVars => TypeOK'
<1> SUFFICES ASSUME TypeOK, [LimiterNext]_limiterVars PROVE TypeOK'
  OBVIOUS
<1> USE DEF TypeOK
<1>1. CASE Tick
  <2>1. \A r \in Resources : history[r] \in History
    OBVIOUS
  <2> QED BY <1>1, <2>1 DEF Tick, History
<1>2. ASSUME NEW c \in Callers, NEW r \in Resources, WaitCall(c, r)
      PROVE  TypeOK'
  <2>1. [at |-> "wait", res |-> r, until |-> 0] \in Call
    BY DEF Call
  <2>2. call' \in [Callers -> Call]
    BY <1>2, <2>1 DEF WaitCall
  <2> QED BY <1>2, <2>2 DEF WaitCall
<1>3. ASSUME NEW c \in Callers, WaitPass(c) PROVE TypeOK'
  BY <1>3, OutsideType DEF WaitPass
<1>4. ASSUME NEW c \in Callers, WaitSleep(c) PROVE TypeOK'
  <2> DEFINE r == call[c].res
  <2>1. r \in Resources /\ states[r] \in LimiterState /\ states[r].blockedUntil \in 0 .. Horizon
    BY DEF Call, LimiterState
  <2>2. states' \in [Resources -> LimiterState]
    <3>1. [states[r] EXCEPT !.waits = @ + 1] \in LimiterState
      BY <2>1 DEF LimiterState
    <3>2. states' = [states EXCEPT ![r] = [states[r] EXCEPT !.waits = @ + 1]]
      BY <1>4 DEF WaitSleep
    <3> QED BY <3>1, <3>2
  <2>3. [call[c] EXCEPT !.at = "sleep", !.until = states[r].blockedUntil] \in Call
    BY <2>1 DEF Call
  <2>4. call' \in [Callers -> Call]
    BY <1>4, <2>3 DEF WaitSleep
  <2> QED BY <1>4, <2>2, <2>4 DEF WaitSleep
<1>5. ASSUME NEW c \in Callers, SleepOver(c) PROVE TypeOK'
  <2>1. call[c] \in Call /\ 0 \in 0 .. Horizon
    OBVIOUS
  <2>2. [call[c] EXCEPT !.at = "wait", !.until = 0] \in Call
    BY <2>1 DEF Call
  <2>3. call' = [call EXCEPT ![c] = [call[c] EXCEPT !.at = "wait", !.until = 0]]
    BY <1>5 DEF SleepOver
  <2>4. call' \in [Callers -> Call]
    BY <2>2, <2>3
  <2> QED BY <1>5, <2>4 DEF SleepOver
<1>6. ASSUME NEW c \in Callers, SleepAbort(c) PROVE TypeOK'
  BY <1>6, OutsideType DEF SleepAbort
<1>7. ASSUME NEW c \in Callers, NEW r \in Resources, NEW wait \in Waits,
             BlockFor(c, r, wait)
      PROVE  TypeOK'
  <2>1. now + wait \in 0 .. Horizon
    BY <1>7, WaitsAssumption DEF BlockFor
  <2>2. [at |-> "block", res |-> r, until |-> now + wait] \in Call
    BY <2>1 DEF Call
  <2>3. call' \in [Callers -> Call]
    BY <1>7, <2>2 DEF BlockFor
  <2> QED BY <1>7, <2>3 DEF BlockFor
<1>8. ASSUME NEW c \in Callers, BlockUntil(c) PROVE TypeOK'
  <2> DEFINE r == call[c].res
             until == call[c].until
  <2>1. r \in Resources /\ until \in 0 .. Horizon
    BY DEF Call
  <2>2. Extend(states[r], until) \in LimiterState
    BY <2>1, ExtendType
  <2>3. call' \in [Callers -> Call]
    BY <1>8, OutsideType DEF BlockUntil, Prolongs
  <2>4. states' \in [Resources -> LimiterState]
    BY <1>8, <2>1, <2>2 DEF BlockUntil, Prolongs
  <2>5. history' \in [Resources -> History]
    BY <1>8, <2>1 DEF BlockUntil, History, Later
  <2> QED BY <1>8, <2>3, <2>4, <2>5 DEF BlockUntil, Prolongs
<1>9. CASE UNCHANGED limiterVars
  BY <1>9
<1> QED
  BY <1>1, <1>2, <1>3, <1>4, <1>5, <1>6, <1>7, <1>8, <1>9
  DEF LimiterNext, LimiterStep

\* Reset leaves a well-typed limiter.
LEMMA InitType == LimiterInit => TypeOK
BY OutsideType DEF LimiterInit, TypeOK, NewState, LimiterState, History

\* Type correctness: whatever the callers do, the limiter's state stays well
\* typed; in particular a deadline is never a negative instant.
THEOREM LimiterTypeCorrect == LimiterSpec => []TypeOK
BY InitType, TypeStep, PTL DEF LimiterSpec

-----------------------------------------------------------------------------
\* Prolonging a cooldown adds to the reported wait exactly what it adds to the
\* cooldown that is left, less the lateness of the call.
LEMMA ExtendAccounts ==
    ASSUME NEW s \in LimiterState, NEW until \in 0 .. Horizon, now \in 0 .. Horizon,
           until > s.blockedUntil
    PROVE  Extend(s, until).totalWait - s.totalWait
              = Later(until - now, 0) - Later(s.blockedUntil - now, 0)
                  - Later(now - until, 0)
BY DEF Extend, LimiterState, Later

\* The clock moves a blocked resource's time from "remaining" to "spent".
LEMMA AccountedStep ==
    TypeOK /\ WaitTimeAccounted /\ [LimiterNext]_limiterVars => WaitTimeAccounted'
<1> SUFFICES ASSUME TypeOK, WaitTimeAccounted, [LimiterNext]_limiterVars,
                    NEW q \in Resources
             PROVE  states'[q].totalWait
                      = history'[q].spent + Remaining(q)' - history'[q].lost
  BY DEF WaitTimeAccounted
<1>0. /\ now \in 0 .. Horizon
      /\ states[q] \in LimiterState
      /\ history[q] \in History
      /\ states[q].totalWait = history[q].spent + Remaining(q) - history[q].lost
  BY DEF TypeOK, WaitTimeAccounted
<1>1. CASE Tick
  <2>1. /\ now' = now + 1
        /\ states'[q] = states[q]
        /\ history'[q].lost = history[q].lost
        /\ history'[q].spent = IF Blocked(q) THEN history[q].spent + 1
                                            ELSE history[q].spent
    BY <1>0, <1>1 DEF Tick, History
  <2> QED BY <1>0, <2>1 DEF Remaining, Blocked, Later, LimiterState, History
<1>2. ASSUME NEW c \in Callers, WaitSleep(c)
      PROVE  states'[q].totalWait
               = history'[q].spent + Remaining(q)' - history'[q].lost
  <2>1. /\ states'[q].totalWait = states[q].totalWait
        /\ states'[q].blockedUntil = states[q].blockedUntil
    BY <1>0, <1>2 DEF TypeOK, WaitSleep, LimiterState
  <2> QED BY <1>0, <1>2, <2>1 DEF WaitSleep, Remaining
<1>3. ASSUME NEW c \in Callers, BlockUntil(c)
      PROVE  states'[q].totalWait
               = history'[q].spent + Remaining(q)' - history'[q].lost
  <2> DEFINE until == call[c].until
  <2>1. until \in 0 .. Horizon
    BY DEF TypeOK, Call
  <2>2. CASE q = call[c].res /\ until > states[q].blockedUntil
    <3>1. /\ states'[q] = Extend(states[q], until)
          /\ history'[q].lost = history[q].lost + Later(now - until, 0)
          /\ history'[q].spent = history[q].spent
          /\ now' = now
      <4>1. Prolongs(call[c].res, until)
        BY <2>2 DEF Prolongs
      <4>2. /\ states' = [states EXCEPT ![q] = Extend(states[q], until)]
            /\ history' = [history EXCEPT ![q].lost = @ + Later(now - until, 0)]
            /\ now' = now
        BY <1>3, <2>2, <4>1 DEF BlockUntil
      <4>3. history'[q] = [history[q] EXCEPT !.lost = @ + Later(now - until, 0)]
        BY <4>2 DEF TypeOK
      <4> QED BY <1>0, <4>2, <4>3 DEF TypeOK, History
    <3>2. states'[q].blockedUntil = until
      BY <1>0, <3>1 DEF Extend, LimiterState
    <3>3. states'[q].totalWait - states[q].totalWait
            = Later(until - now, 0) - Later(states[q].blockedUntil - now, 0)
                - Later(now - until, 0)
      BY <1>0, <2>1, <2>2, <3>1, ExtendAccounts
    <3>4. states'[q].totalWait \in Int
      BY <1>0, <2>1, <3>1 DEF Extend, LimiterState, Later
    <3> QED
      BY <1>0, <2>1, <3>1, <3>2, <3>3, <3>4
      DEF Remaining, Later, LimiterState, History
  <2>3. CASE ~(q = call[c].res /\ until > states[q].blockedUntil)
    <3>1. states'[q] = states[q] /\ history'[q] = history[q] /\ now' = now
      BY <1>0, <1>3, <2>3 DEF TypeOK, BlockUntil, Prolongs
    <3> QED BY <1>0, <3>1 DEF Remaining
  <2> QED BY <2>2, <2>3
<1>4. CASE UNCHANGED <<now, states, history>>
  BY <1>0, <1>4 DEF Remaining
<1> QED
  BY <1>1, <1>2, <1>3, <1>4
  DEF LimiterNext, LimiterStep, WaitCall, WaitPass, SleepOver, SleepAbort, BlockFor

\* The wait time in the runner's summary is, for every resource and at every
\* moment, the time it was blocked plus what is left of the cooldown minus the
\* lateness of calls that got the mutex after their own deadline.
THEOREM WaitTimeIsAccounted == LimiterSpec => []WaitTimeAccounted
<1>1. LimiterInit => WaitTimeAccounted
  BY DEF LimiterInit, WaitTimeAccounted, NewState, Remaining, Later
<1> QED BY <1>1, InitType, TypeStep, AccountedStep, PTL DEF LimiterSpec

-----------------------------------------------------------------------------
\* A deadline only moves forward.
LEMMA DeadlineMonotone ==
    ASSUME TypeOK, [LimiterNext]_limiterVars, NEW r \in Resources
    PROVE  states'[r].blockedUntil >= states[r].blockedUntil
<1>0. states[r] \in LimiterState
  BY DEF TypeOK
<1>1. ASSUME NEW c \in Callers, WaitSleep(c)
      PROVE  states'[r].blockedUntil >= states[r].blockedUntil
  BY <1>0, <1>1 DEF TypeOK, WaitSleep, LimiterState
<1>2. ASSUME NEW c \in Callers, BlockUntil(c)
      PROVE  states'[r].blockedUntil >= states[r].blockedUntil
  <2> DEFINE until == call[c].until
  <2>1. until \in 0 .. Horizon
    BY DEF TypeOK, Call
  <2>2. CASE call[c].res = r /\ until > states[r].blockedUntil
    <3>1. states'[r] = Extend(states[r], until)
      BY <1>2, <2>2 DEF TypeOK, BlockUntil, Prolongs
    <3>2. states'[r].blockedUntil = until
      BY <1>0, <3>1 DEF Extend, LimiterState
    <3> QED BY <1>0, <2>1, <2>2, <3>2 DEF LimiterState
  <2>3. CASE ~(call[c].res = r /\ until > states[r].blockedUntil)
    <3>1. states'[r] = states[r]
      BY <1>2, <2>3 DEF TypeOK, BlockUntil, Prolongs
    <3> QED BY <1>0, <3>1 DEF LimiterState
  <2> QED BY <2>2, <2>3
<1>3. CASE UNCHANGED states
  BY <1>0, <1>3 DEF LimiterState
<1> QED
  BY <1>1, <1>2, <1>3
  DEF LimiterNext, LimiterStep, Tick, WaitCall, WaitPass, SleepOver, SleepAbort,
      BlockFor

\* No goroutine in Wait sleeps past the end of its resource's cooldown.
THEOREM SleepersWakeInTime == LimiterSpec => []NoOversleep
<1>1. LimiterInit => NoOversleep
  BY OutsideType DEF LimiterInit, NoOversleep
<1>2. TypeOK /\ NoOversleep /\ [LimiterNext]_limiterVars => NoOversleep'
  <2> SUFFICES ASSUME TypeOK, NoOversleep, [LimiterNext]_limiterVars,
                      NEW s \in Callers, call'[s].at = "sleep"
               PROVE  call'[s].until <= states'[call'[s].res].blockedUntil
    BY DEF NoOversleep
  <2>0. call[s] \in Call /\ call[s].res \in Resources /\ TypeOK'
    BY TypeStep DEF TypeOK, Call
  <2>1. CASE call'[s] = call[s]
    <3>1. call[s].until <= states[call[s].res].blockedUntil
      BY <2>1 DEF NoOversleep
    <3>2. states'[call[s].res].blockedUntil >= states[call[s].res].blockedUntil
      BY <2>0, DeadlineMonotone
    <3>3. /\ states[call[s].res].blockedUntil \in 0 .. Horizon
          /\ states'[call[s].res].blockedUntil \in 0 .. Horizon
          /\ call[s].until \in 0 .. Horizon
      BY <2>0 DEF TypeOK, LimiterState, Call
    <3> QED BY <2>1, <3>1, <3>2, <3>3
  <2>2. ASSUME NEW c \in Callers, WaitSleep(c), call'[s] # call[s]
        PROVE  call'[s].until <= states'[call'[s].res].blockedUntil
    <3>1. s = c
      BY <2>2 DEF TypeOK, WaitSleep
    <3>2. call[s] \in Call /\ states[call[s].res] \in LimiterState
      BY <2>0 DEF TypeOK, Call
    <3>3. call' = [call EXCEPT ![s] = [call[s] EXCEPT !.at = "sleep",
                                  !.until = states[call[s].res].blockedUntil]]
      BY <2>2, <3>1 DEF WaitSleep
    <3>4. call'[s] = [call[s] EXCEPT !.at = "sleep", !.until = states[call[s].res].blockedUntil]
      BY <2>0, <3>3 DEF TypeOK
    <3>5. /\ call'[s].res = call[s].res
          /\ call'[s].until = states[call[s].res].blockedUntil
      BY <3>2, <3>4 DEF Call
    <3>6. states'[call[s].res].blockedUntil = states[call[s].res].blockedUntil
      BY <2>0, <2>2, <3>1, <3>2 DEF TypeOK, WaitSleep, LimiterState
    <3>7. states[call[s].res].blockedUntil \in 0 .. Horizon
      BY <3>2 DEF LimiterState
    <3> QED BY <3>5, <3>6, <3>7
  <2>3. ASSUME NEW c \in Callers,
               \/ \E r \in Resources : WaitCall(c, r)
               \/ WaitPass(c)
               \/ SleepOver(c)
               \/ SleepAbort(c)
               \/ \E r \in Resources, wait \in Waits : BlockFor(c, r, wait)
               \/ BlockUntil(c)
        PROVE  call'[s] = call[s]
    <3>1. CASE s = c
      BY <2>3, <3>1, <2>0
      DEF TypeOK, WaitCall, WaitPass, SleepOver, SleepAbort, BlockFor, BlockUntil,
          Outside, Call
    <3>2. CASE s # c
      BY <2>3, <3>2
      DEF TypeOK, WaitCall, WaitPass, SleepOver, SleepAbort, BlockFor, BlockUntil
    <3> QED BY <3>1, <3>2
  <2> QED BY <2>1, <2>2, <2>3 DEF LimiterNext, LimiterStep, Tick
<1> QED BY <1>1, <1>2, InitType, TypeStep, PTL DEF LimiterSpec
-----------------------------------------------------------------------------
\* The counters of a resource move only when its cooldown does.
LEMMA CountersStep ==
    ASSUME TypeOK, [LimiterNext]_limiterVars, NEW r \in Resources
    PROVE  /\ states'[r].hits - states[r].hits =
                  IF ~Blocked(r) /\ states'[r].blockedUntil > now' THEN 1 ELSE 0
           /\ states'[r].extensions - states[r].extensions =
                  IF Blocked(r) /\ states'[r].blockedUntil > states[r].blockedUntil THEN 1 ELSE 0
<1> DEFINE old == states[r]
           new == states'[r]
<1>0. old \in LimiterState /\ now \in 0 .. Horizon
  BY DEF TypeOK
<1>1. ASSUME new.hits = old.hits, new.extensions = old.extensions,
             new.blockedUntil = old.blockedUntil, now' \in {now, now + 1}
      PROVE  /\ new.hits - old.hits = IF ~Blocked(r) /\ new.blockedUntil > now' THEN 1 ELSE 0
             /\ new.extensions - old.extensions =
                    IF Blocked(r) /\ new.blockedUntil > old.blockedUntil THEN 1 ELSE 0
  BY <1>0, <1>1 DEF LimiterState, Blocked
<1>2. ASSUME NEW c \in Callers, WaitSleep(c)
      PROVE  /\ new.hits = old.hits /\ new.extensions = old.extensions
             /\ new.blockedUntil = old.blockedUntil /\ now' = now
  BY <1>0, <1>2 DEF TypeOK, WaitSleep, LimiterState
<1>3. ASSUME NEW c \in Callers, BlockUntil(c), r = call[c].res, Prolongs(r, call[c].until)
      PROVE  /\ new.hits - old.hits = IF ~Blocked(r) /\ new.blockedUntil > now' THEN 1 ELSE 0
             /\ new.extensions - old.extensions =
                    IF Blocked(r) /\ new.blockedUntil > old.blockedUntil THEN 1 ELSE 0
  <2> DEFINE until == call[c].until
  <2>1. until \in 0 .. Horizon /\ until > old.blockedUntil
    BY <1>3 DEF TypeOK, Call, Prolongs
  <2>2. new = Extend(old, until) /\ now' = now
    BY <1>3 DEF TypeOK, BlockUntil
  <2>3. /\ new.blockedUntil = until
        /\ new.hits = IF old.blockedUntil <= now /\ until > now THEN old.hits + 1 ELSE old.hits
        /\ new.extensions = IF old.blockedUntil > now THEN old.extensions + 1 ELSE old.extensions
    BY <1>0, <2>2 DEF Extend, LimiterState
  <2>4. old.hits \in Nat /\ old.extensions \in Nat /\ old.blockedUntil \in 0 .. Horizon
    BY <1>0 DEF LimiterState
  <2> HIDE DEF until, new
  <2> QED BY <1>0, <2>1, <2>2, <2>3, <2>4 DEF Blocked
<1>4. ASSUME NEW c \in Callers, BlockUntil(c), ~(r = call[c].res /\ Prolongs(r, call[c].until))
      PROVE  new = old /\ now' = now
  BY <1>4 DEF TypeOK, BlockUntil, Prolongs
<1>5. CASE UNCHANGED states /\ now' \in {now, now + 1}
  BY <1>1, <1>5
<1> QED
  BY <1>1, <1>2, <1>3, <1>4, <1>5
  DEF LimiterNext, LimiterStep, Tick, WaitCall, WaitPass, SleepOver, SleepAbort, BlockFor

\* Every hit the runner reports stands for a free resource that got blocked.
THEOREM HitsAreWindows == LimiterSpec => HitOpensWindow
<1>1. TypeOK /\ [LimiterNext]_limiterVars =>
        [\A r \in Resources :
            states'[r].hits - states[r].hits =
                IF ~Blocked(r) /\ states'[r].blockedUntil > now' THEN 1 ELSE 0]_limiterVars
  BY CountersStep
<1> QED BY <1>1, LimiterTypeCorrect, PTL DEF LimiterSpec, HitOpensWindow

\* Every extension stands for a cooldown that was prolonged while it ran, and
\* no deadline ever moves back.
THEOREM ExtensionsProlong == LimiterSpec => ExtensionProlongs
<1>1. TypeOK /\ [LimiterNext]_limiterVars =>
        [\A r \in Resources :
            /\ states'[r].blockedUntil >= states[r].blockedUntil
            /\ states'[r].extensions - states[r].extensions =
                  IF Blocked(r) /\ states'[r].blockedUntil > states[r].blockedUntil
                    THEN 1 ELSE 0]_limiterVars
  BY CountersStep, DeadlineMonotone
<1> QED BY <1>1, LimiterTypeCorrect, PTL DEF LimiterSpec, ExtensionProlongs

-----------------------------------------------------------------------------
(* Requests                                                                *)

\* Where a request stands in the limiter is where its goroutine is there, and
\* a report asks for no less than the answer did; who backs off has attempts left.
Coupled(c) ==
    /\ At(c, "gate") => call[c].at \in {"wait", "sleep"} /\ call[c].res = req[c].res
    /\ At(c, "block") => /\ call[c].at = "block" /\ call[c].res = req[c].res
                         /\ req[c].told <= call[c].until
    /\ At(c, "backoff") => req[c].attempt < MaxAttempts

\* GitHub is obeyed while the resource is blocked.
ToldIsBlocked == \A r \in Resources : told[r] <= states[r].blockedUntil

\* Who was let through into a cooldown has not yet sent into it.
SentInto(r, c) ==
    /\ ~Blocked(r) => sent[r][c] = 0
    /\ sent[r][c] <= 1
    /\ At(c, "send") /\ req[c].res = r => sent[r][c] = 0

RequestInv ==
    /\ RequestTypeOK
    /\ \A c \in Callers : Coupled(c)
    /\ ToldIsBlocked
    /\ \A r \in Resources, c \in Callers : SentInto(r, c)
    /\ ErrorsTellTheCause

USE PagerAssumption, AttemptsAssumption

-----------------------------------------------------------------------------
(* The use of the limiter                                                  *)

\* Every step is one of the limiter's, or none of its business.
LEMMA LimiterSteps == RequestTypeOK /\ [RequestNext]_requestVars => [LimiterNext]_limiterVars
<1> SUFFICES ASSUME RequestTypeOK, [RequestNext]_requestVars PROVE [LimiterNext]_limiterVars
  OBVIOUS
<1>1. \A c \in Callers : req[c].res \in Resources
  BY DEF RequestTypeOK, Request
<1>2. CASE UNCHANGED requestVars \/ Shutdown \/ Cancel \/ Clock
  BY <1>2 DEF requestVars, Shutdown, Cancel, Clock, LimiterNext
<1>3. ASSUME NEW c \in Callers, RequestStep(c) PROVE [LimiterNext]_limiterVars
  <2>1. CASE EnterWait(c) \/ Gate(c) \/ BlockAndRetry(c)
    BY <1>1, <2>1
    DEF EnterWait, Gate, GateOpen, GateShut, GateAgain, GateCut, BlockAndRetry, LimiterStep, LimiterNext
  <2>2. CASE RateLimited(c)
    <3>1. PICK wait \in 1 .. Horizon : BlockFor(c, req[c].res, wait)
      BY <2>2 DEF RateLimited
    <3>2. wait \in Waits
      BY WaitsCoverHorizon
    <3> QED BY <1>1, <3>1, <3>2 DEF LimiterStep, LimiterNext
  <2>3. CASE \/ ContextCheck(c) \/ Send(c) \/ Answered(c) \/ TransientFailure(c)
             \/ BackoffOver(c) \/ BackoffCut(c)
    BY <2>3 DEF ContextCheck, Send, Answered, TransientFailure, BackoffOver, BackoffCut
  <2> QED BY <1>3, <2>1, <2>2, <2>3 DEF RequestStep
<1>4. ASSUME NEW c \in Callers, NEW r \in Resources, Begin(c, r) PROVE UNCHANGED limiterVars
  BY <1>4 DEF Begin
<1> QED BY <1>2, <1>3, <1>4 DEF RequestNext

-----------------------------------------------------------------------------
(* Types                                                                   *)

\* A request that goes on, or is over, is well typed.
LEMMA GotoType ==
    ASSUME RequestTypeOK, NEW c \in Callers, NEW place \in Place, Goto(c, place)
    PROVE  req' \in [Callers -> Request]
<1>1. req[c] \in Request
  BY DEF RequestTypeOK
<1>2. [req[c] EXCEPT !.pc = place] \in Request
  BY <1>1 DEF Request
<1>3. req' = [req EXCEPT ![c] = [req[c] EXCEPT !.pc = place]]
  BY DEF Goto
<1> QED BY <1>2, <1>3 DEF RequestTypeOK

\* Who returns is idle, with a result, and the others stay.
LEMMA ReturnType ==
    ASSUME RequestTypeOK, NEW c \in Callers, NEW result, Return(c, result),
           result \in {"ok", "error", "canceled", "interrupted"}
    PROVE  req' \in [Callers -> Request] /\ req'[c].result = result /\ req'[c].pc = "idle"
           /\ \A d \in Callers \ {c} : req'[d] = req[d]
<1> DEFINE old == req[c]
           where == Outside.res
           new == [old EXCEPT !.pc = "idle", !.result = result, !.attempt = 1,
                              !.until = 0, !.round = 1, !.res = where]
<1>1. old \in Request /\ req \in [Callers -> Request] /\ where \in Resources
  BY OutsideType DEF RequestTypeOK, Call
<1>2. "idle" \in Place /\ 1 \in 1 .. MaxAttempts /\ 0 \in 0 .. Horizon /\ 1 \in Nat \ {0}
  BY DEF Place
<1>3. new \in Request /\ new.result = result /\ new.pc = "idle"
  <2> HIDE DEF old, where
  <2> QED BY <1>1, <1>2 DEF Request
<1>4. req' = [req EXCEPT ![c] = new]
  BY DEF Return
<1> HIDE DEF new
<1> QED BY <1>1, <1>3, <1>4
-----------------------------------------------------------------------------
(* What most steps have in common                                          *)

\* The error a request returns tells the cause.
Justified(c, result) ==
    /\ result = "interrupted" => shutdown /\ c # Pager
    /\ result = "canceled" => CtxDone(c)

\* What GitHub said stands as long as deadlines only move forward.
LEMMA ToldKept ==
    ASSUME RequestInv, TypeOK', UNCHANGED told,
           \A r \in Resources : states'[r].blockedUntil >= states[r].blockedUntil
    PROVE  told' \in [Resources -> Nat] /\ ToldIsBlocked'
<1>1. \A r \in Resources : /\ told[r] \in Nat /\ told[r] <= states[r].blockedUntil
                           /\ states[r].blockedUntil \in Nat /\ states'[r].blockedUntil \in Nat
  BY DEF RequestInv, RequestTypeOK, ToldIsBlocked, TypeOK, LimiterState
<1>2. told' \in [Resources -> Nat]
  BY DEF RequestInv, RequestTypeOK
<1> QED BY <1>1, <1>2 DEF ToldIsBlocked

\* A step of one caller that sends nothing and leaves the clock alone.
LEMMA Moved ==
    ASSUME RequestInv, TypeOK', NEW c \in Callers, NEW new \in Request,
           req' = [req EXCEPT ![c] = new], UNCHANGED <<now, shutdown, cancelled, sent>>,
           \A d \in Callers \ {c} : call'[d] = call[d],
           \A r \in Resources : states'[r].blockedUntil >= states[r].blockedUntil,
           Justified(c, new.result),
           new.pc \notin {"gate", "block", "backoff"} \/ Coupled(c)',
           new.pc = "send" => sent[new.res][c] = 0,
           told' \in [Resources -> Nat] /\ ToldIsBlocked'
    PROVE  RequestInv'
<1>1. req' \in [Callers -> Request] /\ req'[c] = new /\ \A d \in Callers \ {c} : req'[d] = req[d]
  BY DEF RequestInv, RequestTypeOK
<1>2. RequestTypeOK'
  BY <1>1 DEF RequestInv, RequestTypeOK
<1>3. \A d \in Callers : Coupled(d)'
  BY <1>1 DEF RequestInv, Coupled, At
<1>4. ErrorsTellTheCause'
  BY <1>1, Zenon DEF RequestInv, ErrorsTellTheCause, Justified, CtxDone
<1>5. ASSUME NEW r \in Resources, NEW d \in Callers PROVE SentInto(r, d)'
  <2>1. SentInto(r, d)
    BY DEF RequestInv
  <2>2. Blocked(r) => Blocked(r)'
    BY DEF RequestInv, RequestTypeOK, TypeOK, LimiterState, Blocked
  <2>3. sent'[r][d] = sent[r][d]
    OBVIOUS
  <2>4. At(d, "send")' /\ req'[d].res = r => sent[r][d] = 0
    BY <1>1, <2>1 DEF SentInto, At
  <2> QED BY <2>1, <2>2, <2>3, <2>4 DEF SentInto, At
<1> QED BY <1>2, <1>3, <1>4, <1>5 DEF RequestInv

\* A step that concerns neither the limiter nor what was sent and told.
LEMMA Quiet ==
    ASSUME RequestInv, NEW c \in Callers, NEW new \in Request,
           req' = [req EXCEPT ![c] = new],
           UNCHANGED <<limiterVars, shutdown, cancelled, sent, told>>,
           new.pc \in {"idle", "top", "backoff"},
           new.pc = "backoff" => new.attempt < MaxAttempts,
           Justified(c, new.result)
    PROVE  RequestInv'
<1>1. TypeOK' /\ \A r \in Resources : states'[r].blockedUntil >= states[r].blockedUntil
  BY DEF RequestInv, RequestTypeOK, TypeOK, LimiterState
<1>2. \A d \in Callers \ {c} : call'[d] = call[d]
  OBVIOUS
<1>3. new.pc \notin {"gate", "block", "backoff"} \/ Coupled(c)'
  <2>1. req'[c] = new
    BY DEF RequestInv, RequestTypeOK
  <2> QED BY <2>1 DEF Coupled, At
<1> QED BY <1>1, <1>2, <1>3, ToldKept, Moved

\* A request returns.
LEMMA Returns ==
    ASSUME RequestInv, TypeOK', NEW c \in Callers, NEW result, Return(c, result),
           result \in {"ok", "error", "canceled", "interrupted"}, Justified(c, result),
           UNCHANGED <<now, shutdown, cancelled, sent, told>>,
           \A d \in Callers \ {c} : call'[d] = call[d],
           \A r \in Resources : states'[r].blockedUntil >= states[r].blockedUntil
    PROVE  RequestInv'
<1> DEFINE new == req'[c]
<1>1. req' \in [Callers -> Request] /\ new.result = result /\ new.pc = "idle"
  BY ReturnType DEF RequestInv
<1>2. req' = [req EXCEPT ![c] = new]
  BY <1>1, ReturnType DEF RequestInv, RequestTypeOK
<1> HIDE DEF new
<1>3. new \in Request
  BY <1>1 DEF new
<1> QED BY <1>1, <1>2, <1>3, ToldKept, Moved

\* A request that goes on has the result it had.
LEMMA GoesOn ==
    ASSUME RequestInv, NEW c \in Callers, NEW place \in Place
    PROVE  LET new == [req[c] EXCEPT !.pc = place]
           IN  /\ new \in Request /\ new.pc = place /\ new.res = req[c].res /\ new.told = req[c].told
               /\ Justified(c, new.result)
<1> DEFINE old == req[c]
           new == [old EXCEPT !.pc = place]
<1>1. old \in Request
  BY DEF RequestInv, RequestTypeOK
<1>2. Justified(c, old.result)
  BY DEF RequestInv, ErrorsTellTheCause, Justified
<1> HIDE DEF old
<1>3. /\ new \in Request /\ new.pc = place /\ new.res = old.res /\ new.told = old.told
      /\ new.result = old.result
  BY <1>1 DEF Request
<1> HIDE DEF new
<1> QED BY <1>2, <1>3 DEF new, old

-----------------------------------------------------------------------------
(* The steps                                                               *)

\* No step takes a deadline back.
LEMMA LimiterFacts ==
    ASSUME RequestInv, [RequestNext]_requestVars
    PROVE  TypeOK' /\ \A r \in Resources : states'[r].blockedUntil >= states[r].blockedUntil
<1>1. TypeOK /\ [LimiterNext]_limiterVars
  BY LimiterSteps DEF RequestInv, RequestTypeOK
<1> QED BY <1>1, TypeStep, DeadlineMonotone

\* Whoever finds the gate open has sent nothing yet into what comes.
LEMMA GateKeeps ==
    ASSUME RequestInv, [RequestNext]_requestVars, NEW c \in Callers, Gate(c)
    PROVE  RequestInv'
<1>0. /\ TypeOK' /\ call \in [Callers -> Call] /\ states \in [Resources -> LimiterState]
      /\ req \in [Callers -> Request] /\ Coupled(c)
      /\ \A r \in Resources : states'[r].blockedUntil >= states[r].blockedUntil
  BY LimiterFacts DEF RequestInv, RequestTypeOK, TypeOK
<1>1. UNCHANGED <<shutdown, cancelled, sent, told>>
  BY DEF Gate
<1>2. told' \in [Resources -> Nat] /\ ToldIsBlocked'
  BY <1>0, <1>1, ToldKept
<1>3. CASE GateOpen(c)
  <2> DEFINE new == [req[c] EXCEPT !.pc = "send"]
  <2>1. "send" \in Place
    BY DEF Place
  <2>2. new \in Request /\ new.pc = "send" /\ new.res = req[c].res /\ Justified(c, new.result)
    BY <2>1, GoesOn
  <2>3. req' = [req EXCEPT ![c] = new]
    BY <1>3 DEF GateOpen, Goto
  <2>4. ~Blocked(req[c].res) /\ UNCHANGED now /\ \A d \in Callers \ {c} : call'[d] = call[d]
    BY <1>0, <1>3 DEF GateOpen, WaitPass, Coupled, At
  <2>5. req[c].res \in Resources
    BY <1>0 DEF Request
  <2> HIDE DEF new
  <2>6. sent[new.res][c] = 0
    BY <2>2, <2>4, <2>5 DEF RequestInv, SentInto
  <2> QED BY <1>0, <1>1, <1>2, <2>2, <2>3, <2>4, <2>6, Moved
<1>4. CASE GateShut(c) \/ GateAgain(c)
  <2> DEFINE new == req[c]
  <2>1. req' = [req EXCEPT ![c] = new] /\ req' = req /\ At(c, "gate")
    BY <1>0, <1>4 DEF GateShut, GateAgain
  <2>2. new \in Request /\ new.pc = "gate" /\ Justified(c, new.result)
    BY <1>0, <2>1 DEF At, RequestInv, ErrorsTellTheCause, Justified
  <2>3. UNCHANGED now /\ \A d \in Callers \ {c} : call'[d] = call[d]
    BY <1>0, <1>4 DEF GateShut, GateAgain, WaitSleep, SleepOver
  <2>4. call'[c].at \in {"wait", "sleep"} /\ call'[c].res = call[c].res
    <3>1. call[c] \in Call
      BY <1>0
    <3>2. CASE GateShut(c)
      <4> DEFINE until == states[call[c].res].blockedUntil
      <4> HIDE DEF until
      <4>1. call'[c] = [call[c] EXCEPT !.at = "sleep", !.until = until]
        BY <1>0, <3>2 DEF GateShut, WaitSleep, until
      <4> QED BY <3>1, <4>1 DEF Call
    <3>3. CASE GateAgain(c)
      <4>1. call'[c] = [call[c] EXCEPT !.at = "wait", !.until = 0]
        BY <1>0, <3>3 DEF GateAgain, SleepOver
      <4> QED BY <3>1, <4>1 DEF Call
    <3> QED BY <1>4, <3>2, <3>3
  <2>5. Coupled(c)'
    BY <1>0, <2>1, <2>2, <2>4 DEF Coupled, At
  <2> HIDE DEF new
  <2> QED BY <1>0, <1>1, <1>2, <2>1, <2>2, <2>3, <2>5, Moved
<1>5. CASE GateCut(c)
  <2>1. UNCHANGED now /\ \A d \in Callers \ {c} : call'[d] = call[d]
    BY <1>0, <1>5 DEF GateCut, SleepAbort
  <2>2. SleepCut(c)
    BY <1>5 DEF GateCut
  <2>3. \E result \in {"canceled", "interrupted"} : Return(c, result) /\ Justified(c, result)
    BY <2>2 DEF SleepCut, WaitInterrupted, Justified
  <2> QED BY <1>0, <1>1, <2>1, <2>3, Returns
<1> QED BY <1>3, <1>4, <1>5 DEF Gate

\* Who sends has sent nothing before into the same cooldown.
LEMMA SendKeeps ==
    ASSUME RequestInv, NEW c \in Callers, Send(c)
    PROVE  RequestInv'
<1> DEFINE q == req[c].res
<1>0. /\ Goto(c, "flight") /\ UNCHANGED <<limiterVars, shutdown, cancelled, told>>
      /\ At(c, "send") /\ sent' = [sent EXCEPT ![q][c] = IF Blocked(q) THEN @ + 1 ELSE @]
  BY DEF Send
<1>1. RequestTypeOK /\ "flight" \in Place /\ q \in Resources
  BY DEF RequestInv, RequestTypeOK, Request, Place
<1>2. req' \in [Callers -> Request]
  BY <1>0, <1>1, GotoType
<1>3. \A d \in Callers : /\ req'[d].res = req[d].res /\ req'[d].result = req[d].result
                         /\ req'[d].told = req[d].told /\ req'[d].attempt = req[d].attempt
                         /\ req'[d].pc = IF d = c THEN "flight" ELSE req[d].pc
  BY <1>0, <1>1 DEF Goto, RequestTypeOK, Request
<1>4. \A r \in Resources, d \in Callers :
         sent'[r][d] = IF r = q /\ d = c /\ Blocked(q) THEN 1 ELSE sent[r][d]
  <2>1. sent[q][c] = 0
    BY <1>0, <1>1 DEF RequestInv, SentInto
  <2>2. sent \in [Resources -> [Callers -> Nat]]
    BY <1>1 DEF RequestTypeOK
  <2> HIDE DEF q
  <2> QED BY <1>0, <1>1, <2>1, <2>2
<1>5. sent' \in [Resources -> [Callers -> Nat]]
  BY <1>0, <1>1 DEF RequestTypeOK
<1>6. RequestTypeOK'
  BY <1>0, <1>1, <1>2, <1>5 DEF RequestTypeOK, TypeOK
<1>7. \A d \in Callers : Coupled(d)'
  BY <1>0, <1>3 DEF RequestInv, Coupled, At
<1>8. ErrorsTellTheCause'
  BY <1>0, <1>3, Zenon DEF RequestInv, ErrorsTellTheCause, CtxDone
<1>9. ASSUME NEW r \in Resources, NEW d \in Callers PROVE SentInto(r, d)'
  <2>1. SentInto(r, d) /\ (Blocked(r)' <=> Blocked(r))
    BY <1>0 DEF RequestInv, Blocked
  <2>2. sent[r][d] \in Nat
    BY <1>1 DEF RequestTypeOK
  <2> QED BY <1>3, <1>4, <2>1, <2>2 DEF SentInto, At
<1>10. ToldIsBlocked'
  BY <1>0 DEF RequestInv, ToldIsBlocked
<1> QED BY <1>6, <1>7, <1>8, <1>9, <1>10 DEF RequestInv

\* The wait that is reported lasts at least until the instant the answer names.
LEMMA WaitIsEnough ==
    ASSUME NEW c, NEW a \in Answer, now \in Nat, NEW wait \in 1 .. Horizon, wait = LimitWait(c, a)
    PROVE  ComeBackAt(a) \in Nat /\ ComeBackAt(a) <= now + wait
<1>1. a.after \in Nat /\ a.date \in Nat /\ a.reset \in Nat
  BY DEF Answer
<1>2. ComeBackAt(a) \in Nat
  BY <1>1 DEF ComeBackAt
<1>3. CASE retryAfterWait(a) > 0
  <2>1. wait = retryAfterWait(a) \/ a.status < 400
    BY <1>3 DEF LimitWait, graphQLRateLimitWait, rateLimitWait
  <2>2. wait = retryAfterWait(a)
    BY <1>3, <2>1 DEF LimitWait, graphQLRateLimitWait, rateLimitWait
  <2> QED BY <1>1, <1>3, <2>2 DEF retryAfterWait, ComeBackAt, Later
<1>4. CASE ~(retryAfterWait(a) > 0)
  <2>1. a.after = 0 /\ ~(a.date > now)
    BY <1>1, <1>4 DEF retryAfterWait, Later
  <2>2. ComeBackAt(a) = IF a.exhausted /\ a.reset > 0 THEN a.reset + 1 ELSE 0
    BY <2>1 DEF ComeBackAt
  <2>3. a.exhausted => wait = resetWait(a) \/ ~(resetWait(a) > 0)
    BY <1>4 DEF LimitWait, graphQLRateLimitWait, rateLimitWait
  <2> QED BY <1>1, <2>2, <2>3 DEF resetWait, Later
<1> QED BY <1>2, <1>3, <1>4

\* A rate limited answer is on its way to the limiter.
LEMMA RateLimitedKeeps ==
    ASSUME RequestInv, [RequestNext]_requestVars, NEW c \in Callers, RateLimited(c)
    PROVE  RequestInv'
<1>0. /\ TypeOK' /\ call \in [Callers -> Call] /\ req \in [Callers -> Request]
      /\ now \in Nat /\ UNCHANGED <<shutdown, cancelled, sent, told>>
      /\ \A r \in Resources : states'[r].blockedUntil >= states[r].blockedUntil
  BY LimiterFacts DEF RequestInv, RequestTypeOK, TypeOK, RateLimited
<1>1. PICK a \in Answers, wait \in 1 .. Horizon :
         /\ wait = LimitWait(c, a)
         /\ BlockFor(c, req[c].res, wait)
         /\ req' = [req EXCEPT ![c].pc = "block", ![c].told = ComeBackAt(a),
                               ![c].round = IF LimitedBody(c, a) THEN @ + 1 ELSE @]
  BY DEF RateLimited
<1> DEFINE instant == ComeBackAt(a)
           round == IF LimitedBody(c, a) THEN req[c].round + 1 ELSE req[c].round
           new == [req[c] EXCEPT !.pc = "block", !.told = instant, !.round = round]
<1>2. instant \in Nat /\ instant <= now + wait
  BY <1>0, <1>1, WaitIsEnough, AnswersAssumption
<1>3. round \in Nat \ {0} /\ "block" \in Place
  BY <1>0 DEF Request, Place
<1>4. req' = [req EXCEPT ![c] = new]
  BY <1>0, <1>1
<1> HIDE DEF instant, round
<1>5. /\ new \in Request /\ new.pc = "block" /\ new.told = instant /\ new.res = req[c].res
      /\ new.result = req[c].result
  BY <1>0, <1>2, <1>3 DEF Request
<1>6. Justified(c, new.result)
  BY <1>5 DEF RequestInv, ErrorsTellTheCause, Justified
<1> HIDE DEF new
<1>7. /\ call' = [call EXCEPT ![c] = [at |-> "block", res |-> req[c].res, until |-> now + wait]]
      /\ UNCHANGED now
  BY <1>1 DEF BlockFor
<1>8. Coupled(c)'
  BY <1>0, <1>2, <1>4, <1>5, <1>7 DEF Coupled, At
<1>9. \A d \in Callers \ {c} : call'[d] = call[d]
  BY <1>0, <1>7
<1> QED BY <1>0, <1>4, <1>5, <1>6, <1>7, <1>8, <1>9, ToldKept, Moved

\* Once it is reported the resource is blocked until the instant it named.
LEMMA BlockAndRetryKeeps ==
    ASSUME RequestInv, [RequestNext]_requestVars, NEW c \in Callers, BlockAndRetry(c)
    PROVE  RequestInv'
<1> DEFINE r == req[c].res
           new == [req[c] EXCEPT !.pc = "top", !.attempt = 1, !.told = 0]
<1>0. /\ TypeOK' /\ call \in [Callers -> Call] /\ req \in [Callers -> Request]
      /\ states \in [Resources -> LimiterState] /\ states' \in [Resources -> LimiterState]
      /\ told \in [Resources -> Nat] /\ now \in Nat /\ r \in Resources
      /\ \A q \in Resources : states'[q].blockedUntil >= states[q].blockedUntil
      /\ Coupled(c) /\ At(c, "block")
  BY LimiterFacts DEF RequestInv, RequestTypeOK, TypeOK, Request, BlockAndRetry
<1>1. /\ BlockUntil(c) /\ UNCHANGED <<shutdown, cancelled, sent>>
      /\ req' = [req EXCEPT ![c] = new]
      /\ told' = [told EXCEPT ![r] = IF req[c].told > now THEN Later(@, req[c].told) ELSE @]
  BY DEF BlockAndRetry, Retry
<1>2. "top" \in Place /\ 1 \in 1 .. MaxAttempts /\ 0 \in Nat
  BY DEF Place
<1>3. new \in Request /\ new.pc = "top" /\ new.result = req[c].result
  BY <1>0, <1>2 DEF Request
<1>4. Justified(c, new.result)
  BY <1>3 DEF RequestInv, ErrorsTellTheCause, Justified
<1>5. UNCHANGED now /\ \A d \in Callers \ {c} : call'[d] = call[d]
  BY <1>0, <1>1 DEF BlockUntil
<1>6. states'[r].blockedUntil >= call[c].until
  <2>1. call[c].res = r /\ call[c].until \in 0 .. Horizon
    BY <1>0 DEF Coupled, Call
  <2>2. CASE Prolongs(r, call[c].until)
    <3>1. states'[r] = Extend(states[r], call[c].until)
      BY <1>0, <1>1, <2>1, <2>2 DEF BlockUntil
    <3>2. states'[r].blockedUntil = call[c].until
      BY <1>0, <3>1 DEF Extend, LimiterState
    <3> QED BY <2>1, <3>2
  <2>3. CASE ~Prolongs(r, call[c].until)
    <3>1. states'[r] = states[r]
      BY <1>1, <2>1, <2>3 DEF BlockUntil
    <3>2. states[r].blockedUntil \in 0 .. Horizon
      BY <1>0 DEF LimiterState
    <3> QED BY <2>1, <2>3, <3>1, <3>2 DEF Prolongs
  <2> QED BY <2>2, <2>3
<1>7. told' \in [Resources -> Nat] /\ ToldIsBlocked'
  <2>1. req[c].told \in Nat /\ call[c].until \in Nat /\ req[c].told <= call[c].until
    BY <1>0 DEF Request, Call, Coupled
  <2>2. \A q \in Resources : /\ told[q] \in Nat /\ told[q] <= states[q].blockedUntil
                             /\ states[q].blockedUntil \in Nat /\ states'[q].blockedUntil \in Nat
    BY <1>0 DEF RequestInv, ToldIsBlocked, LimiterState
  <2>3. \A q \in Resources : told'[q] = told[q] \/ (q = r /\ told'[q] = req[c].told)
    BY <1>0, <1>1 DEF Later
  <2>4. told' \in [Resources -> Nat]
    BY <1>0, <1>1, <2>1 DEF Later
  <2>5. \A q \in Resources : told'[q] <= states'[q].blockedUntil
    <3> HIDE DEF r
    <3> QED BY <1>0, <1>6, <2>1, <2>2, <2>3
  <2> QED BY <2>4, <2>5 DEF ToldIsBlocked
<1> HIDE DEF new, r
<1> QED BY <1>0, <1>1, <1>3, <1>4, <1>5, <1>7, Moved

\* Steps of one caller that the limiter does not see.
LEMMA UnseenKeeps ==
    ASSUME RequestInv, NEW c \in Callers,
           \/ ContextCheck(c) \/ Answered(c) \/ TransientFailure(c)
           \/ BackoffOver(c) \/ BackoffCut(c)
           \/ \E r \in Resources : Begin(c, r)
    PROVE  RequestInv'
<1>0. /\ UNCHANGED <<limiterVars, shutdown, cancelled, sent, told>>
      /\ req \in [Callers -> Request] /\ req[c] \in Request
  BY DEF RequestInv, RequestTypeOK, ContextCheck, Answered, TransientFailure, BackoffOver,
         BackoffCut, Begin
<1>1. /\ TypeOK' /\ \A r \in Resources : states'[r].blockedUntil >= states[r].blockedUntil
      /\ \A d \in Callers \ {c} : call'[d] = call[d]
  BY <1>0 DEF RequestInv, RequestTypeOK, TypeOK, LimiterState
<1>2. ASSUME NEW result \in {"ok", "error", "canceled", "interrupted"},
             Return(c, result), Justified(c, result)
      PROVE  RequestInv'
  BY <1>0, <1>1, <1>2, Returns
<1>3. Justified(c, "ok") /\ Justified(c, "error") /\ Justified(c, "none")
      /\ (CtxDone(c) => Justified(c, "canceled")) /\ (WaitInterrupted(c) => Justified(c, "interrupted"))
      /\ Justified(c, req[c].result)
  BY DEF Justified, WaitInterrupted, RequestInv, ErrorsTellTheCause
<1>4. {"top", "backoff"} \subseteq Place
  BY DEF Place
<1>5. CASE ContextCheck(c) \/ Answered(c)
  BY <1>2, <1>3, <1>5 DEF ContextCheck, Answered, Fail
<1>6. CASE BackoffCut(c)
  BY <1>2, <1>3, <1>6 DEF BackoffCut, SleepCut
<1>7. CASE TransientFailure(c)
  <2>1. CASE Fail(c)
    BY <1>2, <1>3, <2>1 DEF Fail
  <2>2. ASSUME NEW until \in now .. Horizon, req[c].attempt < MaxAttempts,
               req' = [req EXCEPT ![c].pc = "backoff", ![c].until = until]
        PROVE  RequestInv'
    <3> DEFINE new == [req[c] EXCEPT !.pc = "backoff", !.until = until]
    <3>1. until \in 0 .. Horizon
      BY DEF RequestInv, RequestTypeOK, TypeOK
    <3>2. new \in Request /\ new.pc = "backoff" /\ new.result = req[c].result
          /\ new.attempt = req[c].attempt
      BY <1>0, <1>4, <3>1 DEF Request
    <3>3. req' = [req EXCEPT ![c] = new]
      BY <2>2
    <3> HIDE DEF new
    <3> QED BY <1>0, <1>3, <2>2, <3>2, <3>3, Quiet
  <2>3. req[c].attempt \in Nat /\ MaxAttempts \in Nat
    BY <1>0 DEF Request
  <2> QED BY <1>7, <2>1, <2>2, <2>3 DEF TransientFailure
<1>8. CASE BackoffOver(c)
  <2> DEFINE next == req[c].attempt + 1
             new == [req[c] EXCEPT !.pc = "top", !.until = 0, !.attempt = next]
  <2>1. req[c].attempt < MaxAttempts
    BY <1>8 DEF BackoffOver, RequestInv, Coupled
  <2>2. next \in 1 .. MaxAttempts /\ 0 \in 0 .. Horizon
    BY <1>0, <2>1 DEF Request
  <2> HIDE DEF next
  <2>3. new \in Request /\ new.pc = "top" /\ new.result = req[c].result
    BY <1>0, <1>4, <2>2 DEF Request
  <2>4. req' = [req EXCEPT ![c] = new]
    BY <1>8 DEF BackoffOver, next
  <2>5. Justified(c, new.result) /\ new.pc \in {"idle", "top", "backoff"} /\ new.pc # "backoff"
    BY <1>3, <2>3
  <2> HIDE DEF new
  <2> QED BY <1>0, <2>3, <2>4, <2>5, Quiet
<1>9. ASSUME NEW r \in Resources, Begin(c, r) PROVE RequestInv'
  <2> DEFINE left == req[c].left - 1
             new == [req[c] EXCEPT !.pc = "top", !.res = r, !.left = left, !.result = "none"]
  <2>0. req[c].left > 0 /\ req[c].left \in 0 .. MaxRequests /\ MaxRequests \in Nat
    BY <1>0, <1>9 DEF Begin, Request
  <2>1. left \in 0 .. MaxRequests
    BY <2>0
  <2> HIDE DEF left
  <2>2. new \in Request /\ new.pc = "top" /\ new.result = "none"
    BY <1>0, <1>4, <2>1 DEF Request
  <2>3. req' = [req EXCEPT ![c] = new]
    BY <1>9 DEF Begin, left
  <2>4. Justified(c, new.result) /\ new.pc \in {"idle", "top", "backoff"} /\ new.pc # "backoff"
    BY <1>3, <2>2
  <2> HIDE DEF new
  <2> QED BY <1>0, <2>2, <2>3, <2>4, Quiet
<1> QED BY <1>5, <1>6, <1>7, <1>8, <1>9

\* Into the limiter.
LEMMA EnterWaitKeeps ==
    ASSUME RequestInv, [RequestNext]_requestVars, NEW c \in Callers, EnterWait(c)
    PROVE  RequestInv'
<1> DEFINE new == [req[c] EXCEPT !.pc = "gate"]
<1>0. /\ TypeOK' /\ call \in [Callers -> Call] /\ req \in [Callers -> Request]
      /\ UNCHANGED <<shutdown, cancelled, sent, told>>
      /\ \A r \in Resources : states'[r].blockedUntil >= states[r].blockedUntil
  BY LimiterFacts DEF RequestInv, RequestTypeOK, TypeOK, EnterWait
<1>1. "gate" \in Place
  BY DEF Place
<1>2. new \in Request /\ new.pc = "gate" /\ new.res = req[c].res /\ Justified(c, new.result)
  BY <1>1, GoesOn
<1>3. req' = [req EXCEPT ![c] = new]
  BY DEF EnterWait, Goto
<1> HIDE DEF new
<1>4. /\ UNCHANGED now /\ \A d \in Callers \ {c} : call'[d] = call[d]
      /\ call'[c].at = "wait" /\ call'[c].res = req[c].res
  BY <1>0 DEF EnterWait, WaitCall
<1>5. Coupled(c)'
  BY <1>0, <1>2, <1>3, <1>4 DEF Coupled, At
<1> QED BY <1>0, <1>2, <1>3, <1>4, <1>5, ToldKept, Moved

\* Time passes: what is over is forgotten.
LEMMA ClockKeeps ==
    ASSUME RequestInv, [RequestNext]_requestVars, Clock
    PROVE  RequestInv'
<1>0. /\ TypeOK' /\ UNCHANGED <<req, call, states, shutdown, cancelled>> /\ now' = now + 1
      /\ sent' = [r \in Resources |->
                    IF states[r].blockedUntil > now' THEN sent[r] ELSE [c \in Callers |-> 0]]
      /\ told' = [r \in Resources |-> IF told[r] > now' THEN told[r] ELSE 0]
  BY LimiterFacts DEF Clock, Tick
<1>1. /\ sent \in [Resources -> [Callers -> Nat]] /\ told \in [Resources -> Nat]
      /\ now \in Nat /\ \A r \in Resources : states[r].blockedUntil \in Nat
  BY DEF RequestInv, RequestTypeOK, TypeOK, LimiterState
<1>2. sent' \in [Resources -> [Callers -> Nat]] /\ told' \in [Resources -> Nat]
  BY <1>0, <1>1
<1>3. RequestTypeOK'
  BY <1>0, <1>2 DEF RequestInv, RequestTypeOK
<1>4. \A c \in Callers : Coupled(c)'
  BY <1>0 DEF RequestInv, Coupled, At
<1>5. ToldIsBlocked'
  BY <1>0, <1>1 DEF RequestInv, ToldIsBlocked
<1>6. ASSUME NEW r \in Resources, NEW c \in Callers PROVE SentInto(r, c)'
  <2>1. SentInto(r, c)
    BY DEF RequestInv
  <2>2. sent'[r][c] = IF states[r].blockedUntil > now' THEN sent[r][c] ELSE 0
    BY <1>0
  <2>3. Blocked(r)' <=> states[r].blockedUntil > now'
    BY <1>0 DEF Blocked
  <2> QED BY <1>0, <2>1, <2>2, <2>3 DEF SentInto, At
<1>7. ErrorsTellTheCause'
  BY <1>0, Zenon DEF RequestInv, ErrorsTellTheCause, CtxDone
<1> QED BY <1>3, <1>4, <1>5, <1>6, <1>7 DEF RequestInv

\* A context ends.
LEMMA SignalKeeps ==
    ASSUME RequestInv, Shutdown \/ Cancel \/ UNCHANGED requestVars
    PROVE  RequestInv'
<1>0. UNCHANGED <<limiterVars, req, sent, told>>
  BY DEF Shutdown, Cancel, requestVars
<1>1. /\ shutdown' \in BOOLEAN /\ cancelled' \in BOOLEAN
      /\ (shutdown => shutdown') /\ (cancelled => cancelled')
  BY Zenon DEF Shutdown, Cancel, requestVars, RequestInv, RequestTypeOK
<1>2. RequestTypeOK'
  BY <1>0, <1>1 DEF RequestInv, RequestTypeOK, TypeOK
<1>3. ErrorsTellTheCause'
  <2>1. ASSUME NEW c \in Callers PROVE CtxDone(c) => CtxDone(c)'
    BY <1>1, Zenon DEF CtxDone
  <2> QED BY <1>0, <1>1, <2>1, Zenon DEF RequestInv, ErrorsTellTheCause
<1>4. /\ \A c \in Callers : Coupled(c)'
      /\ ToldIsBlocked'
      /\ \A r \in Resources, c \in Callers : SentInto(r, c)'
  BY <1>0 DEF RequestInv, Coupled, At, ToldIsBlocked, SentInto, Blocked
<1> QED BY <1>2, <1>3, <1>4 DEF RequestInv

\* The first requests find the limiter reset.
LEMMA RequestBegins == RequestInit => RequestInv
<1> SUFFICES ASSUME RequestInit PROVE RequestInv
  OBVIOUS
<1>1. TypeOK /\ Outside.res \in Resources
  BY InitType, OutsideType DEF RequestInit, Call
<1> DEFINE first == [pc |-> "idle", res |-> Outside.res, attempt |-> 1, until |-> 0, round |-> 1,
                     told |-> 0, left |-> MaxRequests, result |-> "none"]
<1>2. first \in Request /\ first.pc = "idle" /\ first.result = "none"
  BY <1>1 DEF Request, Place
<1>3. req = [c \in Callers |-> first]
  BY DEF RequestInit
<1> HIDE DEF first
<1>4. req \in [Callers -> Request] /\ \A c \in Callers : req[c].pc = "idle" /\ req[c].result = "none"
  BY <1>2, <1>3
<1>5. RequestTypeOK
  BY <1>1, <1>4 DEF RequestInit, RequestTypeOK
<1>6. \A r \in Resources : told[r] = 0 /\ states[r].blockedUntil = 0 /\ \A c \in Callers : sent[r][c] = 0
  BY DEF RequestInit, LimiterInit, NewState
<1> QED BY <1>4, <1>5, <1>6
        DEF RequestInv, Coupled, At, ToldIsBlocked, SentInto, ErrorsTellTheCause

\* Every step keeps the invariant.
LEMMA RequestKeepsInv == RequestInv /\ [RequestNext]_requestVars => RequestInv'
<1> SUFFICES ASSUME RequestInv, [RequestNext]_requestVars PROVE RequestInv'
  OBVIOUS
<1>1. ASSUME NEW c \in Callers, RequestStep(c) PROVE RequestInv'
  BY <1>1, GateKeeps, SendKeeps, RateLimitedKeeps, BlockAndRetryKeeps, UnseenKeeps, EnterWaitKeeps
  DEF RequestStep
<1>2. ASSUME NEW c \in Callers, NEW r \in Resources, Begin(c, r) PROVE RequestInv'
  BY <1>2, UnseenKeeps
<1> QED BY <1>1, <1>2, ClockKeeps, SignalKeeps DEF RequestNext

\* The invariant of requests.
LEMMA RequestInvariance == RequestSpec => []RequestInv
BY RequestBegins, RequestKeepsInv, PTL DEF RequestSpec

-----------------------------------------------------------------------------
(* The theorems                                                            *)

\* Type correctness of requests.
THEOREM RequestTypeCorrect == RequestSpec => []RequestTypeOK
<1>1. RequestInv => RequestTypeOK
  BY DEF RequestInv
<1> QED BY <1>1, RequestInvariance, PTL

\* Requests use the limiter as it is meant to be used, so that all that is
\* proved of it holds for them.
THEOREM RequestsUseLimiter == RequestSpec => UsesLimiter
<1>1. RequestInit => LimiterInit
  BY DEF RequestInit
<1>2. RequestInv => RequestTypeOK
  BY DEF RequestInv
<1> QED BY <1>1, <1>2, LimiterSteps, RequestInvariance, PTL DEF RequestSpec, UsesLimiter, LimiterSpec

\* The limiter's promises, in the hands of the requests: the reported wait time
\* is exact, nobody oversleeps, hits and extensions are counted when they
\* happen (ratelimit.go lines 56-109).
THEOREM LimiterInRequests ==
    RequestSpec => /\ []WaitTimeAccounted /\ []NoOversleep
                   /\ HitOpensWindow /\ ExtensionProlongs
BY RequestsUseLimiter, WaitTimeIsAccounted, SleepersWakeInTime, HitsAreWindows, ExtensionsProlong
   DEF UsesLimiter

\* However many goroutines share a resource, each sends at most one request
\* into a cooldown.
THEOREM OneSendEach == RequestSpec => []OneSendPerCooldown
<1>1. RequestInv => OneSendPerCooldown
  BY DEF RequestInv, SentInto, OneSendPerCooldown
<1> QED BY <1>1, RequestInvariance, PTL

\* The error of a request tells the runner why it was given up.
THEOREM ErrorsTell == RequestSpec => []ErrorsTellTheCause
<1>1. RequestInv => ErrorsTellTheCause
  BY DEF RequestInv
<1> QED BY <1>1, RequestInvariance, PTL

\* Nobody is let through before the instant GitHub named to any of the callers
\* who have reported it.
THEOREM NobodyIsEarly == RequestSpec => NobodyComesBackEarly
<1>1. ASSUME RequestInv, [RequestNext]_requestVars
      PROVE  [\A c \in Callers :
                At(c, "gate") /\ req'[c].pc = "send" => now >= told[req[c].res]]_requestVars
  <2> SUFFICES ASSUME NEW c \in Callers, At(c, "gate"), req'[c].pc = "send"
               PROVE  now >= told[req[c].res]
    OBVIOUS
  <2>0. req \in [Callers -> Request] /\ req[c] \in Request
    BY <1>1 DEF RequestInv, RequestTypeOK
  <2>1. GateOpen(c)
    <3>1. CASE \E d \in Callers : RequestStep(d)
      <4>1. PICK d \in Callers : RequestStep(d)
        BY <3>1
      <4>2. CASE d = c
        <5>1. Gate(c)
          BY <4>1, <4>2
          DEF RequestStep, At, ContextCheck, EnterWait, Send, Answered, TransientFailure, BackoffOver,
              BackoffCut, RateLimited, BlockAndRetry
        <5>2. ~GateShut(c) /\ ~GateAgain(c)
          BY DEF GateShut, GateAgain, At
        <5>3. ~GateCut(c)
          <6>1. ASSUME NEW result, Return(c, result) PROVE req'[c].pc = "idle"
            BY <2>0, <6>1 DEF Return, Request
          <6> QED BY <6>1 DEF GateCut, SleepCut
        <5> QED BY <5>1, <5>2, <5>3 DEF Gate
      <4>3. CASE d # c
        <5>1. CASE EnterWait(d) \/ Gate(d) \/ Send(d) \/ RateLimited(d) \/ BlockAndRetry(d)
          <6>1. ASSUME NEW result, Return(d, result) PROVE req'[c] = req[c]
            BY <2>0, <4>3, <6>1 DEF Return
          <6>2. ASSUME GateCut(d) PROVE req'[c] = req[c]
            BY <6>1, <6>2 DEF GateCut, SleepCut
          <6>3. ASSUME EnterWait(d) \/ GateOpen(d) \/ GateShut(d) \/ GateAgain(d) \/ Send(d) PROVE req'[c] = req[c]
            BY <2>0, <4>3, <6>3 DEF EnterWait, GateOpen, GateShut, GateAgain, Send, Goto
          <6>4. ASSUME RateLimited(d) \/ BlockAndRetry(d) PROVE req'[c] = req[c]
            BY <2>0, <4>3, <6>4 DEF RateLimited, BlockAndRetry, Retry
          <6>5. req'[c] = req[c]
            BY <5>1, <6>2, <6>3, <6>4 DEF Gate
          <6> QED BY <6>5 DEF At
        <5>2. CASE ContextCheck(d) \/ Answered(d) \/ TransientFailure(d) \/ BackoffOver(d) \/ BackoffCut(d)
          <6>1. ASSUME NEW result, Return(d, result) PROVE req'[c] = req[c]
            BY <2>0, <4>3, <6>1 DEF Return
          <6>2. ASSUME ContextCheck(d) \/ Answered(d) \/ BackoffCut(d) \/ Fail(d) PROVE req'[c] = req[c]
            BY <6>1, <6>2 DEF ContextCheck, Answered, BackoffCut, SleepCut, Fail
          <6>3. ASSUME BackoffOver(d) \/ TransientFailure(d) PROVE req'[c] = req[c]
            BY <2>0, <4>3, <6>2, <6>3 DEF BackoffOver, TransientFailure
          <6>4. req'[c] = req[c]
            BY <5>2, <6>2, <6>3
          <6> QED BY <6>4 DEF At
        <5> QED BY <4>1, <5>1, <5>2 DEF RequestStep
      <4> QED BY <4>2, <4>3
    <3>2. CASE \E d \in Callers, r \in Resources : Begin(d, r)
      BY <2>0, <3>2 DEF Begin, At
    <3>3. CASE Shutdown \/ Cancel \/ Clock \/ UNCHANGED requestVars
      BY <3>3 DEF Shutdown, Cancel, Clock, requestVars, At
    <3> QED BY <1>1, <3>1, <3>2, <3>3 DEF RequestNext
  <2>2. ~Blocked(req[c].res)
    BY <1>1, <2>1 DEF GateOpen, WaitPass, RequestInv, Coupled
  <2>3. /\ req[c].res \in Resources /\ told[req[c].res] <= states[req[c].res].blockedUntil
        /\ told[req[c].res] \in Nat /\ states[req[c].res].blockedUntil \in Nat /\ now \in Nat
    BY <1>1, <2>0 DEF Request, RequestInv, ToldIsBlocked, RequestTypeOK, TypeOK, LimiterState
  <2> QED BY <2>2, <2>3 DEF Blocked
<1> QED BY <1>1, RequestInvariance, PTL DEF RequestSpec, NobodyComesBackEarly
=============================================================================
