------------------------------ MODULE Gateway ------------------------------
(***************************************************************************)
(* What stands between one user's chat requests and the AI provider        *)
(* besides money: the rate limit, a counter in Redis with a list of recent *)
(* requests in memory to fall back on, and the circuit breaker of the      *)
(* process (Handler.allowed and Handler.Chat in internal/ai/handler.go).   *)
(*                                                                         *)
(* Times are relative: how long a key still lives, how long ago a request  *)
(* was let in, how long the breaker stays open; a Tick ages them all.      *)
(*                                                                         *)
(* Chat goes on with what ChatBilling models.  The names here are others   *)
(* than there, so that one module can speak of both.                       *)
(*                                                                         *)
(* A definition named after another with a reason added is what a slip in  *)
(* the code would make of it; no specification uses it.                    *)
(***************************************************************************)
EXTENDS Integers, FiniteSets, Functions

CONSTANTS Handlers,   \* requests that can be in progress at once
          Limit,      \* requests let in per minute (20 in the code)
          Window,     \* a minute, in ticks
          Threshold,  \* failed requests that open the breaker (5 in the code)
          Cooldown,   \* how long it stays open, in ticks (30 s in the code)
          MaxErrors   \* bound on Redis errors and crashes

ASSUME GatewayAssumption ==
  /\ Limit \in Nat \ {0} /\ Window \in Nat \ {0}
  /\ Threshold \in Nat \ {0} /\ Cooldown \in Nat \ {0}
  /\ MaxErrors \in Nat

Ages == 0..Window - 1

VARIABLES
  key,       \* the counter in Redis up to one over the limit, 0 if absent
  ttl,       \* how long the key lives; 0 if absent or without expiry
  recent,    \* [Ages -> Nat] Handler.recent of the user: requests by age
  failures,  \* Handler.providerFailures
  open,      \* how long providerOpenUntil is ahead
  up,        \* whether the provider answers
  turn,      \* [Handlers -> stage]
  counted,   \* history: [Ages -> Nat] requests let in by the Redis counter
  errors     \* faults so far

gateVars == <<key, ttl, recent, failures, open, up, turn, counted, errors>>
limiter == <<key, ttl, recent, counted>>
breaker == <<failures, open>>

GateStages == {"idle", "expire", "check", "call", "failed", "answered"}

GateTypeOK ==
  /\ key \in 0..Limit + 1
  /\ ttl \in 0..Window
  /\ recent \in [Ages -> 0..Limit]
  /\ failures \in 0..Threshold - 1
  /\ open \in 0..Cooldown
  /\ up \in BOOLEAN
  /\ turn \in [Handlers -> GateStages]
  /\ counted \in [Ages -> Nat]
  /\ errors \in 0..MaxErrors

GateInit ==
  /\ key = 0 /\ ttl = 0
  /\ recent = [a \in Ages |-> 0]
  /\ failures = 0 /\ open = 0
  /\ up = TRUE
  /\ turn = [h \in Handlers |-> "idle"]
  /\ counted = [a \in Ages |-> 0]
  /\ errors = 0

GoOn(h, stage) == turn' = [turn EXCEPT ![h] = stage]
Error == errors < MaxErrors /\ errors' = errors + 1
Total(f) == SumFunctionOnSet(f, Ages)

-----------------------------------------------------------------------------
(* The rate limit.                                                         *)

Incremented == IF key > Limit THEN key ELSE key + 1

AdmittedOffByOne(n) == n <= Limit + 1
Admitted(n) == n <= Limit

IsFirstOffByOne(n) == n = 0
IsFirst(n) == n = 1

\* allowed: INCR creates the key or counts it up, and whoever created it is to
\* let it expire.  A request refused counts too.
Increment(h) ==
  /\ turn[h] = "idle"
  /\ key' = Incremented
  /\ IF Admitted(key + 1)
       THEN /\ counted' = [counted EXCEPT ![0] = @ + 1]
            /\ GoOn(h, IF IsFirst(key + 1) THEN "expire" ELSE "check")
       ELSE UNCHANGED <<counted, turn>>
  /\ UNCHANGED <<ttl, recent, breaker, up, errors>>

\* allowed: the EXPIRE.
Expire(h) ==
  /\ turn[h] = "expire"
  /\ ttl' = Window
  /\ GoOn(h, "check")
  /\ UNCHANGED <<key, recent, counted, breaker, up, errors>>

\* allowed: the EXPIRE fails, and nobody notices.
ExpireFails(h) ==
  /\ turn[h] = "expire"
  /\ Error
  /\ GoOn(h, "check")
  /\ UNCHANGED <<limiter, breaker, up>>

\* allowed: without an answer from Redis, which may have counted the request,
\* the requests of the last minute in memory decide.
FallBack(h) ==
  /\ turn[h] = "idle"
  /\ Error
  /\ key' \in {key, Incremented}
  /\ IF Total(recent) < Limit
       THEN /\ recent' = [recent EXCEPT ![0] = @ + 1]
            /\ GoOn(h, "check")
       ELSE UNCHANGED <<recent, turn>>
  /\ UNCHANGED <<ttl, counted, breaker, up>>

-----------------------------------------------------------------------------
(* The circuit breaker.                                                    *)

\* One more failure; the last one opens the breaker and starts a new count.
Failure ==
  IF failures + 1 >= Threshold
    THEN open' = Cooldown /\ failures' = 0
    ELSE failures' = failures + 1 /\ UNCHANGED open

CheckCountingRefusals(h) ==
  /\ turn[h] = "check"
  /\ IF open > 0
       THEN GoOn(h, "idle") /\ Failure
       ELSE GoOn(h, "call") /\ UNCHANGED breaker
  /\ UNCHANGED <<limiter, up, errors>>

\* Chat: an open breaker ends the request.
Check(h) ==
  /\ turn[h] = "check"
  /\ GoOn(h, IF open > 0 THEN "idle" ELSE "call")
  /\ UNCHANGED <<limiter, breaker, up, errors>>

\* Chat: balance, safety filter, quota or cost limit end the request.
Refuse(h) ==
  /\ turn[h] = "call"
  /\ GoOn(h, "idle")
  /\ UNCHANGED <<limiter, breaker, up, errors>>

\* Chat: one of three attempts is answered, the breaker open meanwhile or not.
ProviderAnswers(h) ==
  /\ turn[h] = "call" /\ up
  /\ GoOn(h, "answered")
  /\ UNCHANGED <<limiter, breaker, up, errors>>

\* Chat: all three attempts fail, as the provider is down.
AttemptsFail(h) ==
  /\ turn[h] = "call" /\ ~up
  /\ GoOn(h, "failed")
  /\ UNCHANGED <<limiter, breaker, up, errors>>

\* Chat: the client goes away and takes the context of the call with it, so that
\* all three attempts fail, whatever the provider does.
Cancelled(h) ==
  /\ turn[h] = "call"
  /\ GoOn(h, "failed")
  /\ UNCHANGED <<limiter, breaker, up, errors>>

RecordFailure(h) ==
  /\ turn[h] = "failed"
  /\ Failure
  /\ GoOn(h, "idle")
  /\ UNCHANGED <<limiter, up, errors>>

\* A late success resets the count and leaves the breaker as it is.
RecordSuccess(h) ==
  /\ turn[h] = "answered"
  /\ failures' = 0
  /\ GoOn(h, "idle")
  /\ UNCHANGED <<limiter, open, up, errors>>

-----------------------------------------------------------------------------
(* Time, the provider and crashes.                                         *)

Younger(t) == IF t > 0 THEN t - 1 ELSE 0
Older(f)   == [a \in Ages |-> IF a = 0 THEN 0 ELSE f[a - 1]]

Tick ==
  /\ ttl' = Younger(ttl)
  /\ key' = IF ttl = 1 THEN 0 ELSE key
  /\ open' = Younger(open)
  /\ recent' = Older(recent)
  /\ counted' = Older(counted)
  /\ UNCHANGED <<failures, up, turn, errors>>

ProviderTurns ==
  /\ up' = ~up
  /\ UNCHANGED <<limiter, breaker, turn, errors>>

\* The process restarts; Redis keeps the counter.
Restart ==
  /\ Error
  /\ turn' = [h \in Handlers |-> "idle"]
  /\ recent' = [a \in Ages |-> 0]
  /\ failures' = 0 /\ open' = 0
  /\ UNCHANGED <<key, ttl, counted, up>>

-----------------------------------------------------------------------------
Progress(h) ==
  \/ Expire(h) \/ Check(h)
  \/ ProviderAnswers(h) \/ AttemptsFail(h)
  \/ RecordFailure(h) \/ RecordSuccess(h)

HandlerStep(h) ==
  \/ Increment(h) \/ Expire(h) \/ ExpireFails(h) \/ FallBack(h)
  \/ Check(h) \/ Refuse(h) \/ ProviderAnswers(h) \/ AttemptsFail(h)
  \/ Cancelled(h) \/ RecordFailure(h) \/ RecordSuccess(h)

GateNext ==
  \/ \E h \in Handlers : HandlerStep(h)
  \/ Tick
  \/ ProviderTurns
  \/ Restart

GateSpec == GateInit /\ [][GateNext]_gateVars

\* Time passes, and a request does not stop half way.
Fairness ==
  /\ WF_gateVars(Tick)
  /\ \A h \in Handlers : WF_gateVars(Progress(h))

FairGateSpec == GateSpec /\ Fairness

-----------------------------------------------------------------------------
(* Properties.                                                             *)

\* A key lives for at least a minute from its first request on, so that two
\* keys, but not all their requests, can follow each other within one: every
\* minute Redis lets in fewer than twice the limit, late EXPIREs, errors and
\* restarts included.
RateBounded == Total(counted) < 2 * Limit

\* A counter that does not expire is about to get its expiry, or a fault took
\* it away: without faults nobody is locked out for good.
CounterExpires ==
  key > 0 /\ ttl = 0 /\ errors = 0 => \E h \in Handlers : turn[h] = "expire"

\* The breaker never stays open, whatever outcomes are recorded late.  It closes
\* for good once the provider is up for good and clients no longer go away: every
\* call they cancel counts as a failure of the provider's and may open it again.
BreakerCloses ==
  /\ []<>(open = 0)
  /\ <>[]up /\ <>[][\A h \in Handlers : ~Cancelled(h)]_gateVars => <>[](open = 0)

-----------------------------------------------------------------------------
(* What makes RateBounded inductive.                                       *)

\* The requests of the last n ticks.
Within(f, n) == SumFunctionOnSet(f, {a \in Ages : a < n})

\* What the key counts, refused requests aside.
Spent == IF key > Limit THEN Limit ELSE key

\* Only the request that created the key is about to let it expire.
ExpiryDue ==
  \A h \in Handlers : turn[h] = "expire" =>
    /\ key > 0 /\ ttl = 0
    /\ \A k \in Handlers : turn[k] = "expire" => k = h

\* The keys before the current one have left fewer than the limit, and the
\* current one will when it expires: its first request will be a minute old.
RateInv ==
  /\ ExpiryDue
  /\ Total(counted) < Limit + Spent
  /\ ttl > 0 => key > 0 /\ Within(counted, Window - ttl) < Spent
=============================================================================
