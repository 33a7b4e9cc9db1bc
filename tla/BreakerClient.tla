---------------------------- MODULE BreakerClient ----------------------------
(* The circuit breaker as one caller at a time uses it, with a clock that     *)
(* does not go back: execution-failure-circuit-breaker.js on its own.  The    *)
(* record of what was called is compared with the breaker's own counter.      *)
EXTENDS CircuitBreaker, Sequences, FiniteSets

CONSTANTS
    MaxNow,         \* bound: the clock stops there
    MaxCalls        \* bound: length of the history

VARIABLES
    clock,          \* the nowMs of the calls
    breaker,        \* the closure's two variables
    history,        \* statuses given since the breaker was created or closed
    openedAt        \* when the breaker last opened

cvars == <<clock, breaker, history, openedAt>>

Statuses == {"failed", "success", "skipped"}

CInit ==
    /\ clock = 0
    /\ breaker = FreshBreaker
    /\ history = <<>>
    /\ openedAt = 0

\* What the closing of an open breaker does to the history of a call.
HistoryAt(t) == IF IsOpen(breaker) /\ Allows(breaker, t) THEN <<>> ELSE history

Evaluate ==
    /\ breaker' = Evaluated(breaker, clock)
    /\ history' = HistoryAt(clock)
    /\ UNCHANGED <<clock, openedAt>>

Record(status) ==
    /\ Len(history) < MaxCalls
    /\ breaker' = Recorded(breaker, status, clock)
    /\ history' = IF Allows(breaker, clock)
                    THEN Append(HistoryAt(clock), status) ELSE history
    /\ openedAt' = IF Allows(breaker, clock) /\ IsOpen(breaker')
                     THEN clock ELSE openedAt
    /\ UNCHANGED clock

Pass ==
    /\ clock < MaxNow
    /\ clock' = clock + 1
    /\ UNCHANGED <<breaker, history, openedAt>>

CNext == Evaluate \/ (\E s \in Statuses : Record(s)) \/ Pass

CSpec == CInit /\ [][CNext]_cvars

-----------------------------------------------------------------------------
CTypeOK ==
    /\ clock \in Nat
    /\ breaker \in Breakers
    /\ history \in Seq(Statuses)
    /\ openedAt \in Nat

\* The failures after the last success, whatever was skipped between them.
Trailing(statuses) ==
    {i \in DOMAIN statuses :
        /\ statuses[i] = "failed"
        /\ \A j \in DOMAIN statuses : j > i => statuses[j] # "success"}

\* "only `success` clears the streak" (docs/DECISIONS.md): the counter is the
\* number of failures since the last success or the last reopening, and the
\* breaker is open exactly when they reach the threshold.
StreakIsHistory ==
    /\ breaker.streak = Cardinality(Trailing(history))
    /\ IsOpen(breaker) <=>
          breaker.streak >= Threshold /\ CircuitCooldown > 0

\* An open breaker blocks for one cooldown from the moment it opened: calls
\* made meanwhile neither prolong the block nor shorten it.
BlocksForOneCooldown ==
    IsOpen(breaker) => breaker.until = openedAt + CircuitCooldown

\* A closed breaker is always below the threshold, and an open one lets calls
\* through within one cooldown from now.
OpenIsTemporary ==
    CircuitCooldown > 0 =>
        /\ ~IsOpen(breaker) => breaker.streak < Threshold
        /\ IsOpen(breaker) => breaker.until <= clock + CircuitCooldown
=============================================================================
