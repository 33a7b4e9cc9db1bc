--------------------------- MODULE CircuitBreaker ---------------------------
(* src/engine/execution-failure-circuit-breaker.js: the state of the breaker *)
(* and what its two methods do to it, as operators on a record.  Callers     *)
(* pass the time, which need not be the present one.                         *)
EXTENDS Integers

CONSTANTS
    Threshold,          \* failedTickStreakThreshold
    CircuitCooldown     \* cooldownMs; 0 disables the breaker

ASSUME BreakerAssumption ==
    Threshold \in Nat \ {0} /\ CircuitCooldown \in Nat

Never == -1             \* openUntilMs = null

Breakers == [streak : Nat, until : Nat \union {Never}]

FreshBreaker == [streak |-> 0, until |-> Never]

IsOpen(b) == b.until # Never

\* evaluate({ nowMs: t }).allowed
Allows(b, t) == ~IsOpen(b) \/ t >= b.until

\* evaluate closes a breaker whose cooldown is over, and forgets the streak.
Evaluated(b, t) == IF IsOpen(b) /\ t >= b.until THEN FreshBreaker ELSE b

ResetBySkip(b, status, t) ==                    \* mutant: skips clear the streak
    IF Allows(b, t) /\ status = "skipped" THEN FreshBreaker
    ELSE IF Allows(b, t) /\ status = "failed"
    THEN LET n == Evaluated(b, t).streak + 1
         IN  [streak |-> n, until |-> IF n >= Threshold THEN t + CircuitCooldown
                                                        ELSE Never]
    ELSE Evaluated(b, t)

OpensLate(b, status, t) ==                      \* mutant: > for >=
    IF Allows(b, t) /\ status = "failed"
    THEN LET n == Evaluated(b, t).streak + 1
         IN  [streak |-> n, until |-> IF n > Threshold THEN t + CircuitCooldown
                                                       ELSE Never]
    ELSE Evaluated(b, t)

ExtendedWhileOpen(b, status, t) ==              \* mutant: open is not checked
    LET n == Evaluated(b, t).streak + IF status = "failed" THEN 1 ELSE 0
    IN  [streak |-> n,
         until |-> IF n >= Threshold THEN t + CircuitCooldown ELSE Never]

Escalates(b, status, t) ==                      \* mutant: the cooldown is multiplied
    IF Allows(b, t) /\ status = "failed"
    THEN LET n == Evaluated(b, t).streak + 1
         IN  [streak |-> n, until |-> IF n >= Threshold THEN t + 2 * CircuitCooldown
                                                        ELSE Never]
    ELSE Evaluated(b, t)

\* recordExecutionStatus: evaluate first; an open breaker records nothing; the
\* closing evaluate changes nothing, its time being before the new `until`.
Recorded(b, status, t) ==
    LET c == Evaluated(b, t)
        n == CASE status = "failed"  -> c.streak + 1
               [] status = "success" -> 0
               [] OTHER              -> c.streak
    IN  CASE ~Allows(b, t) -> b
          [] Allows(b, t) /\ status = "failed" /\ n >= Threshold
                          /\ CircuitCooldown > 0 ->
               [streak |-> n, until |-> t + CircuitCooldown]
          [] OTHER -> [c EXCEPT !.streak = n]
=============================================================================
