------------------------ MODULE BreakerClient_proof ------------------------
(* For every threshold and every cooldown, the circuit breaker of a caller   *)
(* whose clock does not go back blocks for exactly one cooldown, and never   *)
(* for good.                                                                 *)
EXTENDS BreakerClient, FiniteSetTheorems, TLAPS

\* What `openedAt` remembers, and how far the streak can have got.
BInv ==
    /\ CTypeOK
    /\ BlocksForOneCooldown
    /\ OpenIsTemporary
    /\ openedAt <= clock
    /\ IsOpen(breaker) => CircuitCooldown > 0

\* evaluate yields a breaker, and one that is open only if it does not allow.
LEMMA EvaluatedType ==
  ASSUME NEW b \in Breakers, NEW t \in Nat
  PROVE  /\ Evaluated(b, t) \in Breakers
         /\ Allows(b, t) => ~IsOpen(Evaluated(b, t))
         /\ ~Allows(b, t) => Evaluated(b, t) = b
  BY DEF Breakers, Evaluated, Allows, IsOpen, FreshBreaker, Never

\* A recorded status yields a breaker; when it opens it is for one cooldown
\* from the time given, and when it stays closed it is below the threshold.
LEMMA RecordedResult ==
  ASSUME NEW b \in Breakers, NEW t \in Nat, NEW s \in Statuses, Allows(b, t),
         ~IsOpen(b) /\ CircuitCooldown > 0 => b.streak < Threshold
  PROVE  LET r == Recorded(b, s, t) IN
         /\ r \in Breakers
         /\ IsOpen(r) => CircuitCooldown > 0 /\ r.until = t + CircuitCooldown
         /\ ~IsOpen(r) /\ CircuitCooldown > 0 => r.streak < Threshold
<1> USE BreakerAssumption DEF Breakers, IsOpen, Allows, Never
<1> DEFINE c == Evaluated(b, t)
<1>1. c \in Breakers /\ ~IsOpen(c)
  BY EvaluatedType
<1>2. CircuitCooldown > 0 => c.streak < Threshold
  BY DEF Evaluated, FreshBreaker
<1>3. CASE s = "failed"
  BY <1>1, <1>2, <1>3 DEF Recorded
<1>4. CASE s = "success"
  BY <1>1, <1>2, <1>4 DEF Recorded
<1>5. CASE s = "skipped"
  BY <1>1, <1>2, <1>5 DEF Recorded
<1> QED
  BY <1>3, <1>4, <1>5 DEF Statuses

LEMMA BreakerInit == CInit => BInv
  BY BreakerAssumption
  DEF CInit, BInv, CTypeOK, BlocksForOneCooldown, OpenIsTemporary, IsOpen,
      FreshBreaker, Breakers, Never

LEMMA EvaluateStep == ASSUME BInv, Evaluate PROVE BInv'
<1> USE BreakerAssumption DEF BInv, CTypeOK, Evaluate, HistoryAt
<1>1. breaker' \in Breakers
  BY EvaluatedType
<1>2. CASE Allows(breaker, clock)
  <2>1. ~IsOpen(breaker)'
    BY <1>2, EvaluatedType DEF IsOpen
  <2>2. CircuitCooldown > 0 => breaker'.streak < Threshold
    BY <1>2 DEF Evaluated, Allows, FreshBreaker, OpenIsTemporary, IsOpen
  <2> QED
    BY <1>1, <2>1, <2>2 DEF BlocksForOneCooldown, OpenIsTemporary, IsOpen
<1>3. CASE ~Allows(breaker, clock)
  <2>1. UNCHANGED <<clock, breaker, openedAt>>
    BY <1>3, EvaluatedType
  <2> QED
    BY <1>1, <2>1 DEF BlocksForOneCooldown, OpenIsTemporary, IsOpen
<1> QED
  BY <1>2, <1>3

LEMMA RecordStep ==
  ASSUME BInv, NEW s \in Statuses, Record(s)
  PROVE  BInv'
<1> USE BreakerAssumption DEF BInv, CTypeOK, Record, HistoryAt
<1>1. CASE Allows(breaker, clock)
  <2>1. /\ breaker' \in Breakers
        /\ IsOpen(breaker') => CircuitCooldown > 0
                               /\ breaker'.until = clock + CircuitCooldown
        /\ ~IsOpen(breaker') /\ CircuitCooldown > 0 => breaker'.streak < Threshold
    BY <1>1, RecordedResult DEF OpenIsTemporary
  <2>2. history' \in Seq(Statuses) /\ openedAt' \in Nat /\ openedAt' <= clock
    BY <1>1
  <2>3. IsOpen(breaker') => openedAt' = clock
    BY <1>1
  <2> QED
    BY <2>1, <2>2, <2>3 DEF BlocksForOneCooldown, OpenIsTemporary, IsOpen
<1>2. CASE ~Allows(breaker, clock)
  <2>1. UNCHANGED <<clock, breaker, openedAt, history>>
    BY <1>2 DEF Recorded
  <2> QED
    BY <2>1 DEF BlocksForOneCooldown, OpenIsTemporary, IsOpen
<1> QED
  BY <1>1, <1>2

LEMMA BreakerNext == BInv /\ [CNext]_cvars => BInv'
<1> SUFFICES ASSUME BInv, [CNext]_cvars PROVE BInv'
  OBVIOUS
<1>1. CASE Pass
  BY <1>1, BreakerAssumption
  DEF Pass, BInv, CTypeOK, BlocksForOneCooldown, OpenIsTemporary, IsOpen, Breakers, Never
<1>2. CASE UNCHANGED cvars
  BY <1>2 DEF cvars, BInv, CTypeOK, BlocksForOneCooldown, OpenIsTemporary, IsOpen
<1> QED
  BY <1>1, <1>2, EvaluateStep, RecordStep DEF CNext

LEMMA BreakerInvariant == CSpec => []BInv
  BY BreakerInit, BreakerNext, PTL DEF CSpec

\* The breaker blocks for exactly one cooldown, counted from its opening.
THEOREM OneCooldown == CSpec => []BlocksForOneCooldown
<1>1. BInv => BlocksForOneCooldown
  BY DEF BInv
<1> QED
  BY <1>1, BreakerInvariant, PTL

\* No sequence of calls shuts the breaker for good: it is closed and below the
\* threshold, or opens again within one cooldown from now.
THEOREM NeverShutForGood == CSpec => []OpenIsTemporary
<1>1. BInv => OpenIsTemporary
  BY DEF BInv
<1> QED
  BY <1>1, BreakerInvariant, PTL

-----------------------------------------------------------------------------
(* The counter and the history *)

LEMMA TrailingFinite ==
  ASSUME NEW h \in Seq(Statuses)
  PROVE  IsFiniteSet(Trailing(h)) /\ Cardinality(Trailing(h)) \in Nat
<1>1. Trailing(h) \subseteq 1..Len(h) /\ IsFiniteSet(1..Len(h))
  BY FS_Interval DEF Trailing
<1> QED
  BY <1>1, FS_Subset, FS_CardinalityType

\* A success leaves no trailing failure, a failure adds one, a skip none.
LEMMA TrailingAppend ==
  ASSUME NEW h \in Seq(Statuses), NEW s \in Statuses
  PROVE  Cardinality(Trailing(Append(h, s))) =
           CASE s = "failed"  -> Cardinality(Trailing(h)) + 1
             [] s = "success" -> 0
             [] OTHER         -> Cardinality(Trailing(h))
<1> DEFINE n == Len(h) + 1
           g == Append(h, s)
<1>1. /\ n \in Nat /\ DOMAIN h = 1..Len(h) /\ DOMAIN g = 1..n
      /\ \A i \in 1..Len(h) : g[i] = h[i]
      /\ g[n] = s
  OBVIOUS
<1> HIDE DEF g
<1>2. CASE s = "failed"
  <2>1. Trailing(g) = Trailing(h) \union {n}
    BY <1>1, <1>2 DEF Trailing
  <2>2. n \notin Trailing(h)
    BY <1>1 DEF Trailing
  <2>3. Cardinality(Trailing(h) \union {n}) = Cardinality(Trailing(h)) + 1
    BY <2>2, TrailingFinite, FS_AddElement
  <2> QED
    BY <1>2, <2>1, <2>3 DEF g
<1>3. CASE s = "success"
  <2>1. Trailing(g) = {}
    BY <1>1, <1>3 DEF Trailing
  <2> QED
    BY <1>3, <2>1, FS_EmptySet DEF g
<1>4. CASE s = "skipped"
  <2>1. Trailing(g) = Trailing(h)
    BY <1>1, <1>4 DEF Trailing
  <2> QED
    BY <1>4, <2>1 DEF g
<1> QED
  BY <1>2, <1>3, <1>4 DEF Statuses

\* What evaluating at time t leaves of the streak is what it leaves of the history.
LEMMA EvaluatedStreak ==
  ASSUME BInv, StreakIsHistory
  PROVE  LET c == Evaluated(breaker, clock) IN
         /\ HistoryAt(clock) \in Seq(Statuses)
         /\ c.streak = Cardinality(Trailing(HistoryAt(clock)))
         /\ IsOpen(c) <=> c.streak >= Threshold /\ CircuitCooldown > 0
<1>1. CASE IsOpen(breaker) /\ clock >= breaker.until
  <2>1. HistoryAt(clock) = <<>> /\ Evaluated(breaker, clock) = FreshBreaker
    BY <1>1 DEF HistoryAt, Evaluated, Allows
  <2>2. Trailing(<<>>) = {}
    BY DEF Trailing
  <2> QED
    BY <2>1, <2>2, FS_EmptySet, BreakerAssumption DEF FreshBreaker, IsOpen, Never
<1>2. CASE ~(IsOpen(breaker) /\ clock >= breaker.until)
  <2>1. HistoryAt(clock) = history /\ Evaluated(breaker, clock) = breaker
    BY <1>2 DEF HistoryAt, Evaluated, Allows
  <2> QED
    BY <2>1 DEF StreakIsHistory, BInv, CTypeOK
<1> QED
  BY <1>1, <1>2

LEMMA StreakInit == CInit => StreakIsHistory
<1>1. Trailing(<<>>) = {}
  BY DEF Trailing
<1> QED
  BY <1>1, FS_EmptySet, BreakerAssumption
  DEF CInit, StreakIsHistory, FreshBreaker, IsOpen, Never

LEMMA StreakRecord ==
  ASSUME BInv, StreakIsHistory, NEW s \in Statuses, Record(s)
  PROVE  StreakIsHistory'
<1> DEFINE c == Evaluated(breaker, clock)
           h == HistoryAt(clock)
<1>1. CASE Allows(breaker, clock)
  <2>1. /\ h \in Seq(Statuses) /\ c.streak = Cardinality(Trailing(h))
        /\ ~IsOpen(c) /\ c \in Breakers
    BY <1>1, EvaluatedStreak, EvaluatedType DEF BInv, CTypeOK
  <2>2. c.streak < Threshold \/ CircuitCooldown <= 0
    BY <2>1, EvaluatedStreak, BreakerAssumption DEF Breakers
  <2>3. history' = Append(h, s)
    BY <1>1 DEF Record
  <2>4. breaker' = Recorded(breaker, s, clock)
    BY DEF Record
  <2>5. breaker'.streak = Cardinality(Trailing(Append(h, s)))
    <3>1. breaker'.streak = CASE s = "failed" -> c.streak + 1
                              [] s = "success" -> 0
                              [] OTHER -> c.streak
      BY <1>1, <2>1, <2>4 DEF Recorded, Statuses, Breakers
    <3> QED
      BY <2>1, <3>1, TrailingAppend DEF Statuses
  <2>6. IsOpen(breaker') <=> breaker'.streak >= Threshold /\ CircuitCooldown > 0
    BY <1>1, <2>1, <2>2, <2>4, BreakerAssumption
    DEF Recorded, Statuses, Breakers, IsOpen, Never, BInv, CTypeOK
  <2> QED
    BY <2>3, <2>5, <2>6 DEF StreakIsHistory, IsOpen
<1>2. CASE ~Allows(breaker, clock)
  BY <1>2 DEF Record, Recorded, StreakIsHistory, IsOpen
<1> QED
  BY <1>1, <1>2

LEMMA StreakNext == BInv /\ StreakIsHistory /\ [CNext]_cvars => StreakIsHistory'
<1> SUFFICES ASSUME BInv, StreakIsHistory, [CNext]_cvars PROVE StreakIsHistory'
  OBVIOUS
<1>1. CASE Evaluate
  <2>1. breaker' = Evaluated(breaker, clock) /\ history' = HistoryAt(clock)
    BY <1>1 DEF Evaluate
  <2> QED
    BY <2>1, EvaluatedStreak DEF StreakIsHistory, IsOpen
<1>2. CASE Pass \/ UNCHANGED cvars
  BY <1>2 DEF Pass, cvars, StreakIsHistory, IsOpen
<1> QED
  BY <1>1, <1>2, StreakRecord DEF CNext

\* "only `success` clears the streak" (docs/DECISIONS.md): whatever the order of
\* calls, the counter is the number of failures since the last success or the
\* last reopening, and the breaker is open exactly when they reach the threshold.
THEOREM StreakCountsFailures == CSpec => []StreakIsHistory
  BY BreakerInit, BreakerNext, StreakInit, StreakNext, PTL DEF CSpec
=============================================================================
