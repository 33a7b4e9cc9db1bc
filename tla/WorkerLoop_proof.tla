--------------------------- MODULE WorkerLoop_proof ---------------------------
(* The worker loop for any number of ticks, any actions, delays and bounds:   *)
(* what holds whatever goes wrong, and what holds if a tick that timed out    *)
(* stays silent (~Late).                                                      *)
EXTENDS WorkerLoop, TLAPS, FiniteSetTheorems, SequenceTheorems

Records == [by : Ticks \union {TheLoop}, tick : Ticks, event : Events]

LoopTypes ==
    [pc : {"ready", "running", "timedOut", "erring", "touch", "dying", "release", "down"},
     n : Ticks]

TickLabels == {"none", "started", "evaluated", "decided", "calling", "backoff",
               "executed", "finishing", "done"}

TickTypes ==
    [pc : TickLabels, at : 0..MaxClock, plan : Plans, safe : BOOLEAN, attempt : 0..MaxAttempts]

\* What a tick that got so far has passed.
Passed(t) ==
    /\ t.pc \in {"decided", "calling", "backoff"} => t.safe
    /\ t.pc \in {"calling", "backoff"} => t.plan \in Actions
    /\ t.pc = "backoff" => t.attempt < MaxAttempts

\* The types, those of the history variables too, and what they rest on.
Typed ==
    /\ now \in 0..MaxClock
    /\ loop \in LoopTypes
    /\ tick \in [Ticks -> TickTypes] /\ \A k \in Ticks : Passed(tick[k])
    /\ breaker \in Breakers
    /\ DOMAIN marked \subseteq Actions
    /\ DOMAIN executed \subseteq Actions /\ executed \in [DOMAIN executed -> Nat]
    /\ queue \in Seq(Records) /\ broken \in BOOLEAN
    /\ log \in [Ticks -> Seq(Events)]
    /\ delivered \in [Actions -> Nat \union {Never}]
    /\ sends \in [Ticks -> Nat]
    /\ blamed \subseteq Ticks

-----------------------------------------------------------------------------
(* The breaker *)

Statuses == {"success", "failed", "skipped"}

LEMMA EvaluatedType ==
    ASSUME NEW b \in Breakers, NEW t \in Nat
    PROVE  /\ Evaluated(b, t) \in Breakers
           /\ Evaluated(b, t) = b \/ Evaluated(b, t) = FreshBreaker
           /\ Allows(b, t) => Allows(Evaluated(b, t), t)
BY DEF Breakers, Evaluated, Allows, IsOpen, FreshBreaker, Never

\* A report yields a breaker; it opens it for one cooldown at most.
LEMMA RecordedType ==
    ASSUME NEW b \in Breakers, NEW t \in Nat, NEW s \in Statuses
    PROVE  /\ Recorded(b, s, t) \in Breakers
           /\ IsOpen(Recorded(b, s, t)) =>
                 \/ IsOpen(b) /\ Recorded(b, s, t).until = b.until
                 \/ Recorded(b, s, t).until = t + CircuitCooldown
<1> USE BreakerAssumption DEF Breakers, IsOpen, Allows, Never, Evaluated, FreshBreaker
<1>1. CASE s = "failed"
  BY <1>1 DEF Recorded
<1>2. CASE s = "success"
  BY <1>2 DEF Recorded
<1>3. CASE s = "skipped"
  BY <1>3 DEF Recorded
<1> QED BY <1>1, <1>2, <1>3 DEF Statuses

\* Who is to blame, by the same four cases.
LEMMA Blamed ==
    ASSUME NEW k \in Ticks, NEW s \in Statuses, NEW t \in Nat,
           breaker \in Breakers, blamed \subseteq Ticks, Report(k, s, t)
    PROVE  breaker' \in Breakers /\ blamed' \subseteq blamed \union {k}
BY RecordedType DEF Report

-----------------------------------------------------------------------------
(* The queue *)

LEMMA TailOfQueue ==
    ASSUME queue \in Seq(Records), queue # <<>>
    PROVE  /\ Head(queue) \in Records /\ Head(queue) = queue[1]
           /\ Tail(queue) \in Seq(Records)
           /\ Len(Tail(queue)) = Len(queue) - 1
           /\ \A i \in DOMAIN Tail(queue) :
                 i + 1 \in DOMAIN queue /\ Tail(queue)[i] = queue[i + 1]
BY HeadTailProperties

LEMMA Longer ==
    ASSUME NEW S, NEW q \in Seq(S), NEW e \in S
    PROVE  /\ Append(q, e) \in Seq(S)
           /\ Len(Append(q, e)) = Len(q) + 1
           /\ Len(q) + 1 \in DOMAIN Append(q, e) /\ Append(q, e)[Len(q) + 1] = e
           /\ \A i \in DOMAIN q : i \in DOMAIN Append(q, e) /\ Append(q, e)[i] = q[i]
           /\ \A i \in DOMAIN Append(q, e) : i \in DOMAIN q \/ i = Len(q) + 1
BY AppendProperties

LEMMA Entered ==
    ASSUME NEW by \in Ticks \union {TheLoop}, NEW k \in Ticks, NEW e \in Events
    PROVE  Entry(by, k, e) \in Records
BY DEF Entry, Records

\* Every step keeps the queue one of records, and only adds to the log.
LEMMA WrittenType ==
    ASSUME queue \in Seq(Records), log \in [Ticks -> Seq(Events)],
           NEW who, Written(who)
    PROVE  /\ queue # <<>> /\ Head(queue).by = who /\ Head(queue) \in Records
           /\ Tail(queue) \in Seq(Records)
           /\ log' \in [Ticks -> Seq(Events)]
           /\ log'[Head(queue).tick] = Append(log[Head(queue).tick], Head(queue).event)
           /\ \A k \in Ticks \ {Head(queue).tick} : log'[k] = log[k]
<1>1. queue # <<>> /\ Head(queue) \in Records /\ Tail(queue) \in Seq(Records)
  BY TailOfQueue DEF Written
<1>2. Head(queue).tick \in Ticks /\ Head(queue).event \in Events
  BY <1>1 DEF Records
<1> QED BY <1>1, <1>2 DEF Written

LEMMA EventsAre ==
    {"tick_started", "safety_evaluated", "tick_blocked", "decision_made",
     "action_executed", "tick_finished", "tick_error"} \subseteq Events
BY DEF Events
-----------------------------------------------------------------------------
(* Types *)

LEMMA TypedIsTypeOK == Typed => TypeOK
BY DEF Typed, TypeOK, LoopTypes, TickTypes, TickLabels, Records

LEMMA TypedInit == Init => Typed
<1> SUFFICES ASSUME Init PROVE Typed
  OBVIOUS
<1>1. 0 \in 0..MaxClock /\ 0 \in 0..MaxAttempts /\ 1 \in Ticks
  BY LoopAssumption DEF Ticks
<1>2. Idle \in TickTypes /\ Passed(Idle)
  BY <1>1 DEF Idle, Plans, TickTypes, TickLabels, Passed
<1>3. /\ executed = NoTimes /\ marked = NoTimes /\ DOMAIN NoTimes = {}
      /\ NoTimes \in [DOMAIN NoTimes -> Nat]
  BY DEF Init, NoTimes
<1>4. queue \in Seq(Records) /\ <<>> \in Seq(Events)
  BY DEF Init
<1>5. breaker \in Breakers
  BY DEF Init, Breakers, FreshBreaker, Never
<1> QED BY <1>1, <1>2, <1>3, <1>4, <1>5 DEF Init, Typed, LoopTypes, Never

LEMMA PrunedDomain ==
    ASSUME DOMAIN marked \subseteq Actions, NEW t
    PROVE  DOMAIN Pruned(t) \subseteq Actions
BY DEF Pruned, NoTimes, Since, Restrict

LEMMA RememberedType ==
    ASSUME executed \in [DOMAIN executed -> Nat]
    PROVE  /\ DOMAIN Remembered = {a \in DOMAIN executed : executed[a] >= now - Window}
           /\ \A a \in DOMAIN Remembered : Remembered[a] = executed[a]
           /\ Remembered \in [DOMAIN Remembered -> Nat]
BY DEF Remembered, Since, Restrict

LEMMA StampedType ==
    ASSUME NEW times, NEW a, NEW t
    PROVE  /\ DOMAIN Stamped(times, a, t) = DOMAIN times \union {a}
           /\ Stamped(times, a, t)[a] = t
           /\ \A b \in DOMAIN times \ {a} : Stamped(times, a, t)[b] = times[b]
BY DEF Stamped

\* Every step writes and appends by one of these.
Logs ==
    \/ UNCHANGED logging
    \/ \E who \in Ticks \union {TheLoop} :
          \/ Written(who) /\ (Quiet \/ \E k \in Ticks, e \in Events : Emit(who, k, e))
          \/ \E k \in Ticks, e \in Events : EmitFirst(who, k, e)

LEMMA LogsTyped ==
    ASSUME Typed, Logs
    PROVE  queue' \in Seq(Records) /\ broken' \in BOOLEAN /\ log' \in [Ticks -> Seq(Events)]
<1>1. queue \in Seq(Records) /\ broken \in BOOLEAN /\ log \in [Ticks -> Seq(Events)]
  BY DEF Typed
<1>2. CASE UNCHANGED logging
  BY <1>1, <1>2 DEF logging
<1>3. ASSUME NEW who \in Ticks \union {TheLoop}, Written(who), Quiet
      PROVE  queue' \in Seq(Records) /\ broken' \in BOOLEAN /\ log' \in [Ticks -> Seq(Events)]
  BY <1>1, <1>3, WrittenType DEF Quiet, Written
<1>4. ASSUME NEW who \in Ticks \union {TheLoop}, Written(who),
             NEW k \in Ticks, NEW e \in Events, Emit(who, k, e)
      PROVE  queue' \in Seq(Records) /\ broken' \in BOOLEAN /\ log' \in [Ticks -> Seq(Events)]
  <2>1. Tail(queue) \in Seq(Records) /\ log' \in [Ticks -> Seq(Events)]
    BY <1>1, <1>4, WrittenType
  <2> QED BY <1>1, <1>4, <2>1, Entered, Longer DEF Emit, Written
<1>5. ASSUME NEW who \in Ticks \union {TheLoop},
             NEW k \in Ticks, NEW e \in Events, EmitFirst(who, k, e)
      PROVE  queue' \in Seq(Records) /\ broken' \in BOOLEAN /\ log' \in [Ticks -> Seq(Events)]
  BY <1>1, <1>5, Entered, Longer DEF EmitFirst
<1> QED BY <1>2, <1>3, <1>4, <1>5 DEF Logs

LEMMA StartTyped ==
    ASSUME Typed, NEW plan \in Plans, StartTick(plan) PROVE Typed'
<1> DEFINE n == loop.n
<1>1. n \in Ticks /\ now \in 0..MaxClock /\ now \in Nat /\ loop \in LoopTypes
      /\ tick \in [Ticks -> TickTypes] /\ breaker \in Breakers
      /\ \A k \in Ticks : Passed(tick[k])
  BY LoopAssumption DEF Typed, LoopTypes
<1>2. PICK t \in TickTypes : tick' = [tick EXCEPT ![n] = t] /\ Passed(t)
  <2> DEFINE a == [Idle EXCEPT !.pc = "done", !.at = now]
             b == [pc |-> "started", at |-> now, plan |-> plan, attempt |-> 0,
                   safe |-> Permitted(plan)]
  <2>1. a \in TickTypes /\ Passed(a)
    <3>1. 0 \in 0..MaxAttempts /\ "unsafe" \in Plans
      BY LoopAssumption DEF Plans
    <3> QED BY <1>1, <3>1 DEF Idle, TickTypes, TickLabels, Passed
  <2>2. b \in TickTypes /\ Passed(b)
    <3>1. 0 \in 0..MaxAttempts /\ Permitted(plan) \in BOOLEAN
      BY LoopAssumption DEF Permitted, Allows
    <3> QED BY <1>1, <3>1 DEF TickTypes, TickLabels, Passed
  <2> QED BY <2>1, <2>2 DEF StartTick
<1>3. tick' \in [Ticks -> TickTypes] /\ \A k \in Ticks : Passed(tick'[k])
  BY <1>1, <1>2
<1>4. loop' \in LoopTypes
  BY <1>1 DEF StartTick, LoopAt, LoopTypes
<1>5. breaker' \in Breakers /\ blamed' \subseteq Ticks
  BY <1>1, EvaluatedType DEF StartTick, Typed
<1>6. Logs
  BY <1>1, EventsAre DEF StartTick, Logs
<1> QED BY <1>3, <1>4, <1>5, <1>6, LogsTyped DEF StartTick, Typed

\* The steps of a tick change its control, and these variables by their types.
LEMMA TickLogs == ASSUME NEW k \in Ticks, TickStep(k) PROVE Logs
BY EventsAre
   DEF Logs, TickStep, EvaluateSafety, Block, Decide, Skip, Send, Succeed, Fail, Backoff,
       Retry, FinishTick, Settle

LEMMA TickTyped ==
    ASSUME Typed, NEW k \in Ticks, TickStep(k) PROVE Typed'
<1> DEFINE t == tick[k]
<1>1. /\ t \in TickTypes /\ Passed(t) /\ tick \in [Ticks -> TickTypes]
      /\ \A j \in Ticks : Passed(tick[j])
      /\ t.at \in Nat /\ now \in Nat /\ breaker \in Breakers /\ blamed \subseteq Ticks
  BY LoopAssumption DEF Typed, TickTypes
<1>2. PICK u \in TickTypes : tick' = [tick EXCEPT ![k] = u] /\ Passed(u)
  <2>1. CASE Send(k)
    <3> DEFINE u == [t EXCEPT !.pc = "calling", !.attempt = 1]
    <3>1. tick' = [tick EXCEPT ![k] = u] /\ t.plan \in Actions /\ t.pc = "decided"
      BY <2>1, <1>1 DEF Send
    <3>2. 1 \in 0..MaxAttempts /\ "calling" \in TickLabels
      BY LoopAssumption DEF TickLabels
    <3>3. u \in TickTypes /\ u.pc = "calling" /\ u.plan = t.plan /\ u.safe = t.safe
      BY <3>2, <1>1 DEF TickTypes
    <3>4. Passed(u)
      BY <3>1, <3>3, <1>1 DEF Passed
    <3> QED BY <3>1, <3>3, <3>4
  <2>2. CASE Retry(k)
    <3> DEFINE u == [t EXCEPT !.pc = "calling", !.attempt = @ + 1]
    <3>1. tick' = [tick EXCEPT ![k] = u] /\ t.pc = "backoff"
      BY <2>2, <1>1 DEF Retry
    <3>2. t.attempt + 1 \in 0..MaxAttempts /\ "calling" \in TickLabels
      BY <3>1, <1>1, LoopAssumption DEF TickTypes, TickLabels, Passed
    <3>3. u \in TickTypes /\ u.pc = "calling" /\ u.plan = t.plan /\ u.safe = t.safe
      BY <3>2, <1>1 DEF TickTypes
    <3>4. Passed(u)
      BY <3>1, <3>3, <1>1 DEF Passed
    <3> QED BY <3>1, <3>3, <3>4
  <2>3. CASE Backoff(k) \/ Decide(k)
    BY <1>1, <2>3 DEF Backoff, Decide, TickAt, MayRetry, TickTypes, TickLabels, Passed
  <2>4. CASE \E label \in {"evaluated", "executed", "finishing", "done"} :
                TickAt(k, label)
    <3>1. PICK label \in {"evaluated", "executed", "finishing", "done"} : TickAt(k, label)
      BY <2>4
    <3>2. [t EXCEPT !.pc = label] \in TickTypes /\ [t EXCEPT !.pc = label].pc = label
      BY <1>1 DEF TickTypes, TickLabels
    <3>3. tick' = [tick EXCEPT ![k] = [t EXCEPT !.pc = label]]
      BY <3>1, <1>1 DEF TickAt
    <3> QED BY <3>1, <3>2, <3>3 DEF Passed
  <2> QED BY <2>1, <2>2, <2>3, <2>4
      DEF TickStep, EvaluateSafety, Block, Skip, Succeed, Fail, FinishTick, Settle
<1>3. tick' \in [Ticks -> TickTypes] /\ \A j \in Ticks : Passed(tick'[j])
  BY <1>1, <1>2
<1>4. breaker' \in Breakers /\ blamed' \subseteq Ticks
  <2>1. CASE \E s \in Statuses : Report(k, s, t.at)
    BY <1>1, <2>1, Blamed
  <2>2. CASE UNCHANGED <<breaker, blamed>>
    BY <1>1, <2>2
  <2> QED BY <2>1, <2>2
      DEF TickStep, EvaluateSafety, Block, Decide, Skip, Send, Succeed, Fail, Backoff,
          Retry, FinishTick, Settle, seen, Statuses
<1>5. /\ DOMAIN marked' \subseteq Actions /\ DOMAIN executed' \subseteq Actions
      /\ executed' \in [DOMAIN executed' -> Nat]
  <2>1. DOMAIN marked \subseteq Actions /\ DOMAIN executed \subseteq Actions
        /\ executed \in [DOMAIN executed -> Nat]
    BY DEF Typed
  <2>2. CASE Skip(k) \/ Send(k)
    <3>1. DOMAIN marked' \subseteq Actions
      <4>1. \A x : DOMAIN Pruned(x) \subseteq Actions
        BY <2>1, PrunedDomain
      <4>2. t.plan \in Actions =>
               \A x : DOMAIN Stamped(Pruned(x), t.plan, x) \subseteq Actions
        BY <4>1 DEF Stamped
      <4> QED BY <2>1, <2>2, <4>1, <4>2 DEF Skip, Send
    <3>2. executed' = executed \/ executed' = Remembered
      BY <2>2 DEF Skip, Send
    <3> QED BY <2>1, <3>1, <3>2, RememberedType
  <2>3. CASE Succeed(k)
    <3>1. t.plan \in Actions /\ executed' = Stamped(executed, t.plan, now)
          /\ marked' = marked
      BY <2>3, <1>1 DEF Succeed, Passed
    <3> QED BY <2>1, <3>1, <1>1 DEF Stamped
  <2>4. CASE UNCHANGED <<marked, executed>>
    BY <2>1, <2>4
  <2> QED BY <2>2, <2>3, <2>4
      DEF TickStep, EvaluateSafety, Block, Decide, Fail, Backoff, Retry, FinishTick, Settle
<1>6. delivered' \in [Actions -> Nat \union {Never}] /\ sends' \in [Ticks -> Nat]
  <2>1. delivered \in [Actions -> Nat \union {Never}] /\ sends \in [Ticks -> Nat]
    BY DEF Typed
  <2>2. delivered' = delivered \/ delivered' = [delivered EXCEPT ![t.plan] = now]
    BY DEF TickStep, EvaluateSafety, Block, Decide, Skip, Send, Succeed, Fail, Backoff,
          Retry, FinishTick, Settle, seen
  <2>3. sends' = sends \/ sends' = [sends EXCEPT ![k] = @ + 1]
    BY DEF TickStep, EvaluateSafety, Block, Decide, Skip, Send, Succeed, Fail, Backoff,
          Retry, FinishTick, Settle, seen
  <2> QED BY <1>1, <2>1, <2>2, <2>3
<1>7. now' = now /\ loop' \in LoopTypes
  BY DEF Typed, LoopTypes, LoopAt, TickStep, EvaluateSafety, Block, Decide, Skip, Send,
         Succeed, Fail, Backoff, Retry, FinishTick, Settle
<1>8. Logs
  BY TickLogs
<1> QED BY <1>3, <1>4, <1>5, <1>6, <1>7, <1>8, LogsTyped DEF Typed

LEMMA LoopTyped ==
    ASSUME Typed, LoopStep PROVE Typed'
<1>1. /\ loop \in LoopTypes /\ loop.n \in Ticks /\ now \in Nat
      /\ breaker \in Breakers /\ blamed \subseteq Ticks
  BY LoopAssumption DEF Typed, LoopTypes
<1>2. loop' \in LoopTypes
  <2>1. CASE Touch
    <3>1. loop.n # MaxTicks => loop.n + 1 \in Ticks
      BY <1>1, LoopAssumption DEF Ticks
    <3> QED BY <1>1, <2>1, <3>1 DEF Touch, LoopTypes
  <2> QED BY <1>1, <2>1
      DEF LoopStep, TimeOut, AfterError, TouchFails, Die, Release, LoopAt, LoopTypes
<1>3. Logs
  BY <1>1, EventsAre DEF LoopStep, TimeOut, AfterError, Touch, TouchFails, Die, Release, Logs
<1>4. breaker' \in Breakers /\ blamed' \subseteq Ticks
  <2>1. CASE Report(loop.n, "failed", now)
    BY <1>1, <2>1, Blamed DEF Statuses
  <2>2. CASE UNCHANGED <<breaker, blamed>>
    BY <1>1, <2>2
  <2> QED BY <2>1, <2>2
      DEF LoopStep, TimeOut, AfterError, Touch, TouchFails, Die, Release, seen
<1>5. UNCHANGED <<now, tick, marked, executed, delivered, sends>>
  BY DEF LoopStep, TimeOut, AfterError, Touch, TouchFails, Die, Release, seen
<1> QED BY <1>2, <1>3, <1>4, <1>5, LogsTyped DEF Typed

LEMMA RejectTyped ==
    ASSUME Typed, RejectAppend PROVE Typed'
<1> DEFINE who == Head(queue).by
<1>1. /\ queue \in Seq(Records) /\ queue # <<>> /\ Head(queue) \in Records
      /\ Tail(queue) \in Seq(Records)
      /\ loop \in LoopTypes /\ tick \in [Ticks -> TickTypes]
      /\ \A k \in Ticks : Passed(tick[k])
  BY TailOfQueue DEF Typed, RejectAppend
<1>2. who \in Ticks \union {TheLoop}
  BY <1>1 DEF Records
<1>3. loop' \in LoopTypes
  BY <1>1 DEF RejectAppend, LoopAt, LoopTypes
<1>4. tick' \in [Ticks -> TickTypes] /\ \A k \in Ticks : Passed(tick'[k])
  <2>1. CASE who = TheLoop
    BY <1>1, <2>1 DEF RejectAppend
  <2>2. CASE who # TheLoop
    <3>1. who \in Ticks /\ tick' = [tick EXCEPT ![who] = [tick[who] EXCEPT !.pc = "done"]]
      BY <1>1, <1>2, <2>2 DEF RejectAppend, TickAt
    <3>2. [tick[who] EXCEPT !.pc = "done"] \in TickTypes
      BY <1>1, <3>1 DEF TickTypes, TickLabels
    <3> QED BY <1>1, <3>1, <3>2 DEF Passed
  <2> QED BY <2>1, <2>2
<1>5. queue' \in Seq(Records)
  <2>1. who # TheLoop => Entry(TheLoop, who, "tick_error") \in Records
    BY <1>2, Entered, EventsAre
  <2>2. who # TheLoop =>
           Append(Tail(queue), Entry(TheLoop, who, "tick_error")) \in Seq(Records)
    BY <1>1, <2>1
  <2> QED BY <1>1, <2>2 DEF RejectAppend, Quiet, Emit
<1>6. UNCHANGED <<now, breaker, marked, executed, log, delivered, sends, blamed>> /\ broken'
  BY DEF RejectAppend, seen
<1> QED BY <1>3, <1>4, <1>5, <1>6 DEF Typed

LEMMA TypedStep == Typed /\ [Next]_vars => Typed'
<1> SUFFICES ASSUME Typed, [Next]_vars PROVE Typed'
  OBVIOUS
<1>1. CASE Advance
  BY <1>1, LoopAssumption DEF Advance, Typed, logging, seen
<1>2. CASE UNCHANGED vars
  BY <1>2 DEF vars, logging, seen, Typed
<1> QED BY <1>1, <1>2, StartTyped, TickTyped, LoopTyped, RejectTyped DEF Next

\* The values the variables take, for any constants and whatever goes wrong.
THEOREM TypeCorrect == Spec => []TypeOK
<1>1. Spec => []Typed
  BY TypedInit, TypedStep, PTL DEF Spec
<1> QED BY <1>1, TypedIsTypeOK, PTL

-----------------------------------------------------------------------------
(* Who waits for what *)

\* Where a tick is while it waits for the append of an event.
Pending ==
    {<<"started", "tick_started">>, <<"evaluated", "safety_evaluated">>,
     <<"decided", "decision_made">>, <<"executed", "tick_blocked">>,
     <<"executed", "action_executed">>, <<"finishing", "tick_finished">>}

Awaits(t, e) ==
    /\ <<t.pc, e>> \in Pending
    /\ t.pc = "executed" => (e = "tick_blocked" <=> ~t.safe)

Waiting == {"started", "evaluated", "decided", "executed", "finishing"}

\* A tick has one record in the queue at most, its own and the one it waits for.
Fits(q, t) ==
    /\ \A i \in DOMAIN q : q[i].by # TheLoop =>
          q[i].tick = q[i].by /\ Awaits(t[q[i].by], q[i].event)
    /\ \A i, j \in DOMAIN q : q[i].by = q[j].by /\ q[i].by # TheLoop => i = j

Without(q, who) == \A i \in DOMAIN q : q[i].by = who => who = TheLoop

NotBegun ==
    \A k \in Ticks : k > loop.n \/ (k = loop.n /\ loop.pc = "ready") => tick[k].pc = "none"

OInv == Typed /\ Fits(queue, tick) /\ NotBegun

\* A tick that does not wait has no record there.
LEMMA NotWaiting ==
    ASSUME NEW q, NEW t, Fits(q, t), NEW k \in Ticks, t[k].pc \notin Waiting
    PROVE  Without(q, k)
BY DEF Fits, Without, Awaits, Pending, Waiting

\* Another record at the end, of the loop or of a tick that did not wait.
LEMMA Joins ==
    ASSUME NEW q \in Seq(Records), NEW t, Fits(q, t),
           NEW who \in Ticks \union {TheLoop}, NEW k \in Ticks, NEW e \in Events,
           Without(q, who),
           who # TheLoop => who = k /\ Awaits(t[k], e)
    PROVE  Fits(Append(q, Entry(who, k, e)), t)
<1> DEFINE r == Entry(who, k, e)
           p == Append(q, r)
<1>1. r \in Records /\ r.by = who /\ r.tick = k /\ r.event = e
  BY Entered DEF Entry
<1> HIDE DEF r
<1>2. /\ \A i \in DOMAIN q : i \in DOMAIN p /\ p[i] = q[i]
      /\ \A i \in DOMAIN p : i \in DOMAIN q \/ i = Len(q) + 1
      /\ p[Len(q) + 1] = r
  BY <1>1, Longer
<1> HIDE DEF p
<1>3. \A i \in DOMAIN p : p[i].by # TheLoop =>
          p[i].tick = p[i].by /\ Awaits(t[p[i].by], p[i].event)
  BY <1>1, <1>2 DEF Fits
<1>4. \A i, j \in DOMAIN p : p[i].by = p[j].by /\ p[i].by # TheLoop => i = j
  BY <1>1, <1>2 DEF Fits, Without
<1> QED BY <1>3, <1>4 DEF Fits, p, r

\* The record at the head goes, and who waited for it goes on.
LEMMA Leaves ==
    ASSUME NEW q \in Seq(Records), q # <<>>, NEW t, Fits(q, t), NEW u,
           \A j \in Ticks \ {Head(q).by} : u[j] = t[j]
    PROVE  Fits(Tail(q), u) /\ Without(Tail(q), Head(q).by)
<1> DEFINE p == Tail(q)
<1>1. /\ Head(q) = q[1] /\ 1 \in DOMAIN q
      /\ \A i \in DOMAIN p : i \in Nat /\ i + 1 \in DOMAIN q /\ p[i] = q[i + 1] /\ i + 1 # 1
  BY HeadTailProperties
<1>2. \A i \in DOMAIN q : q[i] \in Records
  OBVIOUS
<1> HIDE DEF p
<1>3. Without(p, Head(q).by)
  BY <1>1 DEF Fits, Without
<1>4. \A i \in DOMAIN p : p[i].by # TheLoop => p[i].by \in Ticks /\ u[p[i].by] = t[p[i].by]
  BY <1>1, <1>2, <1>3 DEF Records, Without
<1>5. \A i \in DOMAIN p : p[i].by # TheLoop =>
          p[i].tick = p[i].by /\ Awaits(u[p[i].by], p[i].event)
  BY <1>1, <1>4 DEF Fits
<1>6. \A i, j \in DOMAIN p : p[i].by = p[j].by /\ p[i].by # TheLoop => i = j
  <2> SUFFICES ASSUME NEW i \in DOMAIN p, NEW j \in DOMAIN p,
                      p[i].by = p[j].by, p[i].by # TheLoop
               PROVE  i = j
    OBVIOUS
  <2>1. i + 1 = j + 1
    BY <1>1 DEF Fits
  <2> QED BY <2>1, <1>1
<1> QED BY <1>3, <1>5, <1>6 DEF Fits, p

\* The tick whose record is written, and what is in it.
LEMMA WhatIsWritten ==
    ASSUME OInv, NEW k \in Ticks, Written(k)
    PROVE  /\ queue # <<>> /\ Head(queue).by = k /\ Head(queue).tick = k
           /\ Awaits(tick[k], Head(queue).event)
           /\ Head(queue).event \in Events
           /\ log' = [log EXCEPT ![k] = Append(@, Head(queue).event)]
<1>1. queue \in Seq(Records) /\ k # TheLoop
  BY DEF OInv, Typed, Ticks, TheLoop
<1>2. queue # <<>> /\ Head(queue) = queue[1] /\ 1 \in DOMAIN queue /\ Head(queue) \in Records
  BY <1>1, HeadTailProperties DEF Written
<1>3. Head(queue).by = k /\ queue[1].by = k
  BY <1>2 DEF Written
<1>4. queue[1].tick = k /\ Awaits(tick[k], queue[1].event)
  BY <1>1, <1>2, <1>3 DEF OInv, Fits
<1>5. Head(queue).event \in Events
  BY <1>2 DEF Records
<1> QED BY <1>2, <1>3, <1>4, <1>5 DEF Written

\* A tick without a record in the queue changes.
LEMMA Changes ==
    ASSUME NEW q \in Seq(Records), NEW t, Fits(q, t), NEW k \in Ticks, Without(q, k), NEW u,
           \A j \in Ticks \ {k} : u[j] = t[j]
    PROVE  Fits(q, u)
<1>1. \A i \in DOMAIN q : q[i].by # TheLoop => q[i].by \in Ticks \ {k}
  <2>1. \A i \in DOMAIN q : q[i] \in Records
    OBVIOUS
  <2>2. k # TheLoop
    BY DEF Ticks, TheLoop
  <2> QED BY <2>1, <2>2 DEF Records, Without
<1>2. \A i \in DOMAIN q : q[i].by # TheLoop => u[q[i].by] = t[q[i].by]
  BY <1>1
<1> QED BY <1>2 DEF Fits

\* The ways a step of tick k uses the log.
LEMMA TickQueues ==
    ASSUME Typed, NEW k \in Ticks, TickStep(k)
    PROVE  /\ \A j \in Ticks \ {k} : tick'[j] = tick[j]
           /\ tick[k].pc # "none"
           /\ \/ /\ Written(k)
                 /\ \/ Quiet
                    \/ \E e \in Events : Emit(k, k, e) /\ Awaits(tick'[k], e)
              \/ /\ tick[k].pc \notin Waiting
                 /\ \/ \E e \in Events : EmitFirst(k, k, e) /\ Awaits(tick'[k], e)
                    \/ UNCHANGED queue
<1>1. tick \in [Ticks -> TickTypes] /\ tick[k] \in TickTypes /\ Passed(tick[k])
  BY DEF Typed
<1>2. \A label : TickAt(k, label) =>
         /\ tick'[k].pc = label /\ tick'[k].safe = tick[k].safe
         /\ \A j \in Ticks \ {k} : tick'[j] = tick[j]
  BY <1>1 DEF TickAt, TickTypes
<1> USE EventsAre DEF Awaits, Pending, Waiting
<1>3. CASE EvaluateSafety(k) \/ Block(k) \/ Decide(k) \/ Skip(k)
  <2>1. CASE EvaluateSafety(k) \/ Decide(k)
    BY <1>2, <2>1 DEF EvaluateSafety, Decide
  <2>2. CASE Block(k)
    BY <1>2, <2>2 DEF Block
  <2>3. CASE Skip(k)
    BY <1>1, <1>2, <2>3 DEF Skip, Passed
  <2> QED BY <1>3, <2>1, <2>2, <2>3
<1>4. CASE FinishTick(k) \/ Settle(k)
  BY <1>2, <1>4 DEF FinishTick, Settle
<1>5. CASE Succeed(k) \/ Fail(k) \/ Backoff(k)
  <2>1. CASE Succeed(k) \/ Fail(k)
    BY <1>1, <1>2, <2>1 DEF Succeed, Fail, Passed
  <2>2. CASE Backoff(k)
    BY <1>2, <2>2 DEF Backoff, logging
  <2> QED BY <1>5, <2>1, <2>2
<1>6. CASE Send(k) \/ Retry(k)
  BY <1>1, <1>6 DEF Send, Retry, logging
<1> QED BY <1>3, <1>4, <1>5, <1>6 DEF TickStep

\* A step of a tick, or the end of one, in which the loop stays where it is or
\* goes on from it.
LEMMA StaysBegun ==
    ASSUME OInv, NEW k \in Ticks, tick[k].pc # "none",
           \A j \in Ticks \ {k} : tick'[j] = tick[j],
           loop' = loop \/ \E label \in {"touch", "erring"} : LoopAt(label)
    PROVE  NotBegun'
<1>1. loop'.n = loop.n /\ (loop'.pc = "ready" => loop.pc = "ready")
  BY DEF LoopAt, OInv, Typed, LoopTypes
<1>2. ~(k > loop.n \/ (k = loop.n /\ loop.pc = "ready"))
  BY DEF OInv, NotBegun
<1> QED BY <1>1, <1>2 DEF OInv, NotBegun

LEMMA OInvInit == Init => OInv
<1> SUFFICES ASSUME Init PROVE OInv
  OBVIOUS
<1>1. Fits(queue, tick)
  BY DEF Init, Fits
<1>2. NotBegun
  BY DEF Init, NotBegun, Idle
<1> QED BY <1>1, <1>2, TypedInit DEF OInv

LEMMA OInvStart ==
    ASSUME OInv, NEW plan \in Plans, StartTick(plan)
    PROVE  Fits(queue', tick') /\ NotBegun'
<1> DEFINE n == loop.n
<1>1. /\ n \in Ticks /\ loop \in LoopTypes /\ loop.pc = "ready" /\ queue \in Seq(Records)
      /\ tick \in [Ticks -> TickTypes]
  BY DEF OInv, Typed, LoopTypes, StartTick
<1>2. tick[n].pc = "none" /\ \A j \in Ticks \ {n} : tick'[j] = tick[j]
  BY <1>1 DEF OInv, NotBegun, StartTick
<1>3. Without(queue, n)
  BY <1>1, <1>2, NotWaiting DEF OInv, Waiting
<1>4. Fits(queue, tick')
  BY <1>1, <1>2, <1>3, Changes DEF OInv
<1>5. Without(queue, TheLoop)
  BY DEF Without
<1>6. CASE plan = "throws"
  <2>1. queue' = Append(queue, Entry(TheLoop, n, "tick_error"))
    BY <1>6 DEF StartTick, EmitFirst
  <2>2. Fits(queue', tick')
    BY <1>1, <1>4, <1>5, <2>1, Joins, EventsAre
  <2>3. loop'.n = loop.n /\ loop'.pc = "erring"
    BY <1>1, <1>6 DEF StartTick, LoopAt, LoopTypes
  <2> QED BY <1>1, <1>2, <2>2, <2>3 DEF OInv, NotBegun, Ticks
<1>7. CASE plan # "throws"
  <2>1. queue' = Append(queue, Entry(n, n, "tick_started")) /\ tick'[n].pc = "started"
    BY <1>1, <1>7 DEF StartTick, EmitFirst
  <2>2. Awaits(tick'[n], "tick_started")
    BY <2>1 DEF Awaits, Pending
  <2>3. Fits(queue', tick')
    BY <1>1, <1>4, <1>3, <2>1, <2>2, Joins, EventsAre
  <2>4. loop'.n = loop.n /\ loop'.pc = "running"
    BY <1>1, <1>7 DEF StartTick, LoopAt, LoopTypes
  <2> QED BY <1>1, <1>2, <2>3, <2>4 DEF OInv, NotBegun, Ticks
<1> QED BY <1>6, <1>7

LEMMA OInvTick ==
    ASSUME OInv, NEW k \in Ticks, TickStep(k)
    PROVE  Fits(queue', tick') /\ NotBegun'
<1>1. /\ queue \in Seq(Records) /\ tick \in [Ticks -> TickTypes] /\ Typed
      /\ Fits(queue, tick)
  BY DEF OInv, Typed
<1>2. tick[k].pc # "none" /\ \A j \in Ticks \ {k} : tick'[j] = tick[j]
  BY <1>1, TickQueues
<1>3. NotBegun'
  <2>1. loop' = loop \/ LoopAt("touch")
    BY DEF TickStep, EvaluateSafety, Block, Decide, Skip, Send, Succeed, Fail, Backoff,
           Retry, FinishTick, Settle
  <2> QED BY <1>2, <2>1, StaysBegun
<1>4. ASSUME Written(k)
      PROVE  /\ Tail(queue) \in Seq(Records)
             /\ Fits(Tail(queue), tick') /\ Without(Tail(queue), k)
  <2>1. queue # <<>> /\ Head(queue).by = k
    BY <1>4 DEF Written
  <2> QED BY <1>1, <1>2, <2>1, Leaves, TailOfQueue
<1>5. ASSUME tick[k].pc \notin Waiting
      PROVE  Fits(queue, tick') /\ Without(queue, k)
  BY <1>1, <1>2, <1>5, NotWaiting, Changes
<1>6. CASE Written(k) /\ Quiet
  BY <1>3, <1>4, <1>6 DEF Quiet
<1>7. ASSUME Written(k), NEW e \in Events, Emit(k, k, e), Awaits(tick'[k], e)
      PROVE  Fits(queue', tick')
  <2>1. Fits(Append(Tail(queue), Entry(k, k, e)), tick')
    BY <1>4, <1>7, Joins
  <2> QED BY <2>1, <1>7 DEF Emit
<1>8. ASSUME tick[k].pc \notin Waiting,
             NEW e \in Events, EmitFirst(k, k, e), Awaits(tick'[k], e)
      PROVE  Fits(queue', tick')
  <2>1. Fits(Append(queue, Entry(k, k, e)), tick')
    BY <1>1, <1>5, <1>8, Joins
  <2> QED BY <2>1, <1>8 DEF EmitFirst
<1>9. CASE tick[k].pc \notin Waiting /\ UNCHANGED queue
  BY <1>3, <1>5, <1>9
<1> QED BY <1>1, <1>3, <1>6, <1>7, <1>8, <1>9, TickQueues

LEMMA OInvLoop ==
    ASSUME OInv, LoopStep
    PROVE  Fits(queue', tick') /\ NotBegun'
<1>1. /\ queue \in Seq(Records) /\ Fits(queue, tick) /\ tick' = tick
      /\ loop \in LoopTypes /\ loop.n \in Ticks
  BY DEF OInv, Typed, LoopTypes, LoopStep, TimeOut, AfterError, Touch, TouchFails, Die,
         Release
<1>2. NotBegun'
  BY <1>1 DEF OInv, NotBegun, LoopStep, TimeOut, AfterError, Touch, TouchFails, Die,
              Release, LoopAt, LoopTypes, Ticks
<1>3. Fits(queue', tick)
  <2>1. CASE TimeOut \/ TouchFails
    <3>1. queue' = Append(queue, Entry(TheLoop, loop.n, "tick_error"))
      BY <2>1 DEF TimeOut, TouchFails, EmitFirst
    <3>2. Without(queue, TheLoop)
      BY DEF Without
    <3> QED BY <1>1, <3>1, <3>2, Joins, EventsAre
  <2>2. CASE AfterError \/ Die
    <3>1. queue # <<>> /\ queue' = Tail(queue)
      BY <2>2 DEF AfterError, Die, Written, Quiet
    <3> QED BY <1>1, <3>1, Leaves
  <2>3. CASE Touch \/ Release
    BY <1>1, <2>3 DEF Touch, Release, logging
  <2> QED BY <2>1, <2>2, <2>3 DEF LoopStep
<1> QED BY <1>1, <1>2, <1>3

LEMMA OInvReject ==
    ASSUME OInv, RejectAppend
    PROVE  Fits(queue', tick') /\ NotBegun'
<1> DEFINE who == Head(queue).by
<1>1. /\ queue \in Seq(Records) /\ queue # <<>> /\ Head(queue) \in Records
      /\ Tail(queue) \in Seq(Records) /\ Fits(queue, tick) /\ Typed
      /\ Head(queue) = queue[1] /\ 1 \in DOMAIN queue
  BY TailOfQueue, HeadTailProperties DEF OInv, Typed, RejectAppend
<1>2. CASE who = TheLoop
  <2>1. tick' = tick /\ queue' = Tail(queue) /\ LoopAt("release")
    BY <1>2 DEF RejectAppend, Quiet
  <2>2. Fits(queue', tick')
    BY <1>1, <2>1, Leaves
  <2>3. loop'.n = loop.n /\ loop'.pc = "release"
    BY <1>1, <2>1 DEF LoopAt, Typed, LoopTypes
  <2> QED BY <2>1, <2>2, <2>3 DEF OInv, NotBegun
<1>3. CASE who # TheLoop
  <2>1. /\ who \in Ticks /\ TickAt(who, "done")
        /\ (loop' = loop /\ Quiet) \/ (LoopAt("erring") /\ Emit(TheLoop, who, "tick_error"))
    BY <1>1, <1>3 DEF RejectAppend, Records
  <2>2. tick[who].pc # "none"
    BY <1>1, <1>3 DEF Fits, Awaits, Pending
  <2>3. \A j \in Ticks \ {who} : tick'[j] = tick[j]
    BY <1>1, <2>1 DEF TickAt, Typed
  <2>4. NotBegun'
    BY <2>1, <2>2, <2>3, StaysBegun
  <2>5. Fits(Tail(queue), tick') /\ Without(Tail(queue), TheLoop)
    BY <1>1, <2>3, Leaves DEF Without
  <2>6. Fits(Append(Tail(queue), Entry(TheLoop, who, "tick_error")), tick')
    BY <1>1, <2>1, <2>5, Joins, EventsAre
  <2> QED BY <2>1, <2>4, <2>5, <2>6 DEF Quiet, Emit
<1> QED BY <1>2, <1>3

LEMMA OInvStep == OInv /\ [Next]_vars => OInv'
<1> SUFFICES ASSUME OInv, [Next]_vars PROVE Fits(queue', tick') /\ NotBegun'
  BY TypedStep DEF OInv
<1>1. CASE Advance \/ UNCHANGED vars
  BY <1>1 DEF Advance, vars, logging, OInv, NotBegun
<1> QED BY <1>1, OInvStart, OInvTick, OInvLoop, OInvReject DEF Next

LEMMA OInvAlways == Spec => []OInv
BY OInvInit, OInvStep, PTL DEF Spec

-----------------------------------------------------------------------------
(* The decision is on disk before the call *)

HasDecision(s) == \E i \in DOMAIN s : s[i] = "decision_made"

SInv ==
    \A k \in Ticks :
        /\ sends[k] = 0 \/ (sends[k] = 1 /\ HasDecision(log[k]))
        /\ tick[k].pc \in {"none", "started", "evaluated", "decided"} => sends[k] = 0

\* Records are only added to the log.
LEMMA LogGrows ==
    ASSUME Typed, [Next]_vars, NEW k \in Ticks
    PROVE  \A i \in DOMAIN log[k] : i \in DOMAIN log'[k] /\ log'[k][i] = log[k][i]
<1>1. log \in [Ticks -> Seq(Events)] /\ queue \in Seq(Records)
  BY DEF Typed
<1>2. ASSUME NEW who, Written(who)
      PROVE  \A i \in DOMAIN log[k] : i \in DOMAIN log'[k] /\ log'[k][i] = log[k][i]
  <2>1. log'[k] = log[k] \/ \E e \in Events : log'[k] = Append(log[k], e)
    BY <1>1, <1>2, WrittenType DEF Records
  <2>2. \A e \in Events : \A i \in DOMAIN log[k] :
           i \in DOMAIN Append(log[k], e) /\ Append(log[k], e)[i] = log[k][i]
    BY <1>1, Longer
  <2> QED BY <2>1, <2>2
<1>3. log' = log \/ \E who : Written(who)
  BY DEF Next, StartTick, TickStep, EvaluateSafety, Block, Decide, Skip, Send, Succeed, Fail,
         Backoff, Retry, FinishTick, Settle, LoopStep, TimeOut, AfterError, Touch, TouchFails,
         Die, Release, RejectAppend, Advance, vars, logging, EmitFirst
<1> QED BY <1>2, <1>3

\* Only Send counts a send, once it has seen its decision written.
LEMMA SInvStep == OInv /\ SInv /\ [Next]_vars => SInv'
<1> SUFFICES ASSUME OInv, SInv, [Next]_vars, NEW k \in Ticks
             PROVE  /\ sends'[k] = 0 \/ (sends'[k] = 1 /\ HasDecision(log'[k]))
                    /\ tick'[k].pc \in {"none", "started", "evaluated", "decided"} =>
                          sends'[k] = 0
  BY DEF SInv
<1>1. /\ tick \in [Ticks -> TickTypes] /\ sends \in [Ticks -> Nat] /\ Typed
      /\ log \in [Ticks -> Seq(Events)]
      /\ sends[k] = 0 \/ (sends[k] = 1 /\ HasDecision(log[k]))
      /\ tick[k].pc \in {"none", "started", "evaluated", "decided"} => sends[k] = 0
  BY DEF OInv, Typed, SInv
<1>2. HasDecision(log[k]) => HasDecision(log'[k])
  BY <1>1, LogGrows DEF HasDecision
<1>3. CASE tick'[k] = tick[k] /\ sends' = sends
  BY <1>1, <1>2, <1>3
<1>4. ASSUME NEW plan \in Plans, StartTick(plan)
      PROVE  sends' = sends /\ (tick'[k] = tick[k] \/ sends[k] = 0)
  <2>1. loop.n \in Ticks /\ tick[loop.n].pc = "none"
    BY <1>4 DEF OInv, NotBegun, Typed, LoopTypes, StartTick
  <2> QED BY <1>1, <1>4, <2>1 DEF StartTick
<1>5. ASSUME NEW j \in Ticks, TickStep(j), j # k
      PROVE  tick'[k] = tick[k] /\ sends'[k] = sends[k]
  <2>1. tick'[k] = tick[k]
    BY <1>1, <1>5, TickQueues
  <2>2. sends' = sends \/ sends' = [sends EXCEPT ![j] = @ + 1]
    BY <1>5 DEF TickStep, EvaluateSafety, Block, Decide, Skip, Send, Succeed, Fail, Backoff,
          Retry, FinishTick, Settle, seen
  <2> QED BY <1>1, <1>5, <2>1, <2>2
<1>6. CASE Send(k)
  <2>1. /\ tick[k].pc = "decided" /\ Written(k)
        /\ tick'[k].pc = "calling" /\ sends'[k] = sends[k] + 1
    BY <1>1, <1>6 DEF Send
  <2>2. Awaits(tick[k], Head(queue).event) /\ Head(queue).event \in Events
        /\ log'[k] = Append(log[k], Head(queue).event)
    BY <1>1, <2>1, WhatIsWritten
  <2>3. Head(queue).event = "decision_made"
    BY <2>1, <2>2 DEF Awaits, Pending
  <2>4. HasDecision(log'[k])
    <3> DEFINE p == Append(log[k], Head(queue).event)
    <3>1. Len(log[k]) + 1 \in DOMAIN p /\ p[Len(log[k]) + 1] = "decision_made"
      BY <1>1, <2>2, <2>3, Longer
    <3> QED BY <2>2, <3>1 DEF HasDecision
  <2>5. sends'[k] = 1 /\ tick'[k].pc \notin {"none", "started", "evaluated", "decided"}
    BY <1>1, <2>1
  <2> QED BY <2>4, <2>5
<1>7. CASE TickStep(k) /\ ~Send(k)
  <2>1. sends' = sends
    BY <1>7 DEF TickStep, EvaluateSafety, Block, Decide, Skip, Succeed, Fail, Backoff,
          Retry, FinishTick, Settle, seen
  <2>2. \/ tick[k].pc \in {"none", "started", "evaluated", "decided"}
        \/ tick'[k].pc \notin {"none", "started", "evaluated", "decided"}
    BY <1>1, <1>7 DEF TickStep, EvaluateSafety, Block, Decide, Skip, Succeed, Fail, Backoff,
          Retry, FinishTick, Settle, TickAt, TickTypes
  <2> QED BY <1>1, <1>2, <2>1, <2>2
<1>8. CASE LoopStep \/ Advance \/ UNCHANGED vars
  <2>1. tick' = tick /\ sends' = sends
    BY <1>8 DEF LoopStep, TimeOut, AfterError, Touch, TouchFails, Die, Release, Advance, vars,
                seen
  <2> QED BY <1>3, <2>1
<1>9. CASE RejectAppend
  <2>1. sends' = sends /\ (tick'[k] = tick[k] \/ tick'[k].pc = "done")
    BY <1>1, <1>9 DEF RejectAppend, TickAt, seen, TickTypes
  <2> QED BY <1>1, <1>2, <2>1
<1> QED BY <1>1, <1>2, <1>3, <1>4, <1>5, <1>6, <1>7, <1>8, <1>9 DEF Next

\* A decision in the log is one at least.
LEMMA OneDecision ==
    ASSUME NEW s \in Seq(Events), HasDecision(s)
    PROVE  Cardinality({i \in DOMAIN s : s[i] = "decision_made"}) \in Nat \ {0}
<1> DEFINE D == {i \in DOMAIN s : s[i] = "decision_made"}
<1>1. IsFiniteSet(1..Len(s)) /\ D \subseteq 1..Len(s)
  BY FS_Interval
<1>2. IsFiniteSet(D) /\ D # {}
  BY <1>1, FS_Subset DEF HasDecision
<1> QED BY <1>2, FS_CardinalityType, FS_EmptySet

\* No action reaches the transport before its decision is on disk, whatever times
\* out, answers late or cannot be written.
THEOREM DecisionLogged == Spec => []DecisionIsLogged
<1>1. Init => SInv
  BY DEF Init, SInv
<1>2. OInv /\ SInv => DecisionIsLogged
  <2> SUFFICES ASSUME OInv, SInv, NEW k \in Ticks
               PROVE  sends[k] <= Cardinality({i \in DOMAIN log[k] :
                                                  log[k][i] = "decision_made"})
    BY DEF DecisionIsLogged
  <2>1. log[k] \in Seq(Events) /\ IsFiniteSet({i \in DOMAIN log[k] : log[k][i] = "decision_made"})
    <3>1. log[k] \in Seq(Events)
      BY DEF OInv, Typed
    <3> QED BY <3>1, FS_Interval, FS_Subset
  <2>2. Cardinality({i \in DOMAIN log[k] : log[k][i] = "decision_made"}) \in Nat
    BY <2>1, FS_CardinalityType
  <2> QED BY <2>1, <2>2, OneDecision DEF SInv
<1> QED BY <1>1, <1>2, SInvStep, OInvAlways, PTL DEF Spec

-----------------------------------------------------------------------------
(* The breaker opens for one cooldown from now at most *)

RInv == ReopensInTime /\ \A k \in Ticks : tick[k].at <= now

\* A tick keeps the time it started with.
LEMMA Starts ==
    ASSUME Typed, [Next]_vars, NEW k \in Ticks
    PROVE  tick'[k].at \in {tick[k].at, now}
<1>1. tick \in [Ticks -> TickTypes]
  BY DEF Typed
<1>2. \A j \in Ticks : \A label : TickAt(j, label) => tick'[k].at = tick[k].at
  BY <1>1 DEF TickAt, TickTypes
<1>3. ASSUME NEW plan \in Plans, StartTick(plan) PROVE tick'[k].at \in {tick[k].at, now}
  <2> DEFINE failed == [Idle EXCEPT !.pc = "done", !.at = now]
             started == [pc |-> "started", at |-> now, plan |-> plan, attempt |-> 0,
                         safe |-> Permitted(plan)]
  <2>1. loop.n \in Ticks /\ failed.at = now /\ started.at = now
    BY DEF Typed, LoopTypes, Idle
  <2>2. tick' = [tick EXCEPT ![loop.n] = failed] \/ tick' = [tick EXCEPT ![loop.n] = started]
    BY <1>3 DEF StartTick
  <2> HIDE DEF failed, started
  <2> QED BY <1>1, <2>1, <2>2
<1>4. ASSUME NEW j \in Ticks, TickStep(j) PROVE tick'[k].at = tick[k].at
  <2>1. CASE Send(j) \/ Retry(j)
    BY <1>1, <2>1 DEF Send, Retry, TickTypes
  <2> QED BY <1>2, <1>4, <2>1
      DEF TickStep, EvaluateSafety, Block, Decide, Skip, Succeed, Fail, Backoff, FinishTick,
          Settle
<1>5. CASE RejectAppend
  <2>1. queue \in Seq(Records) /\ queue # <<>>
    BY <1>5 DEF Typed, RejectAppend
  <2>2. Head(queue).by \in Ticks \/ Head(queue).by = TheLoop
    BY <2>1, TailOfQueue DEF Records
  <2> QED BY <1>2, <1>5, <2>2 DEF RejectAppend
<1>6. CASE LoopStep \/ Advance \/ UNCHANGED vars
  BY <1>6 DEF LoopStep, TimeOut, AfterError, Touch, TouchFails, Die, Release, Advance, vars
<1> QED BY <1>3, <1>4, <1>5, <1>6 DEF Next

\* What a step does to the breaker.
LEMMA BreakerSteps ==
    ASSUME Typed, [Next]_vars
    PROVE  \/ breaker' = breaker \/ breaker' = Evaluated(breaker, now)
           \/ \E s \in Statuses : breaker' = Recorded(breaker, s, now)
           \/ \E k \in Ticks, s \in Statuses : breaker' = Recorded(breaker, s, tick[k].at)
BY DEF Next, StartTick, TickStep, EvaluateSafety, Block, Decide, Skip, Send, Succeed, Fail,
       Backoff, Retry, FinishTick, Settle, LoopStep, TimeOut, AfterError, Touch, TouchFails,
       Die, Release, RejectAppend, Advance, vars, seen, Report, Statuses

LEMMA RInvStep == Typed /\ RInv /\ [Next]_vars => RInv'
<1> SUFFICES ASSUME Typed, RInv, [Next]_vars PROVE RInv'
  OBVIOUS
<1>1. /\ now \in Nat /\ now' \in Nat /\ now <= now' /\ breaker \in Breakers
      /\ CircuitCooldown \in Nat
      /\ \A k \in Ticks : tick[k].at \in Nat /\ tick[k].at <= now
  <2>1. now \in Nat /\ breaker \in Breakers /\ CircuitCooldown \in Nat
    BY LoopAssumption, BreakerAssumption DEF Typed
  <2>2. \A k \in Ticks : tick[k].at \in Nat
    BY LoopAssumption DEF Typed, TickTypes
  <2>3. now' = now \/ now' = now + 1
    BY DEF Next, StartTick, TickStep, EvaluateSafety, Block, Decide, Skip, Send, Succeed, Fail,
           Backoff, Retry, FinishTick, Settle, LoopStep, TimeOut, AfterError, Touch,
           TouchFails, Die, Release, RejectAppend, Advance, vars
  <2> QED BY <2>1, <2>2, <2>3 DEF RInv
<1>2. \A k \in Ticks : tick'[k].at <= now'
  BY <1>1, Starts
<1>3. \A b \in Breakers, s \in Statuses, t \in Nat :
         t <= now /\ b = breaker /\ IsOpen(Recorded(b, s, t)) =>
            Recorded(b, s, t).until <= now + CircuitCooldown
  BY <1>1, RecordedType DEF RInv, ReopensInTime
<1>4. IsOpen(breaker') => breaker'.until <= now + CircuitCooldown
  <2>1. CASE breaker' = breaker \/ breaker' = Evaluated(breaker, now)
    BY <1>1, <2>1, EvaluatedType DEF RInv, ReopensInTime, FreshBreaker, IsOpen
  <2>2. CASE \E s \in Statuses : breaker' = Recorded(breaker, s, now)
    BY <1>1, <1>3, <2>2
  <2>3. CASE \E k \in Ticks, s \in Statuses : breaker' = Recorded(breaker, s, tick[k].at)
    BY <1>1, <1>3, <2>3
  <2> QED BY <2>1, <2>2, <2>3, BreakerSteps
<1>5. breaker' \in Breakers
  BY TypedStep DEF Typed
<1>6. IsOpen(breaker') => breaker'.until <= now' + CircuitCooldown
  BY <1>1, <1>4, <1>5 DEF Breakers, IsOpen, Never
<1> QED BY <1>2, <1>6 DEF RInv, ReopensInTime, IsOpen

\* However stale the times ticks report with, an open breaker lets ticks through
\* again within one cooldown from now.
THEOREM OpensForOneCooldown == Spec => []ReopensInTime
<1>1. Init => RInv
  BY DEF Init, RInv, ReopensInTime, FreshBreaker, IsOpen, Idle, Never
<1>2. RInv => ReopensInTime
  BY DEF RInv
<1>3. Typed /\ RInv /\ [Next]_vars => RInv'
  BY RInvStep
<1> QED BY <1>1, <1>2, <1>3, OInvAlways, PTL DEF Spec, OInv

-----------------------------------------------------------------------------
(* If ticks that timed out stay silent *)

\* Then the loop awaits the only tick that runs.
LEMMA OnlyAwaited ==
    ASSUME ~Late, Typed, [Next]_vars, NEW k \in Ticks, tick'[k] # tick[k],
           loop.pc # "ready"
    PROVE  loop.pc = "running" /\ loop.n = k
<1>1. tick \in [Ticks -> TickTypes] /\ queue \in Seq(Records)
  BY DEF Typed
<1>2. ~Advance /\ tick' # tick /\ ~LoopStep
  BY DEF Advance, vars, LoopStep, TimeOut, AfterError, Touch, TouchFails, Die, Release
<1>3. \A plan \in Plans : ~StartTick(plan)
  BY DEF StartTick
<1>4. ASSUME NEW j \in Ticks, TickStep(j) PROVE j = k /\ Runs(j)
  <2>1. j = k
    BY <1>4, TickQueues
  <2> QED BY <1>4, <2>1
      DEF TickStep, EvaluateSafety, Block, Decide, Skip, Send, Succeed, Fail, Backoff, Retry,
          FinishTick, Settle
<1>5. CASE RejectAppend
  <2>1. Head(queue).by \in Ticks \/ Head(queue).by = TheLoop
    BY <1>1, <1>5, TailOfQueue DEF RejectAppend, Records
  <2>2. Head(queue).by = k /\ Runs(Head(queue).by)
    BY <1>1, <1>2, <1>5, <2>1 DEF RejectAppend, TickAt
  <2> QED BY <2>2 DEF Runs
<1> QED BY <1>2, <1>3, <1>4, <1>5 DEF Next, Runs, vars

\* What the steps do to the loop, one way or another.
LEMMA TicksLoop ==
    ASSUME ~Late, Typed, NEW k \in Ticks, TickStep(k)
    PROVE  /\ loop.pc = "running" /\ loop.n = k
           /\ loop' = loop \/ (loop'.n = k /\ loop'.pc = "touch" /\ tick'[k].pc = "done")
BY DEF Typed, LoopTypes, TickStep, EvaluateSafety, Block, Decide, Skip, Send, Succeed, Fail,
       Backoff, Retry, FinishTick, Settle, Runs, LoopAt, TickAt, TickTypes

LEMMA RejectsAwaited ==
    ASSUME ~Late, Typed, RejectAppend
    PROVE  loop'.n = loop.n /\ loop'.pc \in {"release", "erring"}
<1>1. queue \in Seq(Records) /\ queue # <<>>
  BY DEF Typed, RejectAppend
<1>2. Head(queue).by \in Ticks \/ Head(queue).by = TheLoop
  BY <1>1, TailOfQueue DEF Records
<1> QED BY <1>2 DEF RejectAppend, Runs, Awaited, LoopAt, Typed, LoopTypes

LEMMA Callers ==
    ASSUME Typed, [Next]_vars, NEW k \in Ticks, Calls(k)
    PROVE  Send(k) \/ Retry(k)
<1>1. tick \in [Ticks -> TickTypes] /\ queue \in Seq(Records) /\ loop.n \in Ticks
  BY DEF Typed, LoopTypes
<1>2. tick'[k] # tick[k] /\ tick'[k].pc = "calling" /\ tick[k].pc # "calling"
  BY DEF Calls
<1>3. ~RejectAppend
  <2> SUFFICES ASSUME RejectAppend PROVE FALSE
    OBVIOUS
  <2>1. Head(queue).by \in Ticks \/ Head(queue).by = TheLoop
    BY <1>1, TailOfQueue DEF RejectAppend, Records
  <2> QED BY <1>1, <1>2, <2>1 DEF RejectAppend, TickAt, TickTypes
<1>4. ~Advance /\ tick' # tick /\ ~LoopStep
  BY <1>2 DEF Advance, vars, LoopStep, TimeOut, AfterError, Touch, TouchFails, Die, Release
<1>5. ASSUME NEW plan \in Plans, StartTick(plan) PROVE FALSE
  <2> DEFINE failed == [Idle EXCEPT !.pc = "done", !.at = now]
             started == [pc |-> "started", at |-> now, plan |-> plan, attempt |-> 0,
                         safe |-> Permitted(plan)]
  <2>1. failed.pc = "done" /\ started.pc = "started"
    BY DEF Idle
  <2>2. tick' = [tick EXCEPT ![loop.n] = failed] \/ tick' = [tick EXCEPT ![loop.n] = started]
    BY <1>5 DEF StartTick
  <2> HIDE DEF failed, started
  <2> QED BY <1>1, <1>2, <2>1, <2>2
<1>6. ASSUME NEW j \in Ticks, TickStep(j) PROVE j = k
  BY <1>2, <1>6, TickQueues
<1>7. CASE TickStep(k)
  BY <1>1, <1>2, <1>7
     DEF TickStep, EvaluateSafety, Block, Decide, Skip, Succeed, Fail, Backoff, FinishTick,
         Settle, TickAt, TickTypes
<1> QED BY <1>3, <1>4, <1>5, <1>6, <1>7 DEF Next, vars

Unsent == {"started", "evaluated", "decided", "calling", "backoff"}

\* The breaker lets the awaited tick through until it is executed.
CInv ==
    loop.pc = "running" /\ tick[loop.n].safe /\ tick[loop.n].pc \in Unsent =>
        Allows(breaker, now)

LEMMA CInvStep == ASSUME ~Late, OInv, CInv, [Next]_vars PROVE CInv'
<1>1. /\ Typed /\ loop.n \in Ticks /\ loop \in LoopTypes
      /\ tick \in [Ticks -> TickTypes] /\ now \in Nat /\ breaker \in Breakers
  BY LoopAssumption DEF OInv, Typed, LoopTypes
<1> SUFFICES ASSUME loop'.pc = "running", tick'[loop'.n].safe, tick'[loop'.n].pc \in Unsent
             PROVE  Allows(breaker', now')
  BY DEF CInv, Allows
<1>2. ASSUME NEW plan \in Plans, StartTick(plan) PROVE Allows(breaker', now')
  <2> DEFINE started == [pc |-> "started", at |-> now, plan |-> plan, attempt |-> 0,
                         safe |-> Permitted(plan)]
  <2>1. plan # "throws" /\ loop'.n = loop.n
    BY <1>1, <1>2 DEF StartTick, LoopAt, LoopTypes
  <2>2. tick' = [tick EXCEPT ![loop.n] = started] /\ breaker' = Evaluated(breaker, now)
        /\ now' = now
    BY <1>2, <2>1 DEF StartTick
  <2>3. Permitted(plan)
    BY <1>1, <2>1, <2>2
  <2> QED BY <1>1, <2>2, <2>3, EvaluatedType DEF Permitted
<1>3. ASSUME NEW k \in Ticks, TickStep(k) PROVE Allows(breaker', now')
  <2>1. loop' = loop /\ loop.pc = "running" /\ loop.n = k
    BY <1>1, <1>3, TicksLoop
  <2>2. /\ tick'[k].pc \in Unsent => tick[k].pc \in Unsent
        /\ tick'[k].safe = tick[k].safe
        /\ tick'[k].pc \in Unsent => breaker' = breaker
        /\ now' = now
    BY <1>1, <1>3
       DEF TickStep, EvaluateSafety, Block, Decide, Skip, Send, Succeed, Fail, Backoff, Retry,
           FinishTick, Settle, TickAt, TickTypes, Unsent, seen
  <2> QED BY <2>1, <2>2 DEF CInv
<1>4. ~LoopStep /\ ~RejectAppend
  BY <1>1, RejectsAwaited
     DEF LoopStep, TimeOut, AfterError, Touch, TouchFails, Die, Release, LoopAt, LoopTypes
<1>5. CASE Advance \/ UNCHANGED vars
  <2>1. /\ loop' = loop /\ tick' = tick /\ breaker' = breaker
        /\ now' = now \/ now' = now + 1
    BY <1>5 DEF Advance, vars
  <2> QED BY <1>1, <2>1 DEF CInv, Allows, Breakers, IsOpen, Never
<1> QED BY <1>2, <1>3, <1>4, <1>5 DEF Next

\* Nothing is sent while the breaker is open, in the first attempt and in the
\* others, if ticks that timed out stay silent.
THEOREM NothingSentWhileOpen == ASSUME ~Late PROVE Spec => NoCallWhileOpen
<1>1. Init => CInv
  BY DEF Init, CInv
<1>2. OInv /\ CInv /\ [Next]_vars => CInv'
  BY CInvStep
<1>3. OInv /\ CInv /\ [Next]_vars => [\A k \in Ticks : Calls(k) => Allows(breaker, now)]_vars
  <2> SUFFICES ASSUME OInv, CInv, [Next]_vars, NEW k \in Ticks, Calls(k)
               PROVE  Allows(breaker, now)
    OBVIOUS
  <2>1. Typed /\ (Send(k) \/ Retry(k)) /\ Passed(tick[k])
    BY Callers DEF OInv, Typed
  <2>2. /\ tick[k].pc \in {"decided", "backoff"}
        /\ loop.pc = "running" /\ loop.n = k
    BY <2>1 DEF Send, Retry, Runs
  <2> QED BY <2>1, <2>2 DEF Passed, CInv, Unsent
<1> QED BY <1>1, <1>2, <1>3, OInvAlways, PTL DEF Spec, NoCallWhileOpen

\* What succeeded within the window is still in the executor's map, and is not
\* what the awaited tick sends.
Old(a) == delivered[a] = Never \/ now - delivered[a] > Window

DInv ==
    /\ \A a \in Actions : Old(a) \/ (a \in DOMAIN executed /\ executed[a] = delivered[a])
    /\ loop.pc = "running" /\ tick[loop.n].pc \in {"calling", "backoff"} =>
          Old(tick[loop.n].plan)

LEMMA DInvStep == ASSUME ~Late, OInv, DInv, [Next]_vars PROVE DInv'
<1>1. /\ Typed /\ loop.n \in Ticks /\ loop \in LoopTypes
      /\ tick \in [Ticks -> TickTypes] /\ now \in Nat /\ Window \in Nat
      /\ delivered \in [Actions -> Nat \union {Never}]
      /\ executed \in [DOMAIN executed -> Nat]
      /\ \A k \in Ticks : Passed(tick[k])
  BY LoopAssumption DEF OInv, Typed, LoopTypes
<1>2. ASSUME UNCHANGED <<delivered, executed>>, now' = now \/ now' = now + 1
      PROVE  /\ \A a \in Actions : Old(a) => Old(a)'
             /\ \A a \in Actions :
                   Old(a)' \/ (a \in DOMAIN executed' /\ executed'[a] = delivered'[a])
  BY <1>1, <1>2 DEF DInv, Old, Never
<1>3. ASSUME UNCHANGED <<now, delivered>>, executed' = Remembered
      PROVE  \A a \in Actions :
                Old(a)' \/ (a \in DOMAIN executed' /\ executed'[a] = delivered'[a])
  BY <1>1, <1>3, RememberedType DEF DInv, Old, Never
<1>4. ASSUME NEW plan \in Plans, StartTick(plan) PROVE DInv'
  <2>1. UNCHANGED <<now, delivered, executed>>
    BY <1>4 DEF StartTick
  <2>2. loop'.pc = "running" => tick'[loop'.n].pc = "started"
    BY <1>1, <1>4 DEF StartTick, LoopAt, LoopTypes
  <2> QED BY <1>2, <2>1, <2>2 DEF DInv, Old
<1>5. ASSUME NEW k \in Ticks, TickStep(k) PROVE DInv'
  <2>1. loop.pc = "running" /\ loop.n = k /\ (loop' = loop \/ loop'.pc = "touch")
    BY <1>1, <1>5, TicksLoop
  <2>2. CASE Send(k)
    <3>1. /\ UNCHANGED <<now, delivered>> /\ executed' = Remembered
          /\ tick[k].plan \in Actions /\ tick[k].plan \notin DOMAIN Remembered
          /\ tick'[k].plan = tick[k].plan
      BY <1>1, <2>2 DEF Send, Duplicate, TickTypes
    <3>2. Old(tick[k].plan)
      BY <1>1, <3>1, RememberedType DEF DInv, Old, Never
    <3> QED BY <1>3, <2>1, <3>1, <3>2 DEF DInv, Old
  <2>3. CASE Skip(k)
    <3>1. /\ UNCHANGED <<now, delivered>> /\ tick'[k].pc = "executed"
          /\ executed' = executed \/ executed' = Remembered
      BY <1>1, <2>3 DEF Skip, TickAt, TickTypes
    <3> QED BY <1>2, <1>3, <2>1, <3>1 DEF DInv
  <2>4. CASE Succeed(k)
    <3>1. /\ executed' = Stamped(executed, tick[k].plan, now) /\ now' = now
          /\ delivered' = [delivered EXCEPT ![tick[k].plan] = now]
          /\ tick'[k].pc = "executed" /\ tick[k].plan \in Actions
      BY <1>1, <2>4 DEF Succeed, TickAt, TickTypes, Passed
    <3>2. \A a \in Actions :
             Old(a)' \/ (a \in DOMAIN executed' /\ executed'[a] = delivered'[a])
      <4>1. /\ DOMAIN executed' = DOMAIN executed \union {tick[k].plan}
            /\ executed'[tick[k].plan] = now
            /\ \A a \in DOMAIN executed \ {tick[k].plan} : executed'[a] = executed[a]
        BY <3>1 DEF Stamped
      <4>2. /\ delivered'[tick[k].plan] = now
            /\ \A a \in Actions \ {tick[k].plan} : delivered'[a] = delivered[a]
        BY <1>1, <3>1
      <4>3. \A a \in Actions \ {tick[k].plan} : Old(a) => Old(a)'
        BY <3>1, <4>2 DEF Old
      <4> QED BY <3>1, <4>1, <4>2, <4>3 DEF DInv
    <3> QED BY <2>1, <3>1, <3>2 DEF DInv
  <2>5. CASE ~(Send(k) \/ Skip(k) \/ Succeed(k))
    <3>1. /\ UNCHANGED <<now, delivered, executed>> /\ tick'[k].plan = tick[k].plan
          /\ tick'[k].pc \in {"calling", "backoff"} => tick[k].pc \in {"calling", "backoff"}
      BY <1>1, <1>5, <2>5
         DEF TickStep, EvaluateSafety, Block, Decide, Fail, Backoff, Retry, FinishTick, Settle,
             TickAt, TickTypes, seen
    <3> QED BY <1>2, <2>1, <3>1 DEF DInv, Old
  <2> QED BY <2>2, <2>3, <2>4, <2>5
<1>6. CASE LoopStep \/ RejectAppend
  <2>1. UNCHANGED <<now, delivered, executed>>
    BY <1>6 DEF LoopStep, TimeOut, AfterError, Touch, TouchFails, Die, Release, RejectAppend,
                seen
  <2>2. loop'.pc # "running"
    BY <1>1, <1>6, RejectsAwaited
       DEF LoopStep, TimeOut, AfterError, Touch, TouchFails, Die, Release, LoopAt, LoopTypes
  <2> QED BY <1>2, <2>1, <2>2 DEF DInv
<1>7. CASE Advance \/ UNCHANGED vars
  <2>1. UNCHANGED <<delivered, executed, loop, tick>> /\ (now' = now \/ now' = now + 1)
    BY <1>7 DEF Advance, vars, seen
  <2>2. tick[loop.n].pc \in {"calling", "backoff"} => tick[loop.n].plan \in Actions
    BY <1>1 DEF Passed
  <2> QED BY <1>2, <2>1, <2>2 DEF DInv
<1> QED BY <1>4, <1>5, <1>6, <1>7 DEF Next

\* An action that succeeded is not sent again within the window, in any attempt
\* of any tick, if ticks that timed out stay silent.
THEOREM NothingSentTwice == ASSUME ~Late PROVE Spec => NoDuplicateDelivery
<1>1. Init => DInv
  BY DEF Init, DInv, Old
<1>2. OInv /\ DInv /\ [Next]_vars => DInv'
  BY DInvStep
<1>3. OInv /\ DInv /\ [Next]_vars =>
         [\A k \in Ticks : Calls(k) =>
             LET last == delivered[tick[k].plan]
             IN  last = Never \/ now - last > Window]_vars
  <2> SUFFICES ASSUME OInv, DInv, [Next]_vars, NEW k \in Ticks, Calls(k)
               PROVE  Old(tick[k].plan)
    BY DEF Old
  <2>1. Typed /\ (Send(k) \/ Retry(k)) /\ Passed(tick[k])
    BY Callers DEF OInv, Typed
  <2>2. loop.pc = "running" /\ loop.n = k
    BY <2>1 DEF Send, Retry, Runs
  <2>3. CASE Send(k)
    <3>1. /\ tick[k].plan \in Actions /\ tick[k].plan \notin DOMAIN Remembered
          /\ executed \in [DOMAIN executed -> Nat] /\ now \in Nat /\ Window \in Nat
          /\ delivered \in [Actions -> Nat \union {Never}]
      BY <2>1, <2>3, LoopAssumption DEF Send, Duplicate, Typed
    <3> QED BY <3>1, RememberedType DEF DInv, Old, Never
  <2>4. CASE Retry(k)
    BY <2>2, <2>4 DEF Retry, DInv
  <2> QED BY <2>1, <2>3, <2>4
<1> QED BY <1>1, <1>2, <1>3, OInvAlways, PTL DEF Spec, NoDuplicateDelivery

\* A tick whose failure may be in the streak has executed, or is given up.
Blameable(j) ==
    \/ j < loop.n
    \/ /\ j = loop.n
       /\ \/ loop.pc \notin {"ready", "running", "timedOut"}
          \/ loop.pc = "running" /\ tick[j].pc \in {"executed", "finishing", "done"}

EInv == StreakCountsTicks /\ \A j \in blamed : Blameable(j)

LEMMA BlamedFinite ==
    ASSUME NEW S, S \subseteq Ticks
    PROVE  IsFiniteSet(S) /\ Cardinality(S) \in Nat
<1>1. IsFiniteSet(Ticks)
  BY FS_Interval, LoopAssumption DEF Ticks
<1> QED BY <1>1, FS_Subset, FS_CardinalityType

LEMMA StreakGrows ==
    ASSUME NEW b \in Breakers, NEW t \in Nat, NEW s \in Statuses
    PROVE  Recorded(b, s, t).streak <= b.streak + 1
<1> USE BreakerAssumption DEF Breakers, IsOpen, Allows, Never, Evaluated, FreshBreaker
<1>1. CASE s = "failed"
  BY <1>1 DEF Recorded
<1>2. CASE s # "failed"
  BY <1>2 DEF Recorded
<1> QED BY <1>1, <1>2

\* A tick that is not blamed yet reports.
LEMMA ReportCounts ==
    ASSUME NEW k \in Ticks, NEW s \in Statuses, NEW t \in Nat, breaker \in Breakers,
           blamed \subseteq Ticks, k \notin blamed, StreakCountsTicks, Report(k, s, t)
    PROVE  StreakCountsTicks' /\ blamed' \subseteq blamed \union {k}
<1>1. /\ breaker'.streak \in Nat /\ breaker.streak \in Nat
      /\ breaker'.streak <= breaker.streak + 1
      /\ breaker' \in Breakers /\ blamed' \subseteq blamed \union {k}
  BY Blamed, StreakGrows, RecordedType DEF Report, Breakers
<1>2. /\ Cardinality(blamed) \in Nat /\ Cardinality({}) = 0 /\ Cardinality({k}) = 1
      /\ Cardinality(blamed \union {k}) = Cardinality(blamed) + 1
  BY BlamedFinite, FS_EmptySet, FS_Singleton, FS_AddElement
<1>3. \/ breaker'.streak = 0 /\ blamed' = {}
      \/ breaker'.streak = 1 /\ blamed' = {k}
      \/ blamed' = blamed \union {k}
      \/ blamed' = blamed /\ breaker'.streak <= breaker.streak
  BY <1>1 DEF Report
<1>4. CASE blamed' = blamed \union {k}
  BY <1>1, <1>2, <1>4 DEF StreakCountsTicks
<1>5. CASE blamed' = blamed /\ breaker'.streak <= breaker.streak
  BY <1>1, <1>2, <1>5 DEF StreakCountsTicks
<1>6. CASE \/ breaker'.streak = 0 /\ blamed' = {}
           \/ breaker'.streak = 1 /\ blamed' = {k}
  BY <1>1, <1>2, <1>6 DEF StreakCountsTicks
<1> QED BY <1>1, <1>3, <1>4, <1>5, <1>6

LEMMA EInvStep == ASSUME ~Late, OInv, EInv, [Next]_vars PROVE EInv'
<1>1. /\ Typed /\ loop.n \in Ticks /\ loop \in LoopTypes
      /\ tick \in [Ticks -> TickTypes] /\ now \in Nat /\ breaker \in Breakers
      /\ blamed \subseteq Ticks /\ StreakCountsTicks /\ \A j \in blamed : Blameable(j)
      /\ \A k \in Ticks : tick[k].at \in Nat /\ k \in Int
  <2>1. Typed /\ now \in Nat /\ \A k \in Ticks : tick[k].at \in Nat /\ k \in Int
    BY LoopAssumption DEF OInv, Typed, TickTypes, Ticks
  <2> QED BY <2>1 DEF Typed, LoopTypes, EInv
<1>2. ASSUME NEW plan \in Plans, StartTick(plan) PROVE EInv'
  <2>1. loop.pc = "ready" /\ loop'.n = loop.n
    BY <1>1, <1>2 DEF StartTick, LoopAt, LoopTypes
  <2>2. \/ breaker' = breaker /\ blamed' = blamed
        \/ breaker'.streak = 0 /\ blamed' = {}
    BY <1>1, <1>2, EvaluatedType DEF StartTick, FreshBreaker
  <2>3. StreakCountsTicks' /\ blamed' \subseteq blamed
    BY <1>1, <2>2, FS_EmptySet DEF StreakCountsTicks
  <2>4. \A j \in blamed : j < loop.n
    BY <1>1, <2>1 DEF Blameable
  <2> QED BY <2>1, <2>3, <2>4 DEF EInv, Blameable
<1>3. ASSUME NEW k \in Ticks, TickStep(k) PROVE EInv'
  <2>1. /\ loop.pc = "running" /\ loop.n = k
        /\ loop' = loop \/ (loop'.n = k /\ loop'.pc = "touch")
    BY <1>1, <1>3, TicksLoop
  <2>2. CASE Block(k) \/ Skip(k) \/ Succeed(k) \/ Fail(k)
    <3>1. /\ tick[k].pc \in {"evaluated", "decided", "calling"} /\ tick'[k].pc = "executed"
          /\ \E s \in Statuses : Report(k, s, tick[k].at)
          /\ loop' = loop
      BY <1>1, <2>2 DEF Block, Skip, Succeed, Fail, TickAt, TickTypes, Statuses
    <3>2. k \notin blamed
      BY <1>1, <2>1, <3>1 DEF Blameable
    <3>3. StreakCountsTicks' /\ blamed' \subseteq blamed \union {k}
      BY <1>1, <3>1, <3>2, ReportCounts
    <3> QED BY <1>1, <2>1, <3>1, <3>3 DEF EInv, Blameable
  <2>3. CASE ~(Block(k) \/ Skip(k) \/ Succeed(k) \/ Fail(k))
    <3>1. UNCHANGED <<breaker, blamed>>
      BY <1>3, <2>3 DEF TickStep, EvaluateSafety, Decide, Send, Backoff, Retry, FinishTick,
          Settle, seen
    <3>2. tick[k].pc \in {"executed", "finishing", "done"} =>
             tick'[k].pc \in {"executed", "finishing", "done"}
      BY <1>1, <1>3, <2>3 DEF TickStep, EvaluateSafety, Decide, Send, Backoff, Retry,
          FinishTick, Settle, TickAt, TickTypes
    <3> QED BY <1>1, <2>1, <3>1, <3>2 DEF EInv, StreakCountsTicks, Blameable
  <2> QED BY <2>2, <2>3
<1>4. CASE TimeOut
  <2>1. /\ tick[loop.n].pc = "calling" /\ loop.pc = "running"
        /\ loop'.n = loop.n /\ loop'.pc = "timedOut"
        /\ UNCHANGED <<tick, breaker, blamed>>
    BY <1>1, <1>4 DEF TimeOut, LoopAt, LoopTypes, seen
  <2> QED BY <1>1, <2>1 DEF EInv, StreakCountsTicks, Blameable
<1>5. CASE AfterError
  <2>1. /\ loop.pc \in {"timedOut", "erring"} /\ tick' = tick
        /\ loop'.n = loop.n /\ loop'.pc = "touch"
    BY <1>1, <1>5 DEF AfterError, LoopAt, LoopTypes
  <2>2. CASE loop.pc = "timedOut"
    <3>1. loop.n \notin blamed /\ Report(loop.n, "failed", now)
      BY <1>1, <1>5, <2>2 DEF AfterError, Blameable
    <3>2. StreakCountsTicks' /\ blamed' \subseteq blamed \union {loop.n}
      BY <1>1, <3>1, ReportCounts DEF Statuses
    <3> QED BY <1>1, <2>1, <3>2 DEF EInv, Blameable
  <2>3. CASE loop.pc # "timedOut"
    <3>1. UNCHANGED <<breaker, blamed>>
      BY <1>5, <2>3 DEF AfterError
    <3> QED BY <1>1, <2>1, <3>1 DEF EInv, StreakCountsTicks, Blameable
  <2> QED BY <2>2, <2>3
<1>6. CASE Touch \/ TouchFails \/ Die \/ Release
  <2>1. UNCHANGED <<tick, breaker, blamed>>
    BY <1>6 DEF Touch, TouchFails, Die, Release, seen
  <2>2. \/ loop'.n = loop.n /\ loop'.pc \notin {"ready", "running", "timedOut"}
        \/ loop'.n = loop.n + 1
    BY <1>1, <1>6 DEF Touch, TouchFails, Die, Release, LoopAt, LoopTypes
  <2>3. \A j \in blamed : j <= loop.n
    BY <1>1 DEF Blameable
  <2> QED BY <1>1, <2>1, <2>2, <2>3 DEF EInv, StreakCountsTicks, Blameable
<1>7. CASE RejectAppend
  <2>1. UNCHANGED <<breaker, blamed>> /\ loop'.n = loop.n /\ loop'.pc \in {"release", "erring"}
    BY <1>1, <1>7, RejectsAwaited DEF RejectAppend, seen
  <2>2. \A j \in blamed : j <= loop.n
    BY <1>1 DEF Blameable
  <2> QED BY <1>1, <2>1, <2>2 DEF EInv, StreakCountsTicks, Blameable
<1>8. CASE Advance \/ UNCHANGED vars
  BY <1>1, <1>8 DEF Advance, vars, seen, EInv, StreakCountsTicks, Blameable
<1> QED BY <1>2, <1>3, <1>4, <1>5, <1>6, <1>7, <1>8 DEF Next, LoopStep

\* A tick weighs one failure at most in the streak that opens the breaker, if
\* ticks that timed out stay silent.
THEOREM StreakIsTicks == ASSUME ~Late PROVE Spec => []StreakCountsTicks
<1>1. Init => EInv
  BY FS_EmptySet DEF Init, EInv, StreakCountsTicks, FreshBreaker
<1>2. OInv /\ EInv /\ [Next]_vars => EInv'
  BY EInvStep
<1>3. EInv => StreakCountsTicks
  BY DEF EInv
<1> QED BY <1>1, <1>2, <1>3, OInvAlways, PTL DEF Spec

-----------------------------------------------------------------------------
(* Ticks that answer late *)

\* A tick reports once when it has executed, and once when the loop gives it up.
Executed(j) == tick[j].pc \in {"executed", "finishing", "done"}
GivenUp(j) == j < loop.n \/ (j = loop.n /\ loop.pc \notin {"ready", "running", "timedOut"})

\* The blamed ticks that may weigh another failure.
Light == {j \in blamed : ~(Executed(j) /\ GivenUp(j))}

FInv ==
    /\ \A j \in blamed : Executed(j) \/ GivenUp(j)
    /\ breaker.streak + Cardinality(Light) <= 2 * Cardinality(blamed)

\* Tick k reports, and will not report in this way again.
LEMMA ReportWeighs ==
    ASSUME NEW k \in Ticks, NEW s \in Statuses, NEW t \in Nat, breaker \in Breakers,
           blamed \subseteq Ticks, FInv, Report(k, s, t),
           ~(Executed(k) /\ GivenUp(k)), Executed(k)' \/ GivenUp(k)',
           k \in blamed => (Executed(k) /\ GivenUp(k))',
           \A j \in Ticks : (Executed(j) => Executed(j)') /\ (GivenUp(j) => GivenUp(j)')
    PROVE  FInv'
<1>1. /\ breaker'.streak \in Nat /\ breaker.streak \in Nat
      /\ breaker'.streak <= breaker.streak + 1
      /\ breaker' \in Breakers /\ blamed' \subseteq blamed \union {k}
  BY Blamed, StreakGrows, RecordedType DEF Report, Breakers
<1>2. /\ Light \subseteq Ticks /\ Light' \subseteq Ticks /\ blamed' \subseteq Ticks
      /\ Light' \subseteq Light \union {k}
      /\ k \in blamed => k \in Light /\ Light' \subseteq Light \ {k}
  BY <1>1 DEF Light
<1>3. /\ Cardinality(blamed) \in Nat /\ Cardinality(Light) \in Nat
      /\ Cardinality(blamed') \in Nat /\ Cardinality(Light') \in Nat
      /\ IsFiniteSet(blamed) /\ IsFiniteSet(Light) /\ IsFiniteSet(Light')
  BY <1>1, <1>2, BlamedFinite
<1>4. /\ Cardinality({}) = 0 /\ Cardinality({k}) = 1
  BY FS_EmptySet, FS_Singleton
<1>5. \A j \in blamed' : (Executed(j) \/ GivenUp(j))'
  BY <1>1 DEF FInv
<1>6. breaker'.streak + Cardinality(Light') <= 2 * Cardinality(blamed')
  <2>1. CASE breaker'.streak = 0 /\ blamed' = {}
    <3>1. Light' = {}
      BY <2>1 DEF Light
    <3> QED BY <1>4, <2>1, <3>1
  <2>2. CASE breaker'.streak = 1 /\ blamed' = {k}
    <3>1. Light' = {} \/ Light' = {k}
      BY <2>2 DEF Light
    <3> QED BY <1>4, <2>2, <3>1
  <2>3. CASE blamed' = blamed \union {k} /\ k \in blamed
    <3>1. blamed' = blamed /\ IsFiniteSet(Light \ {k})
      BY <1>3, <2>3, FS_RemoveElement
    <3>2. /\ Cardinality(Light \ {k}) = Cardinality(Light) - 1
      BY <1>2, <1>3, <2>3, FS_RemoveElement
    <3>3. Cardinality(Light') <= Cardinality(Light \ {k})
      BY <1>2, <2>3, <3>1, FS_Subset
    <3> QED BY <1>1, <1>3, <3>1, <3>2, <3>3 DEF FInv
  <2>4. CASE blamed' = blamed \union {k} /\ k \notin blamed
    <3>1. Cardinality(blamed') = Cardinality(blamed) + 1
      BY <1>3, <2>4, FS_AddElement
    <3>2. /\ IsFiniteSet(Light \union {k})
          /\ Cardinality(Light \union {k}) = Cardinality(Light) + 1
      <4>1. k \notin Light
        BY <2>4 DEF Light
      <4> QED BY <4>1, <1>3, FS_AddElement
    <3>3. Cardinality(Light') <= Cardinality(Light \union {k})
      BY <1>2, <3>2, FS_Subset
    <3> QED BY <1>1, <1>3, <3>1, <3>2, <3>3 DEF FInv
  <2>5. CASE blamed' = blamed /\ breaker'.streak <= breaker.streak
    <3>1. Light' \subseteq Light
      BY <2>5 DEF Light
    <3>2. Cardinality(Light') <= Cardinality(Light)
      BY <1>3, <3>1, FS_Subset
    <3> QED BY <1>1, <1>3, <2>5, <3>2 DEF FInv
  <2>6. \/ breaker'.streak = 0 /\ blamed' = {}
        \/ breaker'.streak = 1 /\ blamed' = {k}
        \/ blamed' = blamed \union {k}
        \/ blamed' = blamed /\ breaker'.streak <= breaker.streak
    BY <1>1 DEF Report
  <2> QED BY <2>1, <2>2, <2>3, <2>4, <2>5, <2>6
<1> QED BY <1>5, <1>6 DEF FInv

\* Nobody reports; the breaker may close and the blame with it.
LEMMA NoReportWeighs ==
    ASSUME blamed \subseteq Ticks, breaker \in Breakers, FInv,
           \/ UNCHANGED <<breaker, blamed>>
           \/ breaker'.streak = 0 /\ blamed' = {},
           \A j \in blamed : (Executed(j) => Executed(j)') /\ (GivenUp(j) => GivenUp(j)')
    PROVE  FInv'
<1>1. CASE UNCHANGED <<breaker, blamed>>
  <2>1. Light' \subseteq Light /\ Light \subseteq Ticks
    BY <1>1 DEF Light
  <2>2. Light' \subseteq Ticks
    BY <2>1
  <2>3. /\ Cardinality(Light') <= Cardinality(Light)
        /\ Cardinality(Light) \in Nat /\ Cardinality(Light') \in Nat
        /\ Cardinality(blamed) \in Nat
    BY <2>1, <2>2, BlamedFinite, FS_Subset
  <2>4. breaker'.streak + Cardinality(Light') <= 2 * Cardinality(blamed')
    BY <1>1, <2>3 DEF FInv, Breakers
  <2> QED BY <1>1, <2>4 DEF FInv
<1>2. CASE breaker'.streak = 0 /\ blamed' = {}
  <2>1. Light' = {}
    BY <1>2 DEF Light
  <2> QED BY <1>2, <2>1, FS_EmptySet DEF FInv
<1> QED BY <1>1, <1>2

LEMMA FInvStep == OInv /\ FInv /\ [Next]_vars => FInv'
<1> SUFFICES ASSUME OInv, FInv, [Next]_vars PROVE FInv'
  OBVIOUS
<1>1. /\ Typed /\ loop.n \in Ticks /\ loop \in LoopTypes
      /\ tick \in [Ticks -> TickTypes] /\ now \in Nat /\ breaker \in Breakers
      /\ blamed \subseteq Ticks
      /\ \A k \in Ticks : tick[k].at \in Nat /\ k \in Int
  <2>1. Typed /\ now \in Nat /\ \A k \in Ticks : tick[k].at \in Nat /\ k \in Int
    BY LoopAssumption DEF OInv, Typed, TickTypes, Ticks
  <2> QED BY <2>1 DEF Typed, LoopTypes
<1>2. ASSUME NEW plan \in Plans, StartTick(plan) PROVE FInv'
  <2>1. /\ loop.pc = "ready" /\ loop'.n = loop.n
        /\ \A j \in Ticks \ {loop.n} : tick'[j] = tick[j]
    BY <1>1, <1>2 DEF StartTick, LoopAt, LoopTypes
  <2>2. \/ breaker' = breaker /\ blamed' = blamed
        \/ breaker'.streak = 0 /\ blamed' = {}
    BY <1>1, <1>2, EvaluatedType DEF StartTick, FreshBreaker
  <2>3. loop.n \notin blamed
    BY <1>1, <2>1 DEF FInv, Executed, GivenUp, OInv, NotBegun
  <2>4. \A j \in blamed : (Executed(j) => Executed(j)') /\ (GivenUp(j) => GivenUp(j)')
    BY <1>1, <2>1, <2>3 DEF Executed, GivenUp
  <2> QED BY <1>1, <2>2, <2>4, NoReportWeighs
<1>3. ASSUME NEW k \in Ticks, TickStep(k) PROVE FInv'
  <2>1. /\ loop' = loop \/ (loop'.n = loop.n /\ loop'.pc = "touch")
        /\ Executed(k) => Executed(k)'
        /\ \A j \in Ticks \ {k} : tick'[j] = tick[j]
    <3>1. /\ loop' = loop \/ LoopAt("touch")
          /\ Executed(k) => Executed(k)'
      BY <1>1, <1>3 DEF TickStep, EvaluateSafety, Block, Decide, Skip, Send, Succeed, Fail,
          Backoff, Retry, FinishTick, Settle, TickAt, TickTypes, Executed
    <3> QED BY <1>1, <1>3, <3>1, TickQueues DEF LoopAt, LoopTypes
  <2>2. \A j \in Ticks : (Executed(j) => Executed(j)') /\ (GivenUp(j) => GivenUp(j)')
    BY <1>1, <2>1 DEF Executed, GivenUp
  <2>3. CASE Block(k) \/ Skip(k) \/ Succeed(k) \/ Fail(k)
    <3>1. /\ ~Executed(k) /\ Executed(k)'
          /\ \E s \in Statuses : Report(k, s, tick[k].at)
      BY <1>1, <2>3 DEF Block, Skip, Succeed, Fail, TickAt, TickTypes, Statuses, Executed
    <3>2. k \in blamed => GivenUp(k)'
      BY <2>2, <3>1 DEF FInv
    <3> QED BY <1>1, <2>2, <3>1, <3>2, ReportWeighs
  <2>4. CASE ~(Block(k) \/ Skip(k) \/ Succeed(k) \/ Fail(k))
    <3>1. UNCHANGED <<breaker, blamed>>
      BY <1>3, <2>4 DEF TickStep, EvaluateSafety, Decide, Send, Backoff, Retry, FinishTick,
          Settle, seen
    <3> QED BY <1>1, <2>2, <3>1, NoReportWeighs
  <2> QED BY <2>3, <2>4
<1>4. CASE AfterError /\ loop.pc = "timedOut"
  <2>1. PICK n \in Ticks : n = loop.n
    BY <1>1
  <2>2. /\ tick' = tick /\ loop'.n = n /\ loop'.pc = "touch"
        /\ Report(n, "failed", now) /\ "failed" \in Statuses
    BY <1>1, <1>4, <2>1 DEF AfterError, LoopAt, LoopTypes, Statuses
  <2>3. \A j \in Ticks : (Executed(j) => Executed(j)') /\ (GivenUp(j) => GivenUp(j)')
    BY <1>1, <2>1, <2>2 DEF Executed, GivenUp
  <2>4. ~GivenUp(n) /\ GivenUp(n)'
    BY <1>1, <1>4, <2>1, <2>2 DEF GivenUp
  <2>5. n \in blamed => Executed(n)'
    BY <2>3, <2>4 DEF FInv
  <2> QED BY <1>1, <2>2, <2>3, <2>4, <2>5, ReportWeighs
<1>5. CASE LoopStep /\ ~(AfterError /\ loop.pc = "timedOut")
  <2>1. UNCHANGED <<tick, breaker, blamed>>
    BY <1>5 DEF LoopStep, TimeOut, AfterError, Touch, TouchFails, Die, Release, seen
  <2>2. \/ /\ loop'.n = loop.n
           /\ \/ loop'.pc \notin {"ready", "running", "timedOut"}
              \/ loop.pc = "running"
        \/ loop'.n = loop.n + 1
    BY <1>1, <1>5 DEF LoopStep, TimeOut, AfterError, Touch, TouchFails, Die, Release, LoopAt,
                      LoopTypes
  <2>3. \A j \in blamed : (Executed(j) => Executed(j)') /\ (GivenUp(j) => GivenUp(j)')
    BY <1>1, <2>1, <2>2 DEF Executed, GivenUp
  <2> QED BY <1>1, <2>1, <2>3, NoReportWeighs
<1>6. CASE RejectAppend
  <2>1. UNCHANGED <<breaker, blamed>>
    BY <1>6 DEF RejectAppend, seen
  <2>2. /\ loop' = loop \/ (loop'.n = loop.n /\ loop'.pc \in {"release", "erring"})
        /\ \A j \in Ticks : tick'[j] = tick[j] \/ tick'[j].pc = "done"
    BY <1>1, <1>6 DEF RejectAppend, LoopAt, TickAt, LoopTypes, TickTypes
  <2>3. \A j \in blamed : (Executed(j) => Executed(j)') /\ (GivenUp(j) => GivenUp(j)')
    BY <1>1, <2>1, <2>2 DEF Executed, GivenUp
  <2> QED BY <1>1, <2>1, <2>3, NoReportWeighs
<1>7. CASE Advance \/ UNCHANGED vars
  <2>1. UNCHANGED <<breaker, blamed, tick, loop>>
    BY <1>7 DEF Advance, vars, seen
  <2> QED BY <1>1, <2>1, NoReportWeighs DEF Executed, GivenUp
<1> QED BY <1>2, <1>3, <1>4, <1>5, <1>6, <1>7 DEF Next

\* A tick weighs two failures at most, its timeout and its own, also when ticks
\* that timed out answer late.
THEOREM TicksWeighTwo == Spec => []TicksWeighTwoAtMost
<1>1. Init => FInv
  <2>1. Init => Light = {}
    BY DEF Init, Light
  <2>2. Init => breaker.streak = 0 /\ blamed = {}
    BY DEF Init, FreshBreaker
  <2> QED BY <2>1, <2>2, FS_EmptySet DEF FInv
<1>2. OInv /\ FInv => TicksWeighTwoAtMost
  <2> SUFFICES ASSUME OInv, FInv PROVE TicksWeighTwoAtMost
    OBVIOUS
  <2>1. blamed \subseteq Ticks /\ Light \subseteq Ticks /\ breaker.streak \in Nat
    BY DEF OInv, Typed, Light, Breakers
  <2>2. Cardinality(blamed) \in Nat /\ Cardinality(Light) \in Nat
    BY <2>1, BlamedFinite
  <2> QED BY <2>1, <2>2 DEF FInv, TicksWeighTwoAtMost
<1> QED BY <1>1, <1>2, FInvStep, OInvAlways, PTL DEF Spec

-----------------------------------------------------------------------------
(* Every tick is closed in the log *)

\* The loop has one record in the queue at most, of its own tick, which it awaits.
LoopFits(q, n) ==
    /\ \A i \in DOMAIN q : q[i].by = TheLoop => q[i].tick = n /\ q[i].event = "tick_error"
    /\ \A i, j \in DOMAIN q : q[i].by = TheLoop /\ q[j].by = TheLoop => i = j

LoopAbsent(q) == \A i \in DOMAIN q : q[i].by # TheLoop

LInv ==
    /\ LoopFits(queue, loop.n)
    /\ loop.pc \notin {"timedOut", "erring", "dying"} => LoopAbsent(queue)

LEMMA LoopJoins ==
    ASSUME NEW q \in Seq(Records), NEW n \in Ticks, NEW k \in Ticks, NEW e \in Events
    PROVE  /\ LoopAbsent(q) => LoopAbsent(Append(q, Entry(k, k, e)))
           /\ LoopFits(q, n) => LoopFits(Append(q, Entry(k, k, e)), n)
           /\ LoopAbsent(q) => LoopFits(q, n)
           /\ LoopAbsent(q) => LoopFits(Append(q, Entry(TheLoop, n, "tick_error")), n)
<1>1. /\ Entry(k, k, e) \in Records /\ Entry(k, k, e).by # TheLoop
      /\ Entry(TheLoop, n, "tick_error") \in Records
      /\ Entry(TheLoop, n, "tick_error").tick = n
      /\ Entry(TheLoop, n, "tick_error").event = "tick_error"
  BY Entered, EventsAre DEF Entry, Ticks, TheLoop
<1>2. ASSUME NEW r \in Records
      PROVE  /\ Append(q, r)[Len(q) + 1] = r
             /\ \A i \in DOMAIN q : Append(q, r)[i] = q[i]
             /\ \A i \in DOMAIN Append(q, r) : i \in DOMAIN q \/ i = Len(q) + 1
  BY Longer
<1>3. LoopAbsent(q) => LoopAbsent(Append(q, Entry(k, k, e)))
  BY <1>1, <1>2 DEF LoopAbsent
<1>4. LoopFits(q, n) => LoopFits(Append(q, Entry(k, k, e)), n)
  BY <1>1, <1>2 DEF LoopFits
<1>5. LoopAbsent(q) => LoopFits(q, n)
  BY DEF LoopAbsent, LoopFits
<1>6. LoopAbsent(q) => LoopFits(Append(q, Entry(TheLoop, n, "tick_error")), n)
  BY <1>1, <1>2 DEF LoopAbsent, LoopFits
<1> QED BY <1>3, <1>4, <1>5, <1>6

LEMMA LoopLeaves ==
    ASSUME NEW q \in Seq(Records), q # <<>>, NEW n \in Ticks
    PROVE  /\ LoopAbsent(q) => LoopAbsent(Tail(q))
           /\ LoopFits(q, n) => LoopFits(Tail(q), n)
           /\ LoopFits(q, n) /\ Head(q).by = TheLoop => LoopAbsent(Tail(q))
<1> DEFINE p == Tail(q)
<1>1. /\ Head(q) = q[1] /\ 1 \in DOMAIN q
      /\ \A i \in DOMAIN p : i \in Nat /\ i + 1 \in DOMAIN q /\ p[i] = q[i + 1] /\ i + 1 # 1
  BY HeadTailProperties
<1> HIDE DEF p
<1>2. LoopAbsent(q) => LoopAbsent(p)
  BY <1>1 DEF LoopAbsent
<1>3. LoopFits(q, n) => LoopFits(p, n)
  <2> SUFFICES ASSUME LoopFits(q, n) PROVE LoopFits(p, n)
    OBVIOUS
  <2>1. \A i \in DOMAIN p : p[i].by = TheLoop => p[i].tick = n /\ p[i].event = "tick_error"
    BY <1>1 DEF LoopFits
  <2>2. ASSUME NEW i \in DOMAIN p, NEW j \in DOMAIN p, p[i].by = TheLoop, p[j].by = TheLoop
        PROVE  i = j
    <3>1. i + 1 = j + 1
      BY <1>1, <2>2 DEF LoopFits
    <3> QED BY <1>1, <3>1
  <2> QED BY <2>1, <2>2 DEF LoopFits
<1>4. LoopFits(q, n) /\ Head(q).by = TheLoop => LoopAbsent(p)
  BY <1>1 DEF LoopFits, LoopAbsent
<1> QED BY <1>2, <1>3, <1>4 DEF p

LEMMA LInvStep == OInv /\ LInv /\ [Next]_vars => LInv'
<1> SUFFICES ASSUME OInv, LInv, [Next]_vars PROVE LInv'
  OBVIOUS
<1>1. PICK n \in Ticks : n = loop.n
  BY DEF OInv, Typed, LoopTypes
<1>2. Typed /\ queue \in Seq(Records) /\ loop \in LoopTypes /\ LoopFits(queue, n)
  BY <1>1 DEF OInv, Typed, LInv
<1>3. ASSUME NEW plan \in Plans, StartTick(plan) PROVE LInv'
  <2>1. /\ LoopAbsent(queue) /\ loop'.n = n /\ loop'.pc \in {"erring", "running"}
        /\ \/ /\ loop'.pc = "erring" /\ queue' = Append(queue, Entry(TheLoop, n, "tick_error"))
           \/ queue' = Append(queue, Entry(n, n, "tick_started"))
    BY <1>1, <1>2, <1>3 DEF StartTick, EmitFirst, LInv, LoopAt, LoopTypes
  <2>2. LoopFits(Append(queue, Entry(TheLoop, n, "tick_error")), n)
    BY <1>2, <2>1, LoopJoins, EventsAre
  <2>3. /\ LoopAbsent(Append(queue, Entry(n, n, "tick_started")))
        /\ LoopFits(Append(queue, Entry(n, n, "tick_started")), n)
    BY <1>2, <2>1, LoopJoins, EventsAre
  <2> QED BY <2>1, <2>2, <2>3 DEF LInv
<1>4. ASSUME NEW k \in Ticks, TickStep(k) PROVE LInv'
  <2>1. loop' = loop \/ (loop.pc = "running" /\ loop'.pc = "touch" /\ loop'.n = n)
    BY <1>1, <1>2, <1>4
       DEF TickStep, EvaluateSafety, Block, Decide, Skip, Send, Succeed, Fail, Backoff, Retry,
           FinishTick, Settle, Awaited, LoopAt, LoopTypes
  <2>2. /\ LoopFits(queue', n)
        /\ LoopAbsent(queue) => LoopAbsent(queue')
    <3>1. CASE Written(k) /\ Quiet
      BY <1>2, <3>1, LoopLeaves DEF Written, Quiet
    <3>2. ASSUME NEW e \in Events, Written(k), Emit(k, k, e)
          PROVE  LoopFits(queue', n) /\ (LoopAbsent(queue) => LoopAbsent(queue'))
      <4>1. queue # <<>> /\ Tail(queue) \in Seq(Records)
        BY <1>2, <3>2, TailOfQueue DEF Written
      <4>2. LoopFits(Tail(queue), n) /\ (LoopAbsent(queue) => LoopAbsent(Tail(queue)))
        BY <1>2, <4>1, LoopLeaves
      <4> QED BY <3>2, <4>1, <4>2, LoopJoins DEF Emit
    <3>3. ASSUME NEW e \in Events, EmitFirst(k, k, e)
          PROVE  LoopFits(queue', n) /\ (LoopAbsent(queue) => LoopAbsent(queue'))
      BY <1>2, <3>3, LoopJoins DEF EmitFirst
    <3>4. CASE UNCHANGED queue
      BY <1>2, <3>4
    <3> QED BY <1>2, <1>4, <3>1, <3>2, <3>3, <3>4, TickQueues
  <2> QED BY <1>1, <2>1, <2>2 DEF LInv
<1>5. CASE TimeOut \/ TouchFails
  <2>1. /\ LoopAbsent(queue) /\ loop'.n = n /\ loop'.pc \in {"timedOut", "dying"}
        /\ queue' = Append(queue, Entry(TheLoop, n, "tick_error"))
    BY <1>1, <1>2, <1>5 DEF TimeOut, TouchFails, EmitFirst, LInv, LoopAt, LoopTypes
  <2> QED BY <1>2, <2>1, LoopJoins, EventsAre DEF LInv
<1>6. CASE AfterError \/ Die
  <2>1. /\ queue # <<>> /\ Head(queue).by = TheLoop /\ queue' = Tail(queue)
        /\ loop'.n = n
    BY <1>1, <1>2, <1>6 DEF AfterError, Die, Written, Quiet, LoopAt, LoopTypes
  <2>2. LoopAbsent(queue') /\ LoopFits(queue', n)
    BY <1>2, <2>1, LoopLeaves
  <2> QED BY <2>1, <2>2 DEF LInv
<1>7. CASE Touch \/ Release
  <2>1. queue' = queue /\ LoopAbsent(queue)
    BY <1>7 DEF Touch, Release, LInv, logging
  <2> QED BY <2>1 DEF LInv, LoopAbsent, LoopFits
<1>8. CASE RejectAppend
  <2>1. queue # <<>> /\ Tail(queue) \in Seq(Records)
    BY <1>2, <1>8, TailOfQueue DEF RejectAppend
  <2>2. LoopFits(Tail(queue), n) /\ (LoopAbsent(queue) => LoopAbsent(Tail(queue)))
    BY <1>2, <2>1, LoopLeaves
  <2>3. CASE Head(queue).by = TheLoop
    <3>1. queue' = Tail(queue) /\ loop'.n = n
      BY <1>1, <1>2, <1>8, <2>3 DEF RejectAppend, Quiet, LoopAt, LoopTypes
    <3>2. LoopAbsent(Tail(queue))
      BY <1>2, <2>1, <2>3, LoopLeaves
    <3> QED BY <2>2, <3>1, <3>2 DEF LInv
  <2>4. CASE Head(queue).by # TheLoop /\ Awaited(Head(queue).by)
    <3>1. /\ LoopAbsent(queue) /\ loop'.n = n /\ loop'.pc = "erring"
          /\ queue' = Append(Tail(queue), Entry(TheLoop, n, "tick_error"))
      BY <1>1, <1>2, <1>8, <2>4
         DEF RejectAppend, Awaited, Emit, LInv, LoopAt, LoopTypes
    <3> QED BY <2>1, <2>2, <3>1, LoopJoins, EventsAre DEF LInv
  <2>5. CASE Head(queue).by # TheLoop /\ ~Awaited(Head(queue).by)
    BY <1>1, <1>8, <2>2, <2>5 DEF RejectAppend, Quiet, LInv
  <2> QED BY <2>3, <2>4, <2>5
<1>9. CASE Advance \/ UNCHANGED vars
  BY <1>9 DEF Advance, vars, logging, LInv
<1> QED BY <1>3, <1>4, <1>5, <1>6, <1>7, <1>8, <1>9 DEF Next, LoopStep

Terminated(s) ==
    \E i \in DOMAIN s : s[i] \in {"tick_finished", "tick_error", "tick_blocked"}

Behind(k) ==
    k < loop.n \/ (k = loop.n /\ loop.pc \in {"touch", "dying", "release", "down"})

Ahead(k) == k > loop.n \/ (k = loop.n /\ loop.pc = "ready")

GInv ==
    /\ \A k \in Ticks : Ahead(k) => log[k] = <<>>
    /\ ~broken => \A k \in Ticks : Behind(k) => Terminated(log[k])

\* What is written is about a tick that has begun.
LEMMA WrittenAbout ==
    ASSUME OInv, LInv, NEW who \in Ticks \union {TheLoop}, Written(who)
    PROVE  /\ who \in Ticks => Head(queue).tick = who /\ ~Ahead(who)
           /\ who = TheLoop => /\ Head(queue).tick = loop.n
                               /\ Head(queue).event = "tick_error"
                               /\ loop.pc \in {"timedOut", "erring", "dying"}
           /\ \A k \in Ticks : Ahead(k) => log'[k] = log[k]
<1>1. queue \in Seq(Records) /\ loop \in LoopTypes /\ log \in [Ticks -> Seq(Events)]
  BY DEF OInv, Typed
<1>2. /\ queue # <<>> /\ Head(queue) = queue[1] /\ 1 \in DOMAIN queue
      /\ Head(queue).by = who
  BY <1>1, HeadTailProperties DEF Written
<1>3. ASSUME who \in Ticks PROVE Head(queue).tick = who /\ ~Ahead(who)
  <2>1. Head(queue).tick = who /\ Awaits(tick[who], Head(queue).event)
    BY <1>3, WhatIsWritten
  <2>2. tick[who].pc # "none"
    BY <2>1 DEF Awaits, Pending
  <2> QED BY <1>3, <2>1, <2>2 DEF OInv, NotBegun, Ahead
<1>4. ASSUME who = TheLoop
      PROVE  /\ Head(queue).tick = loop.n /\ Head(queue).event = "tick_error"
             /\ loop.pc \in {"timedOut", "erring", "dying"}
  BY <1>2, <1>4 DEF LInv, LoopFits, LoopAbsent
<1>5. ~Ahead(Head(queue).tick)
  <2>1. CASE who = TheLoop
    <3>1. loop.n \in Ticks
      BY <1>1 DEF LoopTypes
    <3> QED BY <1>4, <2>1, <3>1 DEF Ahead, Ticks
  <2> QED BY <1>3, <2>1
<1>6. \A k \in Ticks : k # Head(queue).tick => log'[k] = log[k]
  BY <1>1, WrittenType
<1> QED BY <1>3, <1>4, <1>5, <1>6

LEMMA GInvStep == OInv /\ LInv /\ GInv /\ [Next]_vars => GInv'
<1> SUFFICES ASSUME OInv, LInv, GInv, [Next]_vars PROVE GInv'
  OBVIOUS
<1>1. PICK n \in Ticks : n = loop.n
  BY DEF OInv, Typed, LoopTypes
<1>2. /\ Typed /\ queue \in Seq(Records) /\ loop \in LoopTypes
      /\ log \in [Ticks -> Seq(Events)] /\ \A k \in Ticks : k \in Int
  BY DEF OInv, Typed, Ticks
<1>3. \A k \in Ticks : Terminated(log[k]) => Terminated(log'[k])
  BY <1>2, LogGrows DEF Terminated
<1>4. \A s \in Seq(Events), e \in {"tick_finished", "tick_error"} \intersect Events :
         Terminated(Append(s, e))
  BY Longer DEF Terminated
<1>5. \A k \in Ticks : Ahead(k) => log'[k] = log[k]
  <2>1. log' = log \/ \E who \in Ticks \union {TheLoop} : Written(who)
    BY DEF Next, StartTick, TickStep, EvaluateSafety, Block, Decide, Skip, Send, Succeed, Fail,
           Backoff, Retry, FinishTick, Settle, LoopStep, TimeOut, AfterError, Touch,
           TouchFails, Die, Release, RejectAppend, Advance, vars, logging, EmitFirst
  <2> QED BY <2>1, WrittenAbout
<1>6. SUFFICES /\ \A k \in Ticks : Ahead(k)' => Ahead(k)
               /\ broken \/ broken' \/
                  \A k \in Ticks : Behind(k)' => Behind(k) \/ Terminated(log'[k])
  <2>1. broken => broken'
    BY DEF Next, StartTick, TickStep, EvaluateSafety, Block, Decide, Skip, Send, Succeed, Fail,
           Backoff, Retry, FinishTick, Settle, LoopStep, TimeOut, AfterError, Touch,
           TouchFails, Die, Release, RejectAppend, Advance, vars, logging, EmitFirst, Written
  <2> QED BY <1>3, <1>5, <2>1 DEF GInv
<1>7. ASSUME NEW plan \in Plans, StartTick(plan)
      PROVE  /\ \A k \in Ticks : Ahead(k)' => Ahead(k)
             /\ \A k \in Ticks : Behind(k)' => Behind(k)
  BY <1>2, <1>7 DEF StartTick, LoopAt, LoopTypes, Ahead, Behind
<1>8. ASSUME NEW k \in Ticks, TickStep(k), ~(Settle(k) /\ Awaited(k))
      PROVE  /\ \A j \in Ticks : Ahead(j)' => Ahead(j)
             /\ \A j \in Ticks : Behind(j)' => Behind(j)
  BY <1>8 DEF TickStep, EvaluateSafety, Block, Decide, Skip, Send, Succeed, Fail, Backoff,
              Retry, FinishTick, Settle, Ahead, Behind
<1>9. ASSUME NEW k \in Ticks, Settle(k), Awaited(k)
      PROVE  /\ \A j \in Ticks : Ahead(j)' => Ahead(j)
             /\ \A j \in Ticks : Behind(j)' => Behind(j) \/ Terminated(log'[j])
  <2>1. k = n /\ loop'.n = n /\ loop'.pc = "touch" /\ tick[n].pc = "finishing" /\ Written(n)
    BY <1>1, <1>2, <1>9 DEF Settle, Awaited, LoopAt, LoopTypes
  <2>2. /\ Awaits(tick[n], Head(queue).event) /\ Head(queue).event \in Events
        /\ log'[n] = Append(log[n], Head(queue).event)
    BY <1>2, <2>1, WhatIsWritten
  <2>3. Terminated(log'[n])
    BY <1>2, <1>4, <2>1, <2>2 DEF Awaits, Pending
  <2> QED BY <1>1, <2>1, <2>3 DEF Ahead, Behind
<1>10. CASE AfterError
  <2>1. /\ loop'.n = n /\ loop'.pc = "touch" /\ Written(TheLoop)
    BY <1>1, <1>2, <1>10 DEF AfterError, LoopAt, LoopTypes
  <2>2. Head(queue).tick = n /\ Head(queue).event = "tick_error"
    BY <1>1, <2>1, WrittenAbout
  <2>3. log'[n] = Append(log[n], "tick_error")
    BY <1>2, <2>1, <2>2, WrittenType
  <2>4. Terminated(log'[n])
    BY <1>2, <1>4, <2>3, EventsAre
  <2> QED BY <1>1, <2>1, <2>4 DEF Ahead, Behind
<1>11. CASE LoopStep /\ ~AfterError
  BY <1>2, <1>11 DEF LoopStep, TimeOut, Touch, TouchFails, Die, Release, LoopAt, LoopTypes,
                     Ahead, Behind
<1>12. CASE RejectAppend
  BY <1>2, <1>12 DEF RejectAppend, LoopAt, LoopTypes, Ahead
<1>13. CASE Advance \/ UNCHANGED vars
  BY <1>13 DEF Advance, vars, Ahead, Behind
<1> QED BY <1>7, <1>8, <1>9, <1>10, <1>11, <1>12, <1>13 DEF Next

\* When the loop is down and the log was writable every tick that has a record of
\* its start has a terminal one, whatever timed out or answers late.
THEOREM EveryTickClosed == Spec => []TicksAreClosed
<1>1. Init => LInv /\ GInv
  BY DEF Init, LInv, GInv, LoopFits, LoopAbsent, Behind, Ticks
<1>2. OInv /\ GInv => TicksAreClosed
  <2> SUFFICES ASSUME OInv, GInv, loop.pc = "down", ~broken, NEW k \in Ticks
               PROVE  Closed(log[k])
    BY DEF TicksAreClosed
  <2>1. k \in Int /\ loop.n \in Int
    BY DEF OInv, Typed, LoopTypes, Ticks
  <2>2. CASE Behind(k)
    BY <2>2 DEF GInv, Terminated, Closed
  <2>3. CASE Ahead(k)
    BY <2>3 DEF GInv, Closed
  <2> QED BY <2>1, <2>2, <2>3 DEF Behind, Ahead
<1> QED BY <1>1, <1>2, LInvStep, GInvStep, OInvAlways, PTL DEF Spec

-----------------------------------------------------------------------------
(* The order of a tick's records *)

Seen(s) == {s[i] : i \in DOMAIN s}

Opening == {"tick_started", "safety_evaluated"}

\* What is in the log of a tick the loop awaits, and waits to be written.
Told(t, S) ==
    CASE t.pc = "started"    -> S = {}
      [] t.pc = "evaluated"  -> S = {"tick_started"}
      [] t.pc = "decided"    -> S = Opening
      [] t.pc \in {"calling", "backoff"} -> S = Opening \union {"decision_made"}
      [] t.pc = "executed"   ->
           S = Opening \union IF t.safe THEN {"decision_made"} ELSE {}
      [] t.pc = "finishing"  ->
           S = Opening \union IF t.safe THEN {"decision_made", "action_executed"}
                                        ELSE {"tick_blocked"}
      [] OTHER -> FALSE

HInv ==
    /\ \A k \in Ticks : Orderly(log[k])
    /\ ~broken /\ loop.pc = "running" => Told(tick[loop.n], Seen(log[loop.n]))
    /\ ~broken /\ loop.pc \in {"timedOut", "erring"} =>
          Seen(log[loop.n]) \intersect {"tick_finished", "tick_blocked"} = {}
    /\ loop.pc # "dying"

\* A record more, in order with those before it.
LEMMA OneMoreRecord ==
    ASSUME NEW s \in Seq(Events), Orderly(s), NEW e \in Events
    PROVE  /\ Seen(Append(s, e)) = Seen(s) \union {e}
           /\ Before(Append(s, e), Len(s) + 1) = Seen(s)
           /\ Append(s, e)[Len(s) + 1] = e
           /\ InOrder(Append(s, e), Len(s) + 1) => Orderly(Append(s, e))
<1> DEFINE p == Append(s, e)
           m == Len(s) + 1
<1>1. /\ m \in DOMAIN p /\ p[m] = e /\ m \in Nat
      /\ \A i \in DOMAIN s : i \in DOMAIN p /\ p[i] = s[i]
      /\ \A i \in DOMAIN p : i \in DOMAIN s \/ i = m
      /\ DOMAIN s = 1..(m - 1)
  BY Longer
<1> HIDE DEF p, m
<1>2. Seen(p) = Seen(s) \union {e}
  BY <1>1 DEF Seen
<1>3. Before(p, m) = Seen(s)
  BY <1>1 DEF Seen, Before
<1>4. ASSUME InOrder(p, m) PROVE Orderly(p)
  <2> SUFFICES ASSUME NEW i \in DOMAIN s PROVE InOrder(p, i)
    BY <1>1, <1>4 DEF Orderly
  <2>1. i \in Nat /\ \A j \in 1..(i - 1) : j \in DOMAIN s
    BY <1>1
  <2>2. Before(p, i) = Before(s, i) /\ p[i] = s[i]
    BY <1>1, <2>1 DEF Before
  <2>3. InOrder(s, i)
    BY DEF Orderly
  <2> QED BY <2>2, <2>3 DEF InOrder
<1> QED BY <1>1, <1>2, <1>3, <1>4 DEF p, m

\* A tick's record is in order with what it told before.
LEMMA TickInOrder ==
    ASSUME NEW t \in TickTypes, NEW s \in Seq(Events), Orderly(s), NEW e \in Events,
           Awaits(t, e), Told(t, Seen(s))
    PROVE  Orderly(Append(s, e)) /\ Seen(Append(s, e)) = Seen(s) \union {e}
<1>1. /\ Seen(Append(s, e)) = Seen(s) \union {e}
      /\ Before(Append(s, e), Len(s) + 1) = Seen(s)
      /\ Append(s, e)[Len(s) + 1] = e
      /\ InOrder(Append(s, e), Len(s) + 1) => Orderly(Append(s, e))
  BY OneMoreRecord
<1>2. CASE e = "tick_started"
  BY <1>1, <1>2 DEF InOrder, Told, Awaits, Pending
<1>3. CASE e = "safety_evaluated"
  BY <1>1, <1>3 DEF InOrder, Told, Awaits, Pending, Progressed
<1>4. CASE e = "decision_made"
  BY <1>1, <1>4 DEF InOrder, Told, Awaits, Pending, Progressed, Opening
<1>5. CASE e = "tick_blocked"
  BY <1>1, <1>5 DEF InOrder, Told, Awaits, Pending, Opening
<1>6. CASE e = "action_executed"
  BY <1>1, <1>6 DEF InOrder, Told, Awaits, Pending, Opening
<1>7. CASE e = "tick_finished"
  <2>1. t.pc = "finishing"
    BY <1>7 DEF Awaits, Pending
  <2>2. /\ {"tick_blocked", "action_executed"} \intersect Seen(s) # {}
        /\ "tick_finished" \notin Seen(s)
    BY <2>1 DEF Told, Opening
  <2> QED BY <1>1, <1>7, <2>2 DEF InOrder
<1> QED BY <1>1, <1>2, <1>3, <1>4, <1>5, <1>6, <1>7 DEF Awaits, Pending

\* A write by the awaited tick.
LEMMA AwaitedWrites ==
    ASSUME OInv, HInv, NEW n \in Ticks, n = loop.n, loop.pc = "running", Written(n)
    PROVE  /\ \A k \in Ticks : Orderly(log'[k])
           /\ Awaits(tick[n], Head(queue).event) /\ Told(tick[n], Seen(log[n]))
           /\ Seen(log'[n]) = Seen(log[n]) \union {Head(queue).event}
<1>1. /\ tick[n] \in TickTypes /\ log \in [Ticks -> Seq(Events)] /\ ~broken
      /\ Orderly(log[n]) /\ Told(tick[n], Seen(log[n]))
  BY DEF OInv, Typed, HInv, Written
<1>2. /\ Awaits(tick[n], Head(queue).event) /\ Head(queue).event \in Events
      /\ log' = [log EXCEPT ![n] = Append(@, Head(queue).event)]
  BY WhatIsWritten
<1>3. /\ Orderly(Append(log[n], Head(queue).event))
      /\ Seen(Append(log[n], Head(queue).event)) = Seen(log[n]) \union {Head(queue).event}
  BY <1>1, <1>2, TickInOrder
<1> QED BY <1>1, <1>2, <1>3 DEF HInv

LEMMA HInvTick ==
    ASSUME ~Late, OInv, HInv, NEW k \in Ticks, TickStep(k) PROVE HInv'
<1>1. /\ Typed /\ loop.pc = "running" /\ loop.n = k
      /\ loop' = loop \/ (loop'.n = k /\ loop'.pc = "touch")
      /\ tick \in [Ticks -> TickTypes] /\ Passed(tick[k]) /\ \A j \in Ticks : Orderly(log[j])
  BY TicksLoop DEF OInv, Typed, HInv
<1>2. \A label : TickAt(k, label) => tick'[k].pc = label /\ tick'[k].safe = tick[k].safe
  BY <1>1 DEF TickAt, TickTypes
<1> SUFFICES /\ \A j \in Ticks : Orderly(log'[j])
             /\ ~broken' /\ loop'.pc = "running" => Told(tick'[k], Seen(log'[k]))
  BY <1>1 DEF HInv
<1>3. CASE EvaluateSafety(k) \/ Decide(k) \/ Send(k)
  <2>1. /\ Written(k) /\ tick'[k].safe = tick[k].safe
        /\ <<tick[k].pc, tick'[k].pc>> \in
              {<<"started", "evaluated">>, <<"evaluated", "decided">>, <<"decided", "calling">>}
    BY <1>1, <1>2, <1>3 DEF EvaluateSafety, Decide, Send, TickTypes
  <2>2. /\ \A j \in Ticks : Orderly(log'[j])
        /\ Awaits(tick[k], Head(queue).event) /\ Told(tick[k], Seen(log[k]))
        /\ Seen(log'[k]) = Seen(log[k]) \union {Head(queue).event}
    BY <1>1, <2>1, AwaitedWrites
  <2>3. Told(tick'[k], Seen(log'[k]))
    BY <2>1, <2>2 DEF Told, Awaits, Pending, Opening
  <2> QED BY <2>2, <2>3
<1>4. CASE Block(k) \/ Skip(k)
  <2>1. /\ Written(k) /\ tick'[k].pc = "executed" /\ tick'[k].safe = tick[k].safe
        /\ \/ tick[k].pc = "evaluated" /\ ~tick[k].safe
           \/ tick[k].pc = "decided" /\ tick[k].safe
    BY <1>1, <1>2, <1>4 DEF Block, Skip, Passed
  <2>2. /\ \A j \in Ticks : Orderly(log'[j])
        /\ Awaits(tick[k], Head(queue).event) /\ Told(tick[k], Seen(log[k]))
        /\ Seen(log'[k]) = Seen(log[k]) \union {Head(queue).event}
    BY <1>1, <2>1, AwaitedWrites
  <2>3. Told(tick'[k], Seen(log'[k]))
    BY <2>1, <2>2 DEF Told, Awaits, Pending, Opening
  <2> QED BY <2>2, <2>3
<1>5. CASE FinishTick(k)
  <2>1. /\ Written(k) /\ tick'[k].pc = "finishing" /\ tick'[k].safe = tick[k].safe
        /\ tick[k].pc = "executed" /\ tick[k].safe \in BOOLEAN
    BY <1>1, <1>2, <1>5 DEF FinishTick, TickTypes
  <2>2. /\ \A j \in Ticks : Orderly(log'[j])
        /\ Awaits(tick[k], Head(queue).event) /\ Told(tick[k], Seen(log[k]))
        /\ Seen(log'[k]) = Seen(log[k]) \union {Head(queue).event}
    BY <1>1, <2>1, AwaitedWrites
  <2>3. CASE tick[k].safe
    BY <2>1, <2>2, <2>3 DEF Told, Awaits, Pending, Opening
  <2>4. CASE ~tick[k].safe
    BY <2>1, <2>2, <2>4 DEF Told, Awaits, Pending, Opening
  <2> QED BY <2>3, <2>4
<1>6. CASE Settle(k)
  <2>1. Written(k) /\ LoopAt("touch") /\ loop'.pc = "touch"
    BY <1>1, <1>6 DEF Settle, Awaited, LoopAt, Typed, LoopTypes
  <2> QED BY <1>1, <2>1, AwaitedWrites
<1>7. CASE Succeed(k) \/ Fail(k) \/ Backoff(k) \/ Retry(k)
  <2>1. /\ log' = log /\ broken' = broken /\ tick'[k].safe = tick[k].safe
        /\ tick[k].pc \in {"calling", "backoff"}
        /\ tick'[k].pc \in {"calling", "backoff"}
             \/ (tick'[k].pc = "executed" /\ tick[k].safe)
    BY <1>1, <1>2, <1>7
       DEF Succeed, Fail, Backoff, Retry, EmitFirst, Passed, logging, TickTypes
  <2>2. ~broken => Told(tick[k], Seen(log[k]))
    BY <1>1 DEF HInv
  <2> QED BY <1>1, <2>1, <2>2 DEF Told
<1> QED BY <1>3, <1>4, <1>5, <1>6, <1>7 DEF TickStep

LEMMA HInvStep ==
    ASSUME ~Late, ~HeartbeatFails, OInv, LInv, GInv, HInv, [Next]_vars PROVE HInv'
<1>1. PICK n \in Ticks : n = loop.n
  BY DEF OInv, Typed, LoopTypes
<1>2. /\ Typed /\ queue \in Seq(Records) /\ loop \in LoopTypes
      /\ log \in [Ticks -> Seq(Events)] /\ \A k \in Ticks : Orderly(log[k])
      /\ tick \in [Ticks -> TickTypes] /\ loop.pc # "dying"
  BY DEF OInv, Typed, HInv
<1>3. ASSUME NEW plan \in Plans, StartTick(plan) PROVE HInv'
  <2>1. log[n] = <<>> /\ Seen(log[n]) = {} /\ log' = log /\ loop'.n = n
    BY <1>1, <1>2, <1>3 DEF StartTick, GInv, Ahead, Seen, EmitFirst, LoopAt, LoopTypes
  <2>2. \/ loop'.pc = "erring"
        \/ loop'.pc = "running" /\ tick'[n].pc = "started"
    BY <1>1, <1>2, <1>3 DEF StartTick, LoopAt, LoopTypes
  <2> QED BY <1>2, <2>1, <2>2 DEF HInv, Told
<1>4. CASE TimeOut
  <2>1. /\ loop.pc = "running" /\ loop'.n = n /\ loop'.pc = "timedOut" /\ log' = log
        /\ broken' = broken /\ tick[n].pc = "calling"
    BY <1>1, <1>2, <1>4 DEF TimeOut, EmitFirst, LoopAt, LoopTypes
  <2>2. ~broken => Told(tick[n], Seen(log[n]))
    BY <1>1, <2>1 DEF HInv
  <2> QED BY <1>2, <2>1, <2>2 DEF HInv, Told, Opening
<1>5. CASE AfterError
  <2>1. /\ loop.pc \in {"timedOut", "erring"} /\ ~broken /\ Written(TheLoop)
        /\ loop'.pc = "touch"
    BY <1>2, <1>5 DEF AfterError, Written, LoopAt, LoopTypes
  <2>2. Head(queue).tick = n /\ Head(queue).event = "tick_error"
    BY <1>1, <2>1, WrittenAbout
  <2>3. log' = [log EXCEPT ![n] = Append(@, "tick_error")]
    BY <2>1, <2>2 DEF Written
  <2>4. Seen(log[n]) \intersect {"tick_finished", "tick_blocked"} = {}
    BY <1>1, <2>1 DEF HInv
  <2>5. Orderly(Append(log[n], "tick_error"))
    BY <1>2, <2>4, OneMoreRecord, EventsAre DEF InOrder
  <2> QED BY <1>2, <2>1, <2>3, <2>5 DEF HInv
<1>6. CASE Touch \/ TouchFails \/ Die \/ Release
  BY <1>2, <1>6 DEF Touch, TouchFails, Die, Release, HInv, logging, LoopAt, LoopTypes
<1>7. CASE RejectAppend
  <2>1. broken' /\ log' = log /\ loop'.pc \in {"release", "erring"}
    BY <1>2, <1>7, RejectsAwaited DEF RejectAppend
  <2> QED BY <1>2, <2>1 DEF HInv
<1>8. CASE Advance \/ UNCHANGED vars
  BY <1>8 DEF Advance, vars, logging, HInv
<1> QED BY <1>3, <1>4, <1>5, <1>6, <1>7, <1>8, HInvTick DEF Next, LoopStep

\* What the worker writes passes the order its own replay analyzer demands, if
\* ticks that timed out stay silent and no heartbeat fails for good.
THEOREM LogOrderly == ASSUME ~Late, ~HeartbeatFails PROVE Spec => []LogIsOrderly
<1>1. Init => LInv /\ GInv /\ HInv
  BY DEF Init, LInv, GInv, HInv, LoopFits, LoopAbsent, Behind, Ticks, Orderly
<1>2. OInv /\ LInv /\ GInv /\ HInv /\ [Next]_vars => HInv'
  BY HInvStep
<1>3. HInv => LogIsOrderly
  BY DEF HInv, LogIsOrderly
<1> QED BY <1>1, <1>2, <1>3, LInvStep, GInvStep, OInvAlways, PTL DEF Spec
=============================================================================
