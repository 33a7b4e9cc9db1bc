----------------------------- MODULE WorkerLoop -----------------------------
(* The worker loop, src/worker/loop.js, with the parts it drives: circuit    *)
(* breaker, action cooldown guard, action executor and JSONL log.  One       *)
(* thread, but a tick that times out is not cancelled: it goes on behind the *)
(* ticks that follow.  A step is what runs between two awaits.               *)
EXTENDS CircuitBreaker, ReplayAnalyzer, FiniteSets, Functions

CONSTANTS
    Actions,            \* action type and target, as guard and executor key them
    MaxTicks,           \* WORKER_MAX_TICKS
    Interval, Timeout,  \* intervalMs, tickTimeoutMs
    ActionCooldown,     \* cooldownMs of the guard
    Window,             \* idempotencyWindowMs of the executor
    MaxAttempts,        \* maxAttempts of the executor
    Hangs,              \* a tick may reach its timeout
    Late,               \* a timed-out tick may go on
    HeartbeatFails,     \* the lock heartbeat may fail for good
    DiskFails,          \* a write to the log may fail
    MaxClock            \* bound: the clock stops there

ASSUME LoopAssumption ==
    /\ {MaxTicks, Interval, Timeout, MaxAttempts} \subseteq Nat \ {0}
    /\ {ActionCooldown, Window, MaxClock} \subseteq Nat
    /\ {Hangs, Late, HeartbeatFails, DiskFails} \subseteq BOOLEAN

VARIABLES
    now,            \* Date.now()
    loop,           \* the loop: where it is, tickNumber
    tick,           \* each tick: where it is, nowMs, what its snapshot leads to
    breaker,        \* the circuit breaker
    marked,         \* lastActionAtByFingerprint
    executed,       \* the executor's map
    queue,          \* appends not yet written, and who awaits each
    broken,         \* a write failed: the logger's promise chain stays rejected
    log,            \* the records of each tick in the log file
    delivered,      \* history: when an action last succeeded at the transport
    sends,          \* history: executions of each tick that reached the transport
    blamed          \* history: the ticks whose failures are in the streak

logging == <<queue, broken, log>>
seen == <<delivered, sends, blamed>>
vars == <<now, loop, tick, breaker, marked, executed, logging, seen>>

Ticks == 1..MaxTicks
TheLoop == 0        \* who awaits: a tick, or the loop

\* A snapshot blocked by the safety gates, one whose action lacks its target,
\* a provider that throws, or the action decided.
Plans == Actions \union {"unsafe", "untargeted", "throws"}

Idle == [pc |-> "none", at |-> 0, plan |-> "unsafe", safe |-> FALSE, attempt |-> 0]

NoTimes == [a \in {} |-> 0]

Init ==
    /\ now = 0
    /\ loop = [pc |-> "ready", n |-> 1]
    /\ tick = [k \in Ticks |-> Idle]
    /\ breaker = FreshBreaker
    /\ marked = NoTimes /\ executed = NoTimes
    /\ queue = <<>> /\ broken = FALSE
    /\ log = [k \in Ticks |-> <<>>]
    /\ delivered = [a \in Actions |-> Never]
    /\ sends = [k \in Ticks |-> 0]
    /\ blamed = {}

\* Timers: at the bound of the clock all of them are due.
Due(t) == now >= t \/ now = MaxClock

LoopAt(label) == loop' = [loop EXCEPT !.pc = label]
TickAt(k, label) == tick' = [tick EXCEPT ![k].pc = label]

\* A tick the loop no longer awaits still runs, if Late.
Runs(k) == Late \/ (loop.pc = "running" /\ k = loop.n)

-----------------------------------------------------------------------------
(* JsonlLogger: append() chains a write on the last one and returns when that *)
(* write is done, so the writes and the callers' resumptions are in order.    *)

Entry(by, k, event) == [by |-> by, tick |-> k, event |-> event]

\* The append of `who` is written and `who` resumes.
Written(who) ==
    /\ queue # <<>> /\ ~broken
    /\ Head(queue).by = who
    /\ log' = [log EXCEPT ![Head(queue).tick] = Append(@, Head(queue).event)]
    /\ UNCHANGED broken

\* It resumes and appends again, or awaits something else.
Emit(who, k, event) == queue' = Append(Tail(queue), Entry(who, k, event))
Quiet == queue' = Tail(queue)

\* A caller that was not waiting for the log appends.
EmitFirst(who, k, event) ==
    /\ queue' = Append(queue, Entry(who, k, event))
    /\ UNCHANGED <<broken, log>>

-----------------------------------------------------------------------------
(* The breaker, the guard and the executor's map as the tick uses them *)

\* Tick k reports a status at time t; who is to blame for the streak.
Report(k, status, t) ==
    /\ breaker' = Recorded(breaker, status, t)
    /\ blamed' = CASE breaker'.streak = 0 -> {}
                   [] breaker'.streak = 1 /\ breaker' # breaker -> {k}
                   [] breaker'.streak > 1 /\ breaker'.streak > breaker.streak ->
                        blamed \union {k}
                   [] OTHER -> blamed

Since(times, t) == Restrict(times, {a \in DOMAIN times : times[a] >= t})

\* prune drops what is a cooldown old; what is left blocks the action.
Pruned(t) == IF ActionCooldown = 0 THEN NoTimes
             ELSE Since(marked, t - ActionCooldown + 1)

Cooling(k) == tick[k].plan \in DOMAIN Pruned(tick[k].at)

Stamped(times, a, t) == [b \in DOMAIN times \union {a} |->
                            IF b = a THEN t ELSE times[b]]

ForgottenAtOnce == Since(executed, now)     \* mutant: the window is lost

\* pruneExecuted, then executed.has(actionKey).
Remembered == Since(executed, now - Window)
Duplicate(k) == tick[k].plan \in DOMAIN Remembered

-----------------------------------------------------------------------------
(* runDeterministicCycleOnce *)

GatesOnly(plan) == plan # "unsafe"          \* mutant: the breaker is not asked

Permitted(plan) == plan # "unsafe" /\ Allows(breaker, now)

\* Up to the first await: the snapshot, the gates and the breaker are looked
\* at, tick_started is appended.  A provider that throws is the loop's error.
StartTick(plan) ==
    LET n == loop.n IN
    /\ loop.pc = "ready"
    /\ n > 1 => Due(tick[n - 1].at + Interval)
    /\ \/ /\ plan = "throws"
          /\ tick' = [tick EXCEPT ![n] = [Idle EXCEPT !.pc = "done", !.at = now]]
          /\ LoopAt("erring")
          /\ EmitFirst(TheLoop, n, "tick_error")
          /\ UNCHANGED <<breaker, blamed>>
       \/ /\ plan # "throws"
          /\ tick' = [tick EXCEPT ![n] =
                [pc |-> "started", at |-> now, plan |-> plan, attempt |-> 0,
                 safe |-> Permitted(plan)]]
          /\ breaker' = Evaluated(breaker, now)
          /\ blamed' = IF breaker'.streak = 0 THEN {} ELSE blamed
          /\ LoopAt("running")
          /\ EmitFirst(n, n, "tick_started")
    /\ UNCHANGED <<now, marked, executed, delivered, sends>>

EvaluateSafety(k) ==
    /\ tick[k].pc = "started" /\ Runs(k)
    /\ Written(k) /\ Emit(k, k, "safety_evaluated")
    /\ TickAt(k, "evaluated")
    /\ UNCHANGED <<now, loop, breaker, marked, executed, seen>>

BlockUnlogged(k) ==                         \* mutant: tick_blocked is not logged
    /\ tick[k].pc = "evaluated" /\ Runs(k)
    /\ ~tick[k].safe
    /\ Report(k, "skipped", tick[k].at)
    /\ Written(k) /\ Emit(k, k, "tick_finished")
    /\ TickAt(k, "finishing")
    /\ UNCHANGED <<now, loop, marked, executed, delivered, sends>>

Block(k) ==
    /\ tick[k].pc = "evaluated" /\ Runs(k)
    /\ ~tick[k].safe
    /\ Report(k, "skipped", tick[k].at)
    /\ Written(k) /\ Emit(k, k, "tick_blocked")
    /\ TickAt(k, "executed")
    /\ UNCHANGED <<now, loop, marked, executed, delivered, sends>>

SendUnlogged(k) ==                          \* mutant: the append is not awaited
    /\ tick[k].pc = "evaluated" /\ Runs(k)
    /\ tick[k].safe /\ tick[k].plan \in Actions
    /\ Written(k) /\ Emit(k, k, "decision_made")
    /\ TickAt(k, "calling")
    /\ sends' = [sends EXCEPT ![k] = @ + 1]
    /\ UNCHANGED <<now, loop, breaker, marked, executed, delivered, blamed>>

Decide(k) ==
    /\ tick[k].pc = "evaluated" /\ Runs(k)
    /\ tick[k].safe
    /\ Written(k) /\ Emit(k, k, "decision_made")
    /\ TickAt(k, "decided")
    /\ UNCHANGED <<now, loop, breaker, marked, executed, seen>>

\* No target; or the guard refuses; or the executor has just done it.
Skip(k) ==
    /\ tick[k].pc = "decided" /\ Runs(k)
    /\ \/ /\ tick[k].plan = "untargeted"
          /\ UNCHANGED <<marked, executed>>
       \/ /\ tick[k].plan \in Actions
          /\ Cooling(k)
          /\ marked' = Pruned(tick[k].at)
          /\ UNCHANGED executed
       \/ /\ tick[k].plan \in Actions
          /\ ~Cooling(k)
          /\ marked' = Stamped(Pruned(tick[k].at), tick[k].plan, tick[k].at)
          /\ Duplicate(k)
          /\ executed' = Remembered
    /\ Report(k, "skipped", tick[k].at)
    /\ Written(k) /\ Emit(k, k, "action_executed")
    /\ TickAt(k, "executed")
    /\ UNCHANGED <<now, loop, delivered, sends>>

\* The action is marked and goes to the transport.
Send(k) ==
    /\ tick[k].pc = "decided" /\ Runs(k)
    /\ tick[k].plan \in Actions
    /\ ~Cooling(k)
    /\ marked' = Stamped(Pruned(tick[k].at), tick[k].plan, tick[k].at)
    /\ ~Duplicate(k)
    /\ executed' = Remembered
    /\ Written(k) /\ Quiet
    /\ tick' = [tick EXCEPT ![k].pc = "calling", ![k].attempt = 1]
    /\ sends' = [sends EXCEPT ![k] = @ + 1]
    /\ UNCHANGED <<now, loop, breaker, delivered, blamed>>

\* The transport answers.  The time given to the breaker is the tick's start.
Succeed(k) ==
    /\ tick[k].pc = "calling" /\ Runs(k)
    /\ executed' = Stamped(executed, tick[k].plan, now)
    /\ delivered' = [delivered EXCEPT ![tick[k].plan] = now]
    /\ Report(k, "success", tick[k].at)
    /\ EmitFirst(k, k, "action_executed")
    /\ TickAt(k, "executed")
    /\ UNCHANGED <<now, loop, marked, sends>>

\* An error that is not retried, or the last attempt.
Fail(k) ==
    /\ tick[k].pc = "calling" /\ Runs(k)
    /\ Report(k, "failed", tick[k].at)
    /\ EmitFirst(k, k, "action_executed")
    /\ TickAt(k, "executed")
    /\ UNCHANGED <<now, loop, marked, executed, delivered, sends>>

OneMore(k) == tick[k].attempt <= MaxAttempts    \* mutant: off by one
MayRetry(k) == tick[k].attempt < MaxAttempts

BackoffCounted(k) ==                        \* mutant: each attempt is a failure
    /\ tick[k].pc = "calling" /\ Runs(k)
    /\ MayRetry(k)
    /\ TickAt(k, "backoff")
    /\ Report(k, "failed", now)
    /\ UNCHANGED <<now, loop, marked, executed, logging, delivered, sends>>

\* A retryable error with attempts left: sleep, then call again.
Backoff(k) ==
    /\ tick[k].pc = "calling" /\ Runs(k)
    /\ MayRetry(k)
    /\ TickAt(k, "backoff")
    /\ UNCHANGED <<now, loop, breaker, marked, executed, logging, seen>>

Retry(k) ==
    /\ tick[k].pc = "backoff" /\ Runs(k)
    /\ tick' = [tick EXCEPT ![k].pc = "calling", ![k].attempt = @ + 1]
    /\ UNCHANGED <<now, loop, breaker, marked, executed, logging, seen>>

FinishTick(k) ==
    /\ tick[k].pc = "executed" /\ Runs(k)
    /\ Written(k) /\ Emit(k, k, "tick_finished")
    /\ TickAt(k, "finishing")
    /\ UNCHANGED <<now, loop, breaker, marked, executed, seen>>

Awaited(k) == loop.pc = "running" /\ loop.n = k

\* The tick's promise resolves; the loop, if it still waits for it, goes on.
Settle(k) ==
    /\ tick[k].pc = "finishing" /\ Runs(k)
    /\ Written(k) /\ Quiet
    /\ TickAt(k, "done")
    /\ IF Awaited(k) THEN LoopAt("touch") ELSE UNCHANGED loop
    /\ UNCHANGED <<now, breaker, marked, executed, seen>>

-----------------------------------------------------------------------------
(* startDeterministicWorkerLoop *)

NoTimer == FALSE                            \* mutant: no timeout is set
Expired == Due(tick[loop.n].at + Timeout)

TimeOutUnlogged ==                          \* mutant: tick_error is not logged
    /\ loop.pc = "running" /\ Hangs
    /\ Expired
    /\ LoopAt("touch")
    /\ UNCHANGED <<now, tick, breaker, marked, executed, logging, seen>>

\* runTickWithTimeout gives up on the tick, which keeps running.
TimeOut ==
    /\ loop.pc = "running" /\ Hangs
    /\ Expired
    /\ Late \/ tick[loop.n].pc = "calling"
    /\ LoopAt("timedOut")
    /\ EmitFirst(TheLoop, loop.n, "tick_error")
    /\ UNCHANGED <<now, tick, breaker, marked, executed, seen>>

\* tick_error is written; a timeout counts as a failed execution, at present.
AfterError ==
    /\ loop.pc \in {"timedOut", "erring"}
    /\ Written(TheLoop) /\ Quiet
    /\ IF loop.pc = "timedOut" THEN Report(loop.n, "failed", now)
                               ELSE UNCHANGED <<breaker, blamed>>
    /\ LoopAt("touch")
    /\ UNCHANGED <<now, tick, marked, executed, delivered, sends>>

\* The heartbeat succeeds: next tick, or the end.
Touch ==
    /\ loop.pc = "touch"
    /\ loop' = IF loop.n = MaxTicks THEN [loop EXCEPT !.pc = "release"]
               ELSE [pc |-> "ready", n |-> loop.n + 1]
    /\ UNCHANGED <<now, tick, breaker, marked, executed, logging, seen>>

\* All retries of the heartbeat failed: log it and leave.
TouchFails ==
    /\ loop.pc = "touch" /\ HeartbeatFails
    /\ LoopAt("dying")
    /\ EmitFirst(TheLoop, loop.n, "tick_error")
    /\ UNCHANGED <<now, tick, breaker, marked, executed, seen>>

Die ==
    /\ loop.pc = "dying"
    /\ Written(TheLoop) /\ Quiet
    /\ LoopAt("release")
    /\ UNCHANGED <<now, tick, breaker, marked, executed, seen>>

\* The finally block.
Release ==
    /\ loop.pc = "release"
    /\ LoopAt("down")
    /\ UNCHANGED <<now, tick, breaker, marked, executed, logging, seen>>

\* A write fails, or an earlier one did: the append that waits for it rejects.
\* A tick ends with the error, which the loop logs if it awaits the tick; in
\* the loop the error leaves through the finally block.
RejectAppend ==
    LET who == Head(queue).by IN
    /\ queue # <<>>
    /\ DiskFails
    /\ broken' = TRUE
    /\ IF who = TheLoop
       THEN /\ LoopAt("release")
            /\ Quiet
            /\ UNCHANGED tick
       ELSE /\ Runs(who)
            /\ TickAt(who, "done")
            /\ IF Awaited(who)
                 THEN LoopAt("erring") /\ Emit(TheLoop, who, "tick_error")
                 ELSE UNCHANGED loop /\ Quiet
    /\ UNCHANGED <<now, breaker, marked, executed, log, seen>>

\* Without Hangs a tick is over before its timeout.
Advance ==
    /\ now < MaxClock
    /\ loop.pc = "running" /\ ~Hangs => now + 1 < tick[loop.n].at + Timeout
    /\ now' = now + 1
    /\ UNCHANGED <<loop, tick, breaker, marked, executed, logging, seen>>

LoopStep == TimeOut \/ AfterError \/ Touch \/ TouchFails \/ Die \/ Release

TickStep(k) ==
    \/ EvaluateSafety(k) \/ Block(k) \/ Decide(k) \/ Skip(k) \/ Send(k)
    \/ Succeed(k) \/ Fail(k) \/ Backoff(k) \/ Retry(k)
    \/ FinishTick(k) \/ Settle(k)

Next ==
    \/ \E plan \in Plans : StartTick(plan)
    \/ \E k \in Ticks : TickStep(k)
    \/ LoopStep \/ RejectAppend \/ Advance

Spec == Init /\ [][Next]_vars

\* Timers fire and writes come to an end, one way or the other.  Nothing is
\* assumed of the transport: a call may stay unanswered for ever.
Fairness ==
    /\ WF_vars(Advance)
    /\ WF_vars(\E plan \in Plans : StartTick(plan))
    /\ WF_vars(LoopStep)
    /\ \A k \in Ticks :
          WF_vars(\/ EvaluateSafety(k) \/ Block(k) \/ Decide(k) \/ Skip(k)
                  \/ Send(k) \/ Retry(k) \/ FinishTick(k) \/ Settle(k))
    /\ WF_vars(broken /\ RejectAppend)

FairSpec == Spec /\ Fairness

-----------------------------------------------------------------------------
(* Properties *)

\* The values the variables take.
TypeOK ==
    /\ now \in 0..MaxClock
    /\ loop \in [pc : {"ready", "running", "timedOut", "erring", "touch",
                       "dying", "release", "down"}, n : Ticks]
    /\ tick \in [Ticks -> [pc : {"none", "started", "evaluated", "decided",
                                 "calling", "backoff", "executed", "finishing",
                                 "done"},
                           at : 0..MaxClock, plan : Plans, safe : BOOLEAN,
                           attempt : 0..MaxAttempts]]
    /\ breaker \in Breakers
    /\ DOMAIN marked \subseteq Actions /\ DOMAIN executed \subseteq Actions
    /\ queue \in Seq([by : Ticks \union {TheLoop}, tick : Ticks, event : Events])
    /\ \A k \in Ticks : log[k] \in Seq(Events)

\* A step in which tick k calls the transport, for the first time or again.
Calls(k) == tick[k].pc # "calling" /\ tick'[k].pc = "calling"

\* No action reaches the transport before the decision for it is on disk: a
\* process killed at any point leaves no call without its decision in the log.
DecisionIsLogged ==
    \A k \in Ticks :
        sends[k] <= Cardinality({i \in DOMAIN log[k] :
                                    log[k][i] = "decision_made"})

\* An action that succeeded is not sent again within the idempotency window
\* (docs/DECISIONS.md: suppression "works across adjacent ticks").
NoDuplicateDelivery ==
    [][\A k \in Ticks : Calls(k) =>
          LET last == delivered[tick[k].plan]
          IN  last = Never \/ now - last > Window]_vars

\* Nothing is sent while the breaker is open.
NoCallWhileOpen == [][\A k \in Ticks : Calls(k) => Allows(breaker, now)]_vars

\* The streak of failed ticks counts ticks: a tick weighs one failure at most.
StreakCountsTicks == breaker.streak <= Cardinality(blamed)

\* Also when timed-out ticks answer late, a tick weighs two failures at most:
\* its timeout and its own.
TicksWeighTwoAtMost == breaker.streak <= 2 * Cardinality(blamed)

\* However stale the times ticks report with, the breaker lets ticks through
\* again within one cooldown from now.
ReopensInTime == IsOpen(breaker) => breaker.until <= now + CircuitCooldown

\* The records the worker writes pass its own replay validation.
LogIsOrderly == \A k \in Ticks : Orderly(log[k])

\* When the loop is down and the log was writable, no started tick is left
\* without a terminal record, even while late ticks are still writing theirs.
TicksAreClosed ==
    loop.pc = "down" /\ ~broken => \A k \in Ticks : Closed(log[k])

\* Whatever the transport does, the loop gets through its ticks and releases
\* the lock.
LoopEnds == <>(loop.pc = "down")
=============================================================================
