--------------------------- MODULE ReplayAnalyzer ---------------------------
(* What src/ops/replay-analyzer.js demands of the records of one tick in a   *)
(* worker log: the order of the event types.  Payload checks are left out.   *)
EXTENDS Naturals, Sequences

Events == {"tick_started", "safety_evaluated", "tick_blocked", "decision_made",
           "action_executed", "tick_finished", "tick_error"}

\* The flags of tickState that are set when record i is read.
Before(s, i) == {s[j] : j \in 1..(i - 1)}

Progressed == {"safety_evaluated", "tick_blocked", "decision_made",
               "action_executed", "tick_finished"}

\* No validation error is recorded for record i.
InOrder(s, i) ==
    LET seen == Before(s, i)
        none(S) == seen \intersect S = {}
    IN  CASE s[i] = "tick_started" -> none(Progressed \union {"tick_started"})
          [] s[i] = "safety_evaluated" ->
               "tick_started" \in seen /\ none(Progressed)
          [] s[i] = "tick_blocked" ->
               /\ {"tick_started", "safety_evaluated"} \subseteq seen
               /\ none({"decision_made", "action_executed", "tick_finished"})
          [] s[i] = "decision_made" ->
               /\ {"tick_started", "safety_evaluated"} \subseteq seen
               /\ none(Progressed \ {"safety_evaluated"})
          [] s[i] = "action_executed" ->
               /\ "decision_made" \in seen
               /\ none({"tick_blocked", "action_executed", "tick_finished"})
          [] s[i] = "tick_finished" ->
               /\ {"tick_blocked", "action_executed"} \intersect seen # {}
               /\ "tick_finished" \notin seen
          [] s[i] = "tick_error" -> none({"tick_finished", "tick_blocked"})

Orderly(s) == \A i \in DOMAIN s : InOrder(s, i)

\* The check made once all records are read.
Closed(s) ==
    LET seen == {s[i] : i \in DOMAIN s}
    IN  "tick_started" \in seen =>
            {"tick_finished", "tick_error", "tick_blocked"} \intersect seen # {}
=============================================================================
