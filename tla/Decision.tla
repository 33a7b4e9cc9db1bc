------------------------------ MODULE Decision ------------------------------
(* What a tick of the worker does about one snapshot: the safety gates        *)
(* (src/engine/safety-gates.js), the rules (src/engine/fsm-rules.js) and the  *)
(* loop's check of the action's target.  Fields may be absent, and the same   *)
(* absent field is read as a different number in different places.            *)
EXTENDS Integers, FiniteSetsExt

CONSTANTS
    Healths, Energies, Threats, Pendings,   \* values a snapshot may have
    Absent

ASSUME DecisionAssumption ==
    /\ UNION {Healths, Energies, Threats, Pendings} \subseteq Nat \union {Absent}
    /\ Absent \notin Nat

VARIABLES snapshot, outcome

vars == <<snapshot, outcome>>

Snapshots ==
    [health : Healths, energy : Energies, threat : Threats, pending : Pendings,
     visible : BOOLEAN, maintenance : BOOLEAN, cooling : BOOLEAN, enemyId : BOOLEAN]

\* x ?? d
Or(x, d) == IF x = Absent THEN d ELSE x

-----------------------------------------------------------------------------
MinHealth == 30
MaxPending == 2

\* evaluateSafetyGates: the reasons to block.
Reasons(s) ==
    {r \in {"maintenance_mode", "low_health", "action_queue_saturated",
            "cooldown_active"} :
        CASE r = "maintenance_mode" -> s.maintenance
          [] r = "low_health" -> Or(s.health, 100) < MinHealth
          [] r = "action_queue_saturated" -> Or(s.pending, 0) >= MaxPending
          [] r = "cooldown_active" -> s.cooling}

RestFirst(s) ==                             \* mutant: two rules in the wrong order
    LET energy == Or(s.energy, 0)
        threat == Or(s.threat, 0)
    IN  << Or(s.health, 100) < 35,
           threat >= 80,
           energy < 30 /\ Or(s.health, 0) >= 60,
           energy < 30 /\ s.visible /\ threat >= 50,
           energy >= 40 /\ s.visible,
           energy \in 30..39 /\ s.visible /\ threat <= 25,
           TRUE >>

NarrowWindow(s) ==                          \* mutant: an upper end too many
    LET energy == Or(s.energy, 0)
        threat == Or(s.threat, 0)
    IN  << Or(s.health, 100) < 35,
           threat >= 80,
           energy < 30 /\ s.visible /\ threat >= 50,
           energy < 30 /\ Or(s.health, 0) >= 60,
           energy \in 40..79 /\ s.visible,
           energy \in 30..39 /\ s.visible /\ threat <= 25,
           TRUE >>

\* decideAction: the rules in their order.
Conditions(s) ==
    LET energy == Or(s.energy, 0)
        threat == Or(s.threat, 0)
    IN  << Or(s.health, 100) < 35,
           threat >= 80,
           energy < 30 /\ s.visible /\ threat >= 50,
           energy < 30 /\ Or(s.health, 0) >= 60,
           energy >= 40 /\ s.visible,
           energy \in 30..39 /\ s.visible /\ threat <= 25,
           TRUE >>

ActionTypes == <<"USE_POTION", "RAISE_SHIELD", "RAISE_SHIELD", "REST",
                 "BASIC_ATTACK", "BASIC_ATTACK", "WAIT">>

Decided(s) ==
    ActionTypes[Min({i \in DOMAIN ActionTypes : Conditions(s)[i]})]

\* shouldRequireActionTarget: WAIT and REST need none; selfId is always there.
Targeted(s, action) == action = "BASIC_ATTACK" => s.enemyId

Evaluated(s) ==
    IF Reasons(s) # {} THEN "blocked"
    ELSE IF ~Targeted(s, Decided(s)) THEN "invalid_action_target"
    ELSE Decided(s)

Init == snapshot \in Snapshots /\ outcome = "none"

Tick ==
    /\ outcome = "none"
    /\ outcome' = Evaluated(snapshot)
    /\ UNCHANGED snapshot

Next == Tick

Spec == Init /\ [][Next]_vars

-----------------------------------------------------------------------------
(* Properties *)

Attacks(s) == Evaluated(s) = "BASIC_ATTACK"

\* "low-energy rest remains for safe windows only" (docs/DECISIONS.md): nobody
\* rests or waits, short of energy, in sight of an enemy that presses.
ShieldedUnderPressure ==
    outcome \in {"REST", "WAIT"} =>
        ~(snapshot.visible /\ Or(snapshot.threat, 0) >= 50 /\ Or(snapshot.energy, 0) < 30)

\* More energy, all else equal, never stops an attack.
EnergyEmboldens ==
    outcome = "BASIC_ATTACK" =>
        \A e \in Energies \ {Absent} :
            e >= Or(snapshot.energy, 0) => Attacks([snapshot EXCEPT !.energy = e])
=============================================================================
