------------------------------ MODULE Targeting ------------------------------
(* Which monster scripts/live-strategy-runner.js fights, and when it gives a  *)
(* fight up: chooseMonsterPlan and the danger gate of step(), two judgements  *)
(* of one monster with thresholds of their own, tied to each other by the     *)
(* defeats and surrenders they lead to.                                       *)
(*                                                                            *)
(* Numbers with decimals are scaled: dangers are in tenths, efficiencies in   *)
(* hundredths, factors in percent.  The score and the id only break ties; any *)
(* of the tied monsters may come out.                                         *)
EXTENDS Integers, FiniteSets, Sequences, FiniteSetsExt

CONSTANTS
    Lists,          \* what /areas/.../monsters may answer: sets of monsters
    Players,        \* records [level, def, armour]
    MaxGap,         \* BUJU_MAX_SAFE_MONSTER_LEVEL_GAP
    Kept,           \* length of the two windows: 12
    Window,         \* what counts as recent: 8
    Short           \* and as clustered: 4

ASSUME TargetingAssumption ==
    /\ \A l \in Lists : IsFiniteSet(l) /\ l \subseteq [level : Nat, atk : Nat, exp : Nat]
    /\ Players \subseteq [level : Nat, def : Nat, armour : BOOLEAN]
    /\ MaxGap \in Int
    /\ {Kept, Window, Short} \subseteq Nat \ {0, 1}

VARIABLES
    outcomes,       \* recentCombatOutcomes: TRUE for a defeat
    surrenders,     \* length of recentDangerSurrenders, all of them alike
    fight,          \* "none", "asked" (its answer is awaited), or "on"
    choice          \* the monster, its list, the player, the judgement

tvars == <<outcomes, surrenders, fight, choice>>

NoChoice == [target |-> {}]

TInit ==
    /\ outcomes = <<>> /\ surrenders = 0
    /\ fight = "none" /\ choice = NoChoice

-----------------------------------------------------------------------------
(* Pressure *)

Smaller(a, b) == IF a < b THEN a ELSE b
Larger(a, b) == IF a > b THEN a ELSE b
Over(a, b) == Larger(0, a - b)

\* recentDefeatCount
DefeatsIn(seq) == Cardinality({i \in DOMAIN seq : i > Len(seq) - Window /\ seq[i]})
Defeats == DefeatsIn(outcomes)

\* recentDangerSurrenderCount: of the last ones, however long ago they were.
Surrenders(window) == Smaller(surrenders, window)

OnlySurrenders == Surrenders(Window)        \* mutant: defeats are forgotten
Pressure == Larger(Defeats, Surrenders(Window))

OnlyDefeats == Defeats >= 1                 \* mutant: surrenders are forgotten
Sustained == Defeats >= 1 \/ Surrenders(Short) >= 2

-----------------------------------------------------------------------------
(* chooseMonsterPlan *)

\* A monster without a level is taken for one of the player's.
Level(m, p) == IF m.level = 0 THEN p.level ELSE m.level

Danger(m, p, perAtk, perLevel) ==
    perAtk * Over(m.atk, p.def) + perLevel * Over(Level(m, p), p.level)

DynamicGap(p) ==
    Larger(0, MaxGap - Smaller(3, Pressure + IF p.armour THEN 0 ELSE 2))

HardDangerCap(p) == 10 * ((IF p.armour THEN 10 ELSE 6) - Smaller(3, Pressure))

\* safetyFiltered
Passes(m, p) ==
    /\ Level(m, p) <= p.level + DynamicGap(p)
    /\ 100 * m.atk <= (IF p.armour THEN 135 ELSE 115) * p.def
    /\ Danger(m, p, 15, 50) <= HardDangerCap(p)

Safe(list, p) == {m \in list : Passes(m, p)}

Least(S, Measure(_)) == {x \in S : \A y \in S : Measure(x) <= Measure(y)}

\* n / d, rounded to the nearest.
Rounded(n, d) == (2 * n + d) \div (2 * d)

Efficiency(m, p) == Rounded(1000 * m.exp, 10 + Danger(m, p, 14, 50))

BandFloor(pool, p) == Rounded(95 * Max({Efficiency(m, p) : m \in pool}), 100)

MostDangerous(pool, p) ==                   \* mutant: the order turned round
    Least({m \in pool : Efficiency(m, p) >= BandFloor(pool, p)},
          LAMBDA m : 0 - Danger(m, p, 14, 50))

\* The least dangerous of those whose efficiency is in the band, and the most
\* efficient of these.
Best(pool, p) ==
    LET Danger14(m) == Danger(m, p, 14, 50)
        Waste(m) == 0 - Efficiency(m, p)
    IN  Least(Least({m \in pool : Efficiency(m, p) >= BandFloor(pool, p)}, Danger14),
              Waste)

\* If no monster is safe, the least dangerous one; under pressure the least
\* dangerous of the safe ones, each by another measure.
Targets(list, p) ==
    LET safe == Safe(list, p)
    IN  IF safe = {} THEN Least(list, LAMBDA m : Danger(m, p, 16, 60))
        ELSE IF Sustained THEN Least(safe, LAMBDA m : Danger(m, p, 15, 50))
        ELSE Best(safe, p)

-----------------------------------------------------------------------------
(* Fights *)

\* pushCombatOutcome
Pushed(defeat) ==
    LET all == Append(outcomes, defeat)
    IN  IF Len(all) > Kept THEN Tail(all) ELSE all

\* Of an empty list comes 'rabbit', a monster nothing is known of: the target
\* is then the empty set.
Choose ==
    /\ fight = "none"
    /\ fight' = "asked"
    /\ \E list \in Lists, p \in Players :
          \E target \in IF list = {} THEN {{}} ELSE {{m} : m \in Targets(list, p)} :
             choice' = [target |-> target, list |-> list, player |-> p,
                        safe |-> Safe(list, p), defeats |-> Defeats,
                        surrenders |-> surrenders, later |-> FALSE]
    /\ UNCHANGED <<outcomes, surrenders>>

\* The answer tells no outcome, or that the fight goes on, or how it ended.
Answer ==
    /\ fight = "asked"
    /\ \/ fight' = "on" /\ outcomes' \in {outcomes, Pushed(FALSE)} /\ UNCHANGED choice
       \/ fight' = "none" /\ outcomes' \in {outcomes, Pushed(FALSE), Pushed(TRUE)}
          /\ choice' = NoChoice
    /\ UNCHANGED surrenders

\* While a fight is on, another answer to /hunt or /combat/start.
Meanwhile ==
    /\ fight = "on"
    /\ \E defeat \in BOOLEAN : outcomes' = Pushed(defeat)
    /\ choice' = [choice EXCEPT !.later = TRUE]
    /\ UNCHANGED <<surrenders, fight>>

\* riskClampActive and what hangs on it.
Clamped == Surrenders(Window) >= 2 \/ Defeats >= 1
TooHighLevel(m, p) == Level(m, p) > p.level + IF Clamped THEN 1 ELSE 2
TooHighDamage(m, p) == 100 * m.atk > (IF Clamped THEN 145 ELSE 160) * p.def
TooStrong(m, p) == TooHighLevel(m, p) \/ TooHighDamage(m, p)

\* The danger gate of a later tick: the player is hurt, or the monster too
\* strong, as the unknown one may be.
GiveUp ==
    /\ fight = "on"
    /\ \/ \E hurt \in BOOLEAN : hurt
       \/ choice.target = {}
       \/ \E m \in choice.target : TooStrong(m, choice.player)
    /\ surrenders' = Smaller(surrenders + 1, Kept)
    /\ fight' = "none" /\ choice' = NoChoice
    /\ UNCHANGED outcomes

\* The game ends the fight, or it is given up for another reason.
FightEnds ==
    /\ fight = "on"
    /\ fight' = "none" /\ choice' = NoChoice
    /\ UNCHANGED <<outcomes, surrenders>>

TNext == Choose \/ Answer \/ Meanwhile \/ GiveUp \/ FightEnds

TSpec == TInit /\ [][TNext]_tvars

-----------------------------------------------------------------------------
(* Properties *)

TTypeOK ==
    /\ outcomes \in Seq(BOOLEAN) /\ surrenders \in 0..Kept
    /\ fight \in {"none", "asked", "on"}
    /\ IF fight = "none" THEN choice = NoChoice
       ELSE /\ choice \in [target : SUBSET UNION Lists, list : Lists, player : Players,
                           safe : SUBSET UNION Lists, defeats : Nat,
                           surrenders : Nat, later : BOOLEAN]
            /\ choice.target \subseteq choice.list

\* The gate agrees with the filter, or the runner is in the "repeated
\* combat_start -> surrender_dangerous_combat -> rest churn" of
\* docs/DECISIONS.md: a fight that is on is not one to give up for its
\* monster's strength, unless no monster of the list was safe, or the runner
\* has heard of another fight since.
NoNeedlessSurrender ==
    fight = "on" /\ ~choice.later /\ choice.safe # {} =>
        \A m \in choice.target : ~TooStrong(m, choice.player)

\* m is less of a danger than t, by any weights.
EasierThan(m, t, p) ==
    /\ Over(m.atk, p.def) <= Over(t.atk, p.def)
    /\ Over(Level(m, p), p.level) <= Over(Level(t, p), p.level)
    /\ \/ Over(m.atk, p.def) < Over(t.atk, p.def)
       \/ Over(Level(m, p), p.level) < Over(Level(t, p), p.level)

Candidates == IF choice.safe = {} THEN choice.list ELSE choice.safe

\* "When dangerous combats cluster, temporarily collapse to the single
\* least-danger target" (comment), and "if no monster passes strict safety
\* filter, choose least-danger candidates first" (docs/DECISIONS.md): after a
\* defeat, after two surrenders, or where nothing is safe, no candidate was
\* less of a danger than the target.
EasiestUnderPressure ==
    \A t \in choice.target :
        choice.defeats >= 1 \/ choice.surrenders >= 2 \/ choice.safe = {} =>
            /\ t \in Candidates
            /\ \A m \in Candidates : ~EasierThan(m, t, choice.player)

\* "safe monster selection now chooses the lowest-danger option inside the top
\* efficiency band" (docs/DECISIONS.md), by rounded numbers, so that no risk
\* is taken for nothing: no safe monster is less of a danger than the target
\* and as efficient, before any rounding.
NoRiskForNothing ==
    \A t \in choice.target :
        choice.safe # {} =>
            /\ t \in choice.safe
            /\ \A m \in choice.safe :
                  EasierThan(m, t, choice.player) =>
                      m.exp * (10 + Danger(t, choice.player, 14, 50))
                          < t.exp * (10 + Danger(m, choice.player, 14, 50))
=============================================================================
