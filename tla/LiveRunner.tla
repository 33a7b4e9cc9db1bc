----------------------------- MODULE LiveRunner -----------------------------
(* scripts/live-strategy-runner.js: what step() calls and in which order, the *)
(* memory it keeps between ticks, and main(), which the daemon starts again   *)
(* and again.  A step of the model is one call and what follows it.  The game *)
(* is external: its state is what the calls show of it.                       *)
EXTENDS Integers, Sequences, SequencesExt, FiniteSetsExt

CONSTANTS
    Stall400Threshold, StallTicks, Stall429Ticks,   \* BUJU_STALL_*
    FallbackThreshold, FallbackTicks,   \* BUJU_COMBAT_START_429_FALLBACK_*
    EnhanceTicks, RefreshTicks, \* cooldowns of enhancing and of the strategy
    PrepLevel,      \* BUJU_MUTATION_PREP_LEVEL and BUJU_ENHANCE_MID_LEVEL
    Settings,       \* ways to start the runner, see below
    MaxAge          \* bound: age of an answer that is told apart

ASSUME RunnerAssumption ==
    /\ {Stall400Threshold, RefreshTicks} \subseteq Nat \ {0}
    /\ PrepLevel \in 1..3
    /\ {StallTicks, Stall429Ticks, FallbackThreshold, FallbackTicks,
        EnhanceTicks, MaxAge} \subseteq Nat
    /\ MaxAge > StallTicks /\ MaxAge > Stall429Ticks + 6

VARIABLES
    setting,        \* one of Settings; it does not change
    world,          \* the character, as the game has it
    seen,           \* the same, as the tick read it at its start
    terms,          \* budgets used up and gold, as the tick read them
    pc, tick,       \* where step() is; tickCounter
    stall,          \* stallState
    outcomes,       \* recentCombatOutcomes: was it a defeat
    dangers,        \* length of recentDangerSurrenders
    streak, force,  \* combatStart429Streak, forceHuntUntilTick
    tuned,          \* lastCombatStrategyTick; 0 also when nothing was sent
    made,           \* history: the calls of this tick and their answers
    heard           \* history: the last answer to each key, over all processes

read == <<seen, terms>>
memory == <<tick, outcomes, dangers, streak, force, tuned>>
answered == <<stall, made, heard>>
vars == <<setting, world, read, pc, memory, answered>>

Keys == {"surrender_inventory", "inventory_sell", "surrender_for_equip",
         "danger_surrender", "hp_potion_use", "equip", "rest", "mutation_shield",
         "enhance_weapon", "enhance_armor", "enhance_accessory", "buy_hp",
         "buy_mp", "move", "surrender_stuck_hunt_mode", "combat_strategy",
         "combat_start", "hunt"}

Fights == {"hunt", "combat_start"}
Surrenders == {"surrender_inventory", "surrender_for_equip", "danger_surrender",
               "surrender_stuck_hunt_mode"}

\* 200, 400, 429 after the retries of req, 404, 400 API_DEPRECATED, the rest.
Statuses == {"ok", "bad", "limited", "gone", "deprecated", "other"}

\* risky: the health or the monster is reason to give the fight up.
\* crowd: used slots are at the trigger and ordinary gear can be sold ("worse":
\* gear worse than what is worn, or anything when the bag is almost full).
\* worn, spare: pieces worn, and pieces in the bag that would be an upgrade; an
\* accessory is always worn.
\* level: 1 below moveLv2, 3 from moveLv3 and late game; areas are alike.
Characters == [fighting : BOOLEAN, risky : BOOLEAN, crowd : {"no", "ordinary", "worse"},
               worn : SUBSET {"weapon", "armor"}, spare : SUBSET {"weapon", "armor"},
               hp : {"fine", "hurt", "weak"}, level : 1..3, area : 1..3,
               has : SUBSET {"hp_potion", "mp_potion", "charm", "buff", "scroll"}]

MaxActions == setting.actions           \* BUJU_MAX_ACTIONS_PER_CYCLE
UseCombatStart == setting.combatStart   \* BUJU_USE_COMBAT_START
Respawns == setting.respawns            \* the daemon starts the runner again
Trouble == setting.trouble      \* keys of calls that need not be answered with 200
Shortages == setting.shortages  \* sets of budgets that /status may show as used up
Wealth == setting.wealth        \* whether gold is over the reserves
Haps == setting.haps            \* what a fight may bring

Fresh == [fails |-> 0, until |-> 0]
Silent == [status |-> "ok", bad |-> 0, limits |-> 0, age |-> MaxAge]

Init ==
    /\ setting \in Settings
    /\ world \in setting.worlds
    /\ seen = world
    /\ terms = [short |-> {}, rich |-> TRUE]
    /\ pc = "over" /\ tick = 0
    /\ stall = [k \in Keys |-> Fresh]
    /\ outcomes = <<>> /\ dangers = 0
    /\ streak = 0 /\ force = 0 /\ tuned = 0
    /\ made = <<>>
    /\ heard = [k \in Keys |-> Silent]

-----------------------------------------------------------------------------
(* Calls and the stall guard *)

Budget(b) == b \notin terms.short

SkippedTooShort(k) == tick < stall[k].until             \* mutant: < for <=
Skipped(k) == stall[k].until # 0 /\ tick <= stall[k].until

\* recordActionResult: of one key, and of the table.
Recorded(old, s) ==
    CASE s \in {"bad", "deprecated"} ->
           [fails |-> old.fails + 1,
            until |-> IF old.fails + 1 >= Stall400Threshold THEN tick + StallTicks
                                                            ELSE old.until]
      [] s = "limited" -> [old EXCEPT !.until = tick + Stall429Ticks]
      [] s = "ok" -> Fresh
      [] OTHER -> old

Noted(stalls, k, s) == [stalls EXCEPT ![k] = Recorded(@, s)]

\* What is kept of the answers to k for the properties: 200 wipes the slate.
Heard(k, s) ==
    [heard EXCEPT ![k] =
        IF s = "ok" THEN Silent
        ELSE [status |-> s,
              bad |-> IF s \in {"bad", "deprecated"}
                      THEN Min({@.bad + 1, Stall400Threshold}) ELSE @.bad,
              limits |-> IF s = "limited" THEN Min({@.limits + 1, 6}) ELSE 0,
              age |-> 0]]

\* A surrender outside a fight may be refused.
Answers(k) ==
    {"ok"} \union (IF k \in Surrenders /\ ~world.fighting THEN {"bad"} ELSE {})
           \union (IF k \notin Trouble THEN {}
                   ELSE IF k = "combat_start" THEN Statuses
                   ELSE {"bad", "limited", "other"})

Asked(k, s) ==
    /\ s \in Answers(k)
    /\ made' = Append(made, [key |-> k, status |-> s])
    /\ heard' = Heard(k, s)

Goto(label) == pc' = label

\* The stage `here` of step(): if wanted, the call of key k, which ends the tick
\* when it is answered with 200 and leaves the character as `after`.
Stage(here, next, wanted, k, after) ==
    /\ pc = here
    /\ \/ /\ ~wanted
          /\ Goto(next)
          /\ UNCHANGED <<world, answered>>
       \/ /\ wanted
          /\ \E s \in Statuses :
                /\ Asked(k, s)
                /\ stall' = Noted(stall, k, s)
                /\ Goto(IF s = "ok" THEN "over" ELSE next)
                /\ world' = IF s = "ok" THEN after ELSE world
    /\ UNCHANGED <<read, memory>>

-----------------------------------------------------------------------------
(* Pressure *)

Defeats == Cardinality({i \in DOMAIN outcomes : i > Len(outcomes) - 8 /\ outcomes[i]})

Retreats == Defeats >= 3 \/ Min({dangers, 8}) >= 2

\* The last 12 are kept.
Pushed(defeat) ==
    SubSeq(outcomes, Max({1, Len(outcomes) - 10}), Len(outcomes)) \o <<defeat>>

-----------------------------------------------------------------------------
(* step() *)

MayStep == tick < MaxActions

\* /status and /inventory.  A fight may be over by now; a bag that cannot be
\* read passes for an empty one, with nothing worn.
Begin(bag, terms1) ==
    /\ pc = "over" /\ MayStep
    /\ tick' = tick + 1
    /\ made' = <<>>
    /\ heard' = [k \in Keys |-> [heard[k] EXCEPT !.age = Min({@ + 1, MaxAge})]]
    /\ \E f \in {world.fighting, FALSE} : world' = [world EXCEPT !.fighting = f]
    /\ \/ "status" \in Trouble /\ Goto("over") /\ UNCHANGED read
       \/ /\ Goto("clean")
          /\ terms' = terms1
          /\ bag \/ "inventory" \in Trouble
          /\ seen' = IF bag THEN world'
                     ELSE [world' EXCEPT !.crowd = "no", !.worn = {}, !.spare = {},
                                         !.has = @ \intersect {"buff"}]
    /\ UNCHANGED <<stall, outcomes, dangers, streak, force, tuned>>

\* Full of worse gear in a fight: surrender, then sell; if nothing was sold the
\* tick goes on with what it read at its start.
Clean ==
    LET wanted == /\ seen.crowd = "worse" /\ seen.fighting
                  /\ Budget("surrender") /\ ~Skipped("surrender_inventory")
    IN  /\ pc = "clean"
        /\ \/ ~wanted /\ Goto("sell") /\ UNCHANGED <<world, answered>>
           \/ /\ wanted
              /\ \E s \in Statuses :
                    /\ Asked("surrender_inventory", s)
                    /\ stall' = Noted(stall, "surrender_inventory", s)
                    /\ Goto(IF s = "ok" /\ Budget("sell") THEN "sellAfter" ELSE "sell")
                    /\ world' = [world EXCEPT !.fighting = @ /\ s # "ok"]
        /\ UNCHANGED <<read, memory>>

\* The answers to the sales of one call of liquidateInventoryRisk: it stops at
\* an error other than 400.  Two of them stand for all.
Sales == {s \in SeqOf(Answers("inventory_sell"), 2) :
             \A i \in 1..(Len(s) - 1) : s[i] \in {"ok", "bad"}}

RecordedSales(old, s) ==
    CASE s = <<>> -> old
      [] Len(s) = 1 -> Recorded(old, s[1])
      [] Len(s) = 2 -> Recorded(Recorded(old, s[1]), s[2])

Sell ==
    LET wanted == /\ pc = "sellAfter" \/ (~seen.fighting /\ Budget("sell"))
                  /\ seen.crowd # "no" /\ ~Skipped("inventory_sell")
        next == IF pc = "sellAfter" THEN "sell" ELSE "undress"
    IN  /\ pc \in {"sell", "sellAfter"}
        /\ \/ ~wanted /\ Goto(next) /\ UNCHANGED <<world, answered>>
           \/ /\ wanted
              /\ \E s \in Sales :
                    LET sold == "ok" \in ToSet(s) IN
                    /\ s = <<>> => "inventory_sell" \in Trouble
                    /\ stall' = [stall EXCEPT !["inventory_sell"] = RecordedSales(@, s)]
                    /\ made' = made \o [i \in DOMAIN s |->
                                          [key |-> "inventory_sell", status |-> s[i]]]
                    /\ Goto(IF sold THEN "over" ELSE next)
                    /\ world' = [world EXCEPT !.crowd =
                                   IF ToSet(s) = {"ok"} THEN "no" ELSE @]
              /\ UNCHANGED heard
        /\ UNCHANGED <<read, memory>>

WeaponOnly == "weapon" \notin seen.worn     \* mutant: armour is not asked for
Bare == {"weapon", "armor"} \ seen.worn # {}

SurrenderForEquip ==
    Stage("undress", "danger",
          /\ Bare /\ seen.spare # {} /\ seen.fighting
          /\ Budget("surrender") /\ ~Skipped("surrender_for_equip"),
          "surrender_for_equip", [world EXCEPT !.fighting = FALSE])

DangerSurrender ==
    /\ pc = "danger"
    /\ \/ /\ ~(seen.fighting /\ Budget("surrender") /\ ~Skipped("danger_surrender")
               /\ seen.risky)
          /\ Goto("potion")
          /\ UNCHANGED <<world, answered, dangers>>
       \/ /\ seen.fighting /\ Budget("surrender") /\ ~Skipped("danger_surrender")
          /\ seen.risky
          /\ \E s \in Statuses :
                /\ Asked("danger_surrender", s)
                /\ stall' = Noted(stall, "danger_surrender", s)
                /\ Goto(IF s = "ok" THEN "over" ELSE "potion")
                /\ dangers' = IF s = "ok" THEN Min({dangers + 1, 12}) ELSE dangers
                /\ world' = [world EXCEPT !.fighting = @ /\ s # "ok"]
    /\ UNCHANGED <<read, tick, outcomes, streak, force, tuned>>

Potion ==
    Stage("potion", "emergency",
          /\ seen.hp # "fine" /\ "hp_potion" \in seen.has
          /\ ~Skipped("hp_potion_use") /\ Budget("use_item"),
          "hp_potion_use",
          [world EXCEPT !.hp = "fine", !.has = @ \ {"hp_potion"}])

Wearing(p) == [world EXCEPT !.worn = @ \union {p}, !.spare = @ \ {p}]

\* Not asked: whether the key "equip" is stalled.
EmergencyEquip ==
    LET wanted == ~seen.fighting /\ Bare /\ seen.spare # {}
    IN  \/ /\ pc = "emergency" /\ wanted /\ ~Budget("use_item")
           /\ Goto("over")
           /\ UNCHANGED <<world, read, memory, answered>>
        \/ /\ ~wanted \/ Budget("use_item")
           /\ \E p \in IF wanted THEN seen.spare ELSE {"weapon"} :
                 Stage("emergency", "rest", wanted, "equip", Wearing(p))

Rest ==
    Stage("rest", "ward", seen.hp = "weak" /\ Budget("rest"), "rest",
          [world EXCEPT !.hp = "fine"])

\* ensureMutationShield: only a 400 lets the tick go on.
Ward ==
    LET buys == "charm" \notin seen.has /\ ~seen.fighting /\ Budget("buy") /\ terms.rich
        uses == "charm" \in seen.has /\ Budget("use_item")
        wanted == /\ seen.level >= PrepLevel
                  /\ "buff" \notin seen.has /\ ~Skipped("mutation_shield")
                  /\ buys \/ uses
    IN  /\ pc = "ward"
        /\ \/ ~wanted /\ Goto("equip") /\ UNCHANGED <<world, answered>>
           \/ /\ wanted
              /\ \E s \in Statuses :
                    /\ Asked("mutation_shield", s)
                    /\ stall' = Noted(stall, "mutation_shield", s)
                    /\ Goto(IF s = "bad" THEN "equip" ELSE "over")
                    /\ world' = [world EXCEPT !.has =
                          IF s # "ok" THEN @
                          ELSE IF buys THEN @ \union {"charm"}
                          ELSE (@ \ {"charm"}) \union {"buff"}]
        /\ UNCHANGED <<read, memory>>

Equip ==
    LET wanted == /\ ~seen.fighting /\ seen.spare # {}
                  /\ ~Skipped("equip") /\ Budget("use_item")
    IN  \E p \in IF wanted THEN seen.spare ELSE {"weapon"} :
           Stage("equip", "enhance_weapon", wanted, "equip", Wearing(p))

\* ensureSafeEnhancement: one target after the other; armour and accessory only
\* late in the game.  Without a smith there is no budget for it either.
Enhance(k, next) ==
    LET wanted == /\ ~seen.fighting /\ Budget("enhance") /\ terms.rich
                  /\ seen.level >= PrepLevel
                  /\ seen.crowd = "no" /\ seen.hp = "fine"
                  /\ Defeats = 0 /\ dangers = 0
                  /\ "scroll" \in seen.has
                  /\ k = "enhance_weapon" => "weapon" \in seen.worn
                  /\ k # "enhance_weapon" => seen.level = 3
                  /\ k = "enhance_armor" => "armor" \in seen.worn
                  /\ ~Skipped(k)
    IN  /\ pc = k
        /\ \/ ~wanted /\ Goto(next) /\ UNCHANGED <<world, answered>>
           \/ /\ wanted
              /\ \E s \in Statuses :
                    /\ Asked(k, s)
                    /\ stall' = IF s = "ok"
                                THEN [stall EXCEPT ![k] = [fails |-> 0,
                                                    until |-> tick + EnhanceTicks]]
                                ELSE Noted(stall, k, s)
                    /\ Goto(IF s = "ok" THEN "over" ELSE next)
                    /\ world' = [world EXCEPT !.has =
                                   IF s = "ok" THEN @ \ {"scroll"} ELSE @]
        /\ UNCHANGED <<read, memory>>

Buy(here, next, k, what) ==
    Stage(here, next,
          /\ ~seen.fighting /\ what \notin seen.has
          /\ ~Skipped(k) /\ Budget("buy") /\ terms.rich,
          k, [world EXCEPT !.has = @ \union {what}])

BackWhenArmoured ==                         \* mutant: the wrong way round
    IF "armor" \in seen.worn /\ seen.area # 1 THEN 1 ELSE seen.level

DesiredArea ==
    IF \/ Retreats
       \/ "armor" \notin seen.worn /\ seen.area # 1
       \/ seen.level = 1 /\ seen.area # 1
    THEN 1 ELSE seen.level

Move ==
    Stage("move", "fight",
          /\ ~seen.fighting /\ seen.area # DesiredArea
          /\ ~Skipped("move") /\ Budget("move"),
          "move", [world EXCEPT !.area = DesiredArea])

\* What kind of fight it will be; none without budget for hunting.
ChooseFight ==
    /\ pc = "fight"
    /\ Goto(CASE ~Budget("hunt") -> "over"
              [] Budget("hunt") /\ ~UseCombatStart ->
                   IF seen.fighting THEN "stuck" ELSE "hunt"
              [] Budget("hunt") /\ UseCombatStart ->
                   IF tick <= force \/ Skipped("combat_start") THEN "hunt"
                   ELSE "strategy")
    /\ UNCHANGED <<world, read, memory, answered>>

SurrenderStuck ==
    Stage("stuck", "over", Budget("surrender") /\ ~Skipped("surrender_stuck_hunt_mode"),
          "surrender_stuck_hunt_mode", [world EXCEPT !.fighting = FALSE])

\* /combat/strategy: when it changed, and now and then.
Strategy(changed) ==
    LET due == changed \/ tuned = 0 \/ tick - tuned >= RefreshTicks
    IN  /\ pc = "strategy"
        /\ Goto("start")
        /\ \/ ~due /\ UNCHANGED <<answered, tuned>>
           \/ /\ due
              /\ \E s \in Statuses :
                    /\ Asked("combat_strategy", s)
                    /\ stall' = Noted(stall, "combat_strategy", s)
                    /\ tuned' = IF s = "ok" THEN tick ELSE tuned
        /\ UNCHANGED <<world, read, tick, outcomes, dangers, streak, force>>

\* What may come of a fight.
Fought(haps) ==
    [world EXCEPT
        !.fighting = "fighting" \in haps,
        !.risky = "risky" \in haps,
        !.crowd = IF "junk" \in haps THEN "worse" ELSE @,
        !.spare = IF "find" \in haps THEN {"weapon", "armor"} \ world.worn ELSE @,
        !.hp = IF "weak" \in haps THEN "weak" ELSE IF "hurt" \in haps THEN "hurt" ELSE @,
        !.level = IF "level" \in haps THEN Min({@ + 1, 3}) ELSE @,
        !.has = IF "spend" \in haps THEN {} ELSE @]

\* Its outcome, if the answer has one.
Remembers(haps) ==
    outcomes' = IF "silent" \in haps THEN outcomes ELSE Pushed("defeat" \in haps)

StallOnly(n) == tick + Stall429Ticks        \* mutant: the streak is not added
AdaptiveUntil(n) == tick + Stall429Ticks + Min({6, n})

AlwaysHunt(s) == "hunt"                     \* mutant: a return is missing
AfterStart(s) == IF s \in {"limited", "gone", "deprecated"} THEN "hunt" ELSE "over"

CombatStart ==
    /\ pc = "start"
    /\ \E s \in Statuses, haps \in SUBSET Haps :
          LET n == Min({6, streak + 1}) IN
          /\ s # "ok" => haps = {}
          /\ Asked("combat_start", s)
          /\ Goto(AfterStart(s))
          /\ IF s = "limited"
             THEN /\ streak' = n
                  /\ stall' = [Noted(stall, "combat_start", s) EXCEPT
                        !["combat_start"].until = Max({@, AdaptiveUntil(n)})]
                  /\ force' = IF n >= FallbackThreshold
                              THEN Max({force, tick + FallbackTicks}) ELSE force
             ELSE /\ streak' = 0
                  /\ stall' = Noted(stall, "combat_start", s)
                  /\ force' = IF s = "ok" THEN 0 ELSE force
          /\ IF s = "ok" THEN world' = Fought(haps) /\ Remembers(haps)
                         ELSE UNCHANGED <<world, outcomes>>
    /\ UNCHANGED <<read, tick, dangers, tuned>>

\* Not asked: whether the key "hunt" is stalled.
Hunt ==
    /\ pc = "hunt"
    /\ \E s \in Statuses, haps \in SUBSET Haps :
          /\ s # "ok" => haps = {}
          /\ Asked("hunt", s)
          /\ stall' = Noted(stall, "hunt", s)
          /\ Goto("over")
          /\ IF s = "ok" THEN world' = Fought(haps) /\ Remembers(haps)
                         ELSE UNCHANGED <<world, outcomes>>
    /\ UNCHANGED <<read, tick, dangers, streak, force, tuned>>

\* main() is through, or a call threw: the process and its memory are gone.
Exit ==
    /\ \/ pc = "over" /\ ~MayStep
       \/ pc # "down" /\ "network" \in Trouble
    /\ pc' = IF Respawns THEN "over" ELSE "down"
    /\ tick' = 0
    /\ stall' = [k \in Keys |-> Fresh]
    /\ outcomes' = <<>> /\ dangers' = 0
    /\ streak' = 0 /\ force' = 0 /\ tuned' = 0
    /\ UNCHANGED <<world, read, made, heard>>

Step ==
    \/ \E bag \in BOOLEAN, short \in Shortages, rich \in Wealth :
          Begin(bag, [short |-> short, rich |-> rich])
    \/ Clean \/ Sell \/ SurrenderForEquip \/ DangerSurrender \/ Potion
    \/ EmergencyEquip \/ Rest \/ Ward \/ Equip
    \/ Enhance("enhance_weapon", "enhance_armor")
    \/ Enhance("enhance_armor", "enhance_accessory")
    \/ Enhance("enhance_accessory", "buyHp")
    \/ Buy("buyHp", "buyMp", "buy_hp", "hp_potion")
    \/ Buy("buyMp", "move", "buy_mp", "mp_potion")
    \/ Move \/ ChooseFight \/ SurrenderStuck
    \/ \E changed \in BOOLEAN : Strategy(changed)
    \/ CombatStart \/ Hunt

Next == (Step \/ Exit) /\ UNCHANGED setting

Spec == Init /\ [][Next]_vars

\* Every call comes back, and the daemon's loop goes on.
FairSpec == Spec /\ WF_vars(Next)

-----------------------------------------------------------------------------
(* Properties *)

Sends(k) == Len(made') = Len(made) + 1 /\ made'[Len(made')].key = k

\* "400 반복 액션은 anti-stall 쿨다운으로 일시 스킵" (README): a call that was
\* refused once too often, or with 429, is not made again for that many ticks.
Rested(k) ==
    /\ heard[k].status = "limited" => heard[k].age > Stall429Ticks
    /\ heard[k].status \in {"bad", "deprecated"} /\ heard[k].bad >= Stall400Threshold
          => heard[k].age > StallTicks

\* The keys that every use asks shouldSkipAction about.
Guarded == Keys \ {"inventory_sell", "equip", "rest", "combat_strategy", "hunt"}

StallsHonoured == [][\A k \in Guarded : Sends(k) => Rested(k)]_vars

\* After n refusals in a row with 429, /combat/start rests for n ticks more than
\* any other call (README: "연속 횟수(최대 +6 tick)를 더한 적응형 쿨다운").
AdaptiveBackoff ==
    [][Sends("combat_start") /\ heard["combat_start"].limits > 0 =>
          heard["combat_start"].age > Stall429Ticks + heard["combat_start"].limits]_vars

Made(S) == {i \in DOMAIN made : made[i].key \in S}
Granted(S) == {i \in Made(S) : made[i].status = "ok"}

\* Whatever falls back on what, a tick hunts once at most and fights one fight
\* at most (README: "같은 틱에서 1회").
OneFightPerTick ==
    Cardinality(Made({"hunt"})) <= 1 /\ Cardinality(Granted(Fights)) <= 1

\* Every call is answered with what it asks for.
Answered == setting.trouble = {}

\* With every call answered, nobody fights lacking a piece that is in the bag
\* (README: "장착 완료 후 사냥을 재개").
FightsDressed ==
    [][\A k \in IF Answered THEN Fights ELSE {} : Sends(k) =>
          ({"weapon", "armor"} \ world.worn) \intersect world.spare = {}]_vars

\* "keep/return to area1 until armor is secured" (comment at line 889).
Unarmoured == "armor" \notin world.worn

WaitsForArmour ==
    [][world'.area # world.area /\ world'.area # 1 => ~Unarmoured]_vars

\* With every call answered and the daemon at work, the runner comes back to
\* fighting, whatever it has to see to first; except past the first level without
\* armour, when it walks to and fro for ever.
FightsAgain ==
    Answered /\ Respawns =>
        \/ []<>(Made(Fights) # {})
        \/ <>[](Unarmoured /\ world.level > 1)
=============================================================================
