--------------------------- MODULE LiveRunner_proof ---------------------------
(* One fight per tick, and rest after refusals, for every setting, character  *)
(* and behaviour of the game.                                                 *)
EXTENDS LiveRunner, FiniteSetTheorems, TLAPS

\* The stages of a tick before its fight is chosen, and after that before the
\* first call of a fight.
Quiet == {"clean", "sell", "sellAfter", "undress", "danger", "potion", "emergency",
          "rest", "ward", "equip", "enhance_weapon", "enhance_armor",
          "enhance_accessory", "buyHp", "buyMp", "move", "fight", "stuck",
          "strategy", "start"}

Labels == Quiet \union {"hunt", "over", "down"}

Calls == [key : Keys, status : Statuses]

NoFight == \A i \in DOMAIN made : made[i].key \notin Fights

\* A fight that was refused may have gone before.
NothingWon ==
    \A i \in DOMAIN made :
        made[i].key # "hunt" /\ (made[i].key = "combat_start" => made[i].status # "ok")

OneOnly ==
    /\ \A i, j \in Made({"hunt"}) : i = j
    /\ \A i, j \in Granted(Fights) : i = j

\* The inductive invariant: what a tick may have fought, by where it is.
IInv ==
    /\ made \in Seq(Calls)
    /\ pc \in Labels
    /\ pc \in Quiet => NoFight
    /\ pc = "hunt" => NothingWon
    /\ OneOnly

-----------------------------------------------------------------------------
(* What a call adds to the history of a tick *)

LEMMA AnswersAreStatuses == ASSUME NEW k PROVE Answers(k) \subseteq Statuses
BY DEF Answers, Statuses

LEMMA AppendedCall ==
    ASSUME made \in Seq(Calls), NEW k \in Keys, NEW s, Asked(k, s)
    PROVE  /\ made' \in Seq(Calls)
           /\ Len(made') = Len(made) + 1
           /\ \A i \in DOMAIN made : i \in DOMAIN made' /\ made'[i] = made[i]
           /\ \A i \in DOMAIN made' : i \in DOMAIN made \/ i = Len(made')
           /\ made'[Len(made')] = [key |-> k, status |-> s]
<1>1. s \in Statuses
  BY AnswersAreStatuses DEF Asked
<1>2. [key |-> k, status |-> s] \in Calls
  BY <1>1 DEF Calls
<1> QED BY <1>2 DEF Asked

LEMMA NoFightIsHarmless == ASSUME NoFight PROVE NothingWon /\ OneOnly
BY DEF NoFight, NothingWon, OneOnly, Made, Granted, Fights

\* A call that is no fight changes nothing, while nothing has been fought.
LEMMA OtherCall ==
    ASSUME made \in Seq(Calls), NoFight, NEW k \in Keys \ Fights, NEW s, Asked(k, s)
    PROVE  made' \in Seq(Calls) /\ NoFight'
<1>1. k \in Keys
  OBVIOUS
<1>2. /\ made' \in Seq(Calls)
      /\ \A i \in DOMAIN made : made'[i] = made[i]
      /\ \A i \in DOMAIN made' : i \in DOMAIN made \/ i = Len(made')
      /\ made'[Len(made')] = [key |-> k, status |-> s]
  BY <1>1, AppendedCall
<1> QED BY <1>2 DEF NoFight

-----------------------------------------------------------------------------
(* The stages *)

\* A stage that makes no fight, or none at all, and goes on to a quiet stage or
\* ends the tick.
LEMMA QuietStep ==
    ASSUME IInv, pc \in Quiet,
           pc' \in Quiet \union {"over"},
           made' \in Seq(Calls), NoFight'
    PROVE  IInv'
<1>1. NoFight' => (NothingWon /\ OneOnly)'
  BY NoFightIsHarmless, PTL
<1> QED BY <1>1 DEF IInv, Labels, Quiet

LEMMA StageKeeps ==
    ASSUME IInv, NEW here \in Quiet, NEW next \in Quiet \union {"over"}, NEW wanted,
           NEW k \in Keys \ Fights, NEW after, Stage(here, next, wanted, k, after)
    PROVE  IInv'
<1>1. pc \in Quiet /\ made \in Seq(Calls) /\ NoFight
  BY DEF Stage, IInv
<1>2. pc' \in Quiet \union {"over"}
  BY DEF Stage, Goto
<1>3. made' \in Seq(Calls) /\ NoFight'
  <2>1. CASE UNCHANGED answered
    BY <1>1, <2>1 DEF answered, NoFight
  <2>2. CASE \E s \in Statuses : Asked(k, s)
    BY <1>1, <2>2, OtherCall
  <2> QED BY <2>1, <2>2 DEF Stage
<1> QED BY <1>1, <1>2, <1>3, QuietStep

\* The stages that are no instance of Stage.
LEMMA OtherStagesKeep ==
    ASSUME IInv,
           \/ Clean \/ DangerSurrender \/ Ward \/ ChooseFight
           \/ Enhance("enhance_weapon", "enhance_armor")
           \/ Enhance("enhance_armor", "enhance_accessory")
           \/ Enhance("enhance_accessory", "buyHp")
           \/ \E changed \in BOOLEAN : Strategy(changed)
    PROVE  IInv'
<1>1. pc \in Quiet /\ made \in Seq(Calls) /\ NoFight
  BY DEF IInv, Quiet, Clean, DangerSurrender, Ward, ChooseFight, Enhance, Strategy
<1>2. \/ UNCHANGED made
      \/ \E k \in Keys \ Fights, s \in Statuses : Asked(k, s)
  <2>1. {"surrender_inventory", "danger_surrender", "mutation_shield", "enhance_weapon",
         "enhance_armor", "enhance_accessory", "combat_strategy"} \subseteq Keys \ Fights
    BY DEF Keys, Fights
  <2> QED BY <2>1 DEF Clean, DangerSurrender, Ward, ChooseFight, Enhance, Strategy, answered
<1>3. made' \in Seq(Calls) /\ NoFight'
  BY <1>1, <1>2, OtherCall DEF NoFight
<1>4. pc' \in Quiet \union {"over", "hunt"} /\ (pc' = "hunt" => ChooseFight)
  BY DEF Clean, DangerSurrender, Ward, ChooseFight, Enhance, Strategy, Goto, Quiet
<1>5. (NothingWon /\ OneOnly)'
  BY <1>3, NoFightIsHarmless, PTL
<1> QED BY <1>3, <1>4, <1>5 DEF IInv, Labels, Quiet

LEMMA SellKeeps == ASSUME IInv, Sell PROVE IInv'
<1>1. pc \in Quiet /\ made \in Seq(Calls) /\ NoFight
  BY DEF IInv, Quiet, Sell
<1>2. pc' \in Quiet \union {"over"}
  BY DEF Sell, Goto, Quiet
<1>3. made' \in Seq(Calls) /\ NoFight'
  <2>1. CASE UNCHANGED answered
    BY <1>1, <2>1 DEF answered, NoFight
  <2>2. ASSUME NEW s \in Sales,
               made' = made \o [i \in DOMAIN s |-> [key |-> "inventory_sell", status |-> s[i]]]
        PROVE  made' \in Seq(Calls) /\ NoFight'
    <3>1. PICK n \in Nat : s \in [1..n -> Statuses]
      <4>1. s \in SeqOf(Answers("inventory_sell"), 2)
        BY DEF Sales
      <4>2. PICK n \in 0..2 : s \in [1..n -> Answers("inventory_sell")]
        BY <4>1 DEF SeqOf
      <4>3. Answers("inventory_sell") \subseteq Statuses
        BY AnswersAreStatuses
      <4>4. s \in [1..n -> Statuses]
        BY <4>2, <4>3
      <4> QED BY <4>4
    <3> DEFINE sold == [i \in DOMAIN s |-> [key |-> "inventory_sell", status |-> s[i]]]
    <3>2. sold \in [1..n -> Calls] /\ \A i \in 1..n : sold[i].key = "inventory_sell"
      BY <3>1 DEF Calls, Keys
    <3>3. sold \in Seq(Calls) /\ Len(sold) = n
      BY <3>2
    <3> HIDE DEF sold
    <3>4. made \o sold \in Seq(Calls)
      BY <1>1, <3>3
    <3>5. \A i \in DOMAIN (made \o sold) :
            \/ i \in DOMAIN made /\ (made \o sold)[i] = made[i]
            \/ \E j \in 1..n : (made \o sold)[i] = sold[j]
      <4>1. \A i \in 1..(Len(made) + n) :
              \/ i \in DOMAIN made /\ (made \o sold)[i] = made[i]
              \/ i - Len(made) \in 1..n /\ (made \o sold)[i] = sold[i - Len(made)]
        BY <1>1, <3>3
      <4> QED BY <1>1, <3>3, <4>1
    <3> QED BY <1>1, <2>2, <3>2, <3>4, <3>5 DEF NoFight, Fights, sold
  <2> QED BY <2>1, <2>2 DEF Sell
<1> QED BY <1>1, <1>2, <1>3, QuietStep

LEMMA BeginKeeps ==
    ASSUME IInv, NEW bag \in BOOLEAN, NEW t, Begin(bag, t)
    PROVE  IInv'
<1>1. made' = <<>> /\ pc' \in {"clean", "over"}
  BY DEF Begin, Goto
<1>2. made' \in Seq(Calls) /\ NoFight' /\ OneOnly'
  BY <1>1 DEF NoFight, OneOnly, Made, Granted
<1> QED BY <1>1, <1>2 DEF IInv, Labels, Quiet

LEMMA CombatStartKeeps == ASSUME IInv, CombatStart PROVE IInv'
<1>1. made \in Seq(Calls) /\ NoFight
  BY DEF IInv, Quiet, CombatStart
<1>2. PICK s \in Statuses : Asked("combat_start", s) /\ Goto(AfterStart(s))
  BY DEF CombatStart
<1>3. /\ made' \in Seq(Calls)
      /\ \A i \in DOMAIN made : made'[i] = made[i]
      /\ \A i \in DOMAIN made' : i \in DOMAIN made \/ i = Len(made')
      /\ made'[Len(made')] = [key |-> "combat_start", status |-> s]
  <2>1. "combat_start" \in Keys
    BY DEF Keys
  <2> QED BY <1>1, <1>2, <2>1, AppendedCall
<1>4. pc' \in {"hunt", "over"} /\ (pc' = "hunt" => s # "ok")
  BY <1>2 DEF AfterStart, Goto
<1>5. \A i \in DOMAIN made' : made'[i].key \in Fights =>
         i = Len(made') /\ made'[i].key = "combat_start" /\ made'[i].status = s
  BY <1>1, <1>3 DEF NoFight
<1>6. OneOnly'
  BY <1>5 DEF OneOnly, Made, Granted, Fights
<1>7. pc' = "hunt" => NothingWon'
  BY <1>4, <1>5 DEF NothingWon, Fights
<1> QED BY <1>3, <1>4, <1>6, <1>7 DEF IInv, Labels, Quiet

LEMMA HuntKeeps == ASSUME IInv, Hunt PROVE IInv'
<1>1. made \in Seq(Calls) /\ NothingWon
  BY DEF IInv, Hunt
<1>2. PICK s \in Statuses : Asked("hunt", s) /\ pc' = "over"
  BY DEF Hunt, Goto
<1>3. /\ made' \in Seq(Calls)
      /\ \A i \in DOMAIN made : made'[i] = made[i]
      /\ \A i \in DOMAIN made' : i \in DOMAIN made \/ i = Len(made')
      /\ made'[Len(made')] = [key |-> "hunt", status |-> s]
  <2>1. "hunt" \in Keys
    BY DEF Keys
  <2> QED BY <1>1, <1>2, <2>1, AppendedCall
<1>4. \A i \in DOMAIN made' :
         /\ made'[i].key = "hunt" => i = Len(made')
         /\ made'[i].key \in Fights /\ made'[i].status = "ok" => i = Len(made')
  BY <1>1, <1>3 DEF NothingWon, Fights
<1>5. OneOnly'
  <2>1. \A i \in Made({"hunt"})' : i = Len(made')
    BY <1>4 DEF Made
  <2>2. \A i \in Granted(Fights)' : i = Len(made')
    BY <1>4 DEF Made, Granted
  <2> QED BY <2>1, <2>2 DEF OneOnly
<1> QED BY <1>2, <1>3, <1>5 DEF IInv, Labels, Quiet

-----------------------------------------------------------------------------
(* The invariant *)

LEMMA Initially == Init => IInv
BY DEF Init, IInv, Labels, Quiet, OneOnly, Made, Granted

LEMMA StepKeeps == ASSUME IInv, Step PROVE IInv'
<1>1. {"surrender_for_equip", "hp_potion_use", "equip", "rest", "buy_hp", "buy_mp",
       "move", "surrender_stuck_hunt_mode"} \subseteq Keys \ Fights
  BY DEF Keys, Fights
<1>2. CASE \E bag \in BOOLEAN, short \in Shortages, rich \in Wealth :
             Begin(bag, [short |-> short, rich |-> rich])
  BY <1>2, BeginKeeps
<1>3. CASE Sell
  BY <1>3, SellKeeps
<1>4. CASE SurrenderForEquip \/ Potion \/ Rest \/ Move \/ SurrenderStuck
           \/ Buy("buyHp", "buyMp", "buy_hp", "hp_potion")
           \/ Buy("buyMp", "move", "buy_mp", "mp_potion")
  BY <1>1, <1>4, StageKeeps
     DEF SurrenderForEquip, Potion, Rest, Move, SurrenderStuck, Buy, Quiet
<1>5. CASE Equip
  BY <1>1, <1>5, StageKeeps DEF Equip, Quiet
<1>6. CASE EmergencyEquip
  <2>1. CASE pc = "emergency" /\ Goto("over") /\ UNCHANGED answered
    <3>1. pc \in Quiet /\ made \in Seq(Calls) /\ NoFight
      BY <2>1 DEF IInv, Quiet
    <3>2. made' = made /\ pc' = "over"
      BY <2>1 DEF answered, Goto
    <3> QED BY <3>1, <3>2, QuietStep DEF NoFight
  <2>2. ASSUME NEW p, NEW wanted, Stage("emergency", "rest", wanted, "equip", Wearing(p))
        PROVE  IInv'
    BY <1>1, <2>2, StageKeeps DEF Quiet
  <2> QED BY <1>6, <2>1, <2>2 DEF EmergencyEquip
<1>7. CASE CombatStart \/ Hunt
  BY <1>7, CombatStartKeeps, HuntKeeps
<1> QED BY <1>2, <1>3, <1>4, <1>5, <1>6, <1>7, OtherStagesKeep DEF Step

LEMMA Inductive == IInv /\ [Next]_vars => IInv'
<1> SUFFICES ASSUME IInv, [Next]_vars PROVE IInv'
  OBVIOUS
<1>1. CASE UNCHANGED vars
  BY <1>1 DEF IInv, vars, answered, NoFight, NothingWon, OneOnly, Made, Granted
<1>2. CASE Step
  BY <1>2, StepKeeps
<1>3. CASE Exit
  <2>1. made' = made /\ pc' \in {"over", "down"}
    BY <1>3 DEF Exit
  <2>2. OneOnly'
    BY <2>1 DEF IInv, OneOnly, Made, Granted
  <2> QED BY <2>1, <2>2 DEF IInv, Labels, Quiet
<1> QED BY <1>1, <1>2, <1>3 DEF Next

\* A set of places in a sequence no two of which differ has one at most.
LEMMA OneAtMost ==
    ASSUME NEW S, \A i, j \in S : i = j
    PROVE  Cardinality(S) <= 1
<1>1. CASE S = {}
  BY <1>1, FS_EmptySet
<1>2. CASE S # {}
  <2>1. PICK x \in S : S = {x}
    BY <1>2
  <2> QED BY <2>1, FS_Singleton
<1> QED BY <1>1, <1>2

\* In every tick of every process, whatever falls back on what and whatever the
\* game answers, /hunt is called once at most and one fight is fought.
THEOREM OneFight == Spec => []OneFightPerTick
<1>1. IInv => OneFightPerTick
  BY OneAtMost DEF IInv, OneOnly, OneFightPerTick
<1>2. Spec => []IInv
  BY Initially, Inductive, PTL DEF Spec
<1> QED BY <1>1, <1>2, PTL
-----------------------------------------------------------------------------
(* Stalls: what a process remembers of a refusal is enough to honour it. *)

\* inventory_sell is answered several times at once and is not a guarded key.
Single == Keys \ {"inventory_sell"}

\* The call rests until n ticks have passed since its last answer.
Resting(k, n) ==
    /\ stall[k].until >= 1
    /\ heard[k].age < MaxAge => stall[k].until + heard[k].age >= tick + n

\* stallState knows what was heard of a key.
Known(k) ==
    /\ stall[k] \in [fails : Nat, until : Nat]
    /\ heard[k] \in [status : Statuses, bad : Nat, limits : 0..6, age : 0..MaxAge]
    /\ heard[k].bad <= stall[k].fails
    /\ heard[k].status = "limited" => Resting(k, Stall429Ticks)
    /\ heard[k].status \in {"bad", "deprecated"} /\ heard[k].bad >= Stall400Threshold
          => Resting(k, StallTicks)

\* The longer rest of /combat/start, for its streak of 429.
Backed ==
    /\ heard["combat_start"].limits <= streak
    /\ heard["combat_start"].limits > 0 =>
          Resting("combat_start", Stall429Ticks + heard["combat_start"].limits)

Remembered ==
    /\ DOMAIN stall = Keys /\ DOMAIN heard = Keys
    /\ tick \in Nat /\ streak \in Nat
    /\ pc # "over" => tick >= 1
    /\ \A k \in Single : Known(k)
    /\ Backed
    /\ pc \in {"strategy", "start"} => ~Skipped("combat_start")

\* As long as the process is there.
RInv == ~Respawns /\ (pc # "down" => Remembered)

LEMMA MinOfTwo ==
    ASSUME NEW a \in Int, NEW b \in Int
    PROVE  Min({a, b}) = IF a <= b THEN a ELSE b
<1> DEFINE m == IF a <= b THEN a ELSE b
<1>1. m \in {a, b} /\ \A y \in {a, b} : m <= y
  OBVIOUS
<1>2. \A x \in {a, b} : (\A y \in {a, b} : x <= y) => x = m
  OBVIOUS
<1> QED BY <1>1, <1>2 DEF Min

LEMMA MaxOfTwo ==
    ASSUME NEW a \in Int, NEW b \in Int
    PROVE  Max({a, b}) = IF a >= b THEN a ELSE b
<1> DEFINE m == IF a >= b THEN a ELSE b
<1>1. m \in {a, b} /\ \A y \in {a, b} : m >= y
  OBVIOUS
<1>2. \A x \in {a, b} : (\A y \in {a, b} : x >= y) => x = m
  OBVIOUS
<1> QED BY <1>1, <1>2 DEF Max

\* A key that may be called has rested long enough.
LEMMA UpIsRested ==
    ASSUME Remembered, NEW k \in Single, tick >= 1, ~Skipped(k)
    PROVE  /\ Rested(k)
           /\ k = "combat_start" /\ heard[k].limits > 0 =>
                 heard[k].age > Stall429Ticks + heard[k].limits
<1>1. Known(k) /\ tick \in Nat
  BY DEF Remembered
<1>2. /\ MaxAge \in Nat /\ StallTicks \in Nat /\ Stall429Ticks \in Nat
      /\ MaxAge > StallTicks /\ MaxAge > Stall429Ticks + 6
  BY RunnerAssumption
<1>3. ASSUME NEW n \in Nat, Resting(k, n), MaxAge > n
      PROVE  heard[k].age > n
  <2>1. stall[k].until \in Nat /\ heard[k].age \in 0..MaxAge
    BY <1>1 DEF Known
  <2>2. tick > stall[k].until
    BY <1>1, <1>3, <2>1 DEF Skipped, Resting
  <2> QED BY <1>1, <1>2, <1>3, <2>1, <2>2 DEF Resting
<1>4. Rested(k)
  BY <1>1, <1>2, <1>3 DEF Rested, Known
<1>5. ASSUME k = "combat_start", heard[k].limits > 0
      PROVE  heard[k].age > Stall429Ticks + heard[k].limits
  <2>1. heard[k].limits \in 0..6 /\ Resting(k, Stall429Ticks + heard[k].limits)
    BY <1>1, <1>5 DEF Known, Remembered, Backed
  <2> QED BY <1>2, <1>3, <2>1
<1> QED BY <1>4, <1>5

\* What an answer leaves, in the table and in the history.
LEMMA AnswerKnown ==
    ASSUME Remembered, tick >= 1, NEW k \in Single, NEW s \in Statuses,
           tick' = tick, heard' = Heard(k, s), stall' = Noted(stall, k, s)
    PROVE  /\ DOMAIN stall' = Keys /\ DOMAIN heard' = Keys
           /\ \A j \in Single : Known(j)'
           /\ \A j \in Keys \ {k} : stall'[j] = stall[j] /\ heard'[j] = heard[j]
           /\ heard'[k].limits = IF s = "limited" THEN Min({heard[k].limits + 1, 6}) ELSE 0
           /\ heard'[k].age = 0 \/ s = "ok"
           /\ s = "limited" => /\ heard'[k].age = 0
                               /\ stall'[k] = [stall[k] EXCEPT !.until = tick + Stall429Ticks]
<1> DEFINE h == heard[k]
           o == stall[k]
           g == IF s = "ok" THEN Silent
                ELSE [status |-> s,
                      bad |-> IF s \in {"bad", "deprecated"}
                              THEN Min({h.bad + 1, Stall400Threshold}) ELSE h.bad,
                      limits |-> IF s = "limited" THEN Min({h.limits + 1, 6}) ELSE 0,
                      age |-> 0]
<1>1. /\ k \in Keys /\ Single \subseteq Keys /\ DOMAIN stall = Keys /\ DOMAIN heard = Keys
      /\ tick \in Nat /\ Known(k)
  BY DEF Remembered, Single
<1>2. /\ stall' = [stall EXCEPT ![k] = Recorded(o, s)]
      /\ heard' = [heard EXCEPT ![k] = g]
  BY <1>1 DEF Noted, Heard
<1>3. /\ DOMAIN stall' = Keys /\ DOMAIN heard' = Keys
      /\ stall'[k] = Recorded(o, s) /\ heard'[k] = g
      /\ \A j \in Keys \ {k} : stall'[j] = stall[j] /\ heard'[j] = heard[j]
  BY <1>1, <1>2
<1>4. \A j \in Single \ {k} : Known(j)'
  BY <1>1, <1>3 DEF Remembered, Known, Resting
<1>5. /\ MaxAge \in Nat /\ Stall400Threshold \in Nat \ {0} /\ StallTicks \in Nat
      /\ Stall429Ticks \in Nat
  BY RunnerAssumption
<1>6. /\ o.fails \in Nat /\ o.until \in Nat /\ h.bad \in Nat /\ h.limits \in 0..6
      /\ h.bad <= o.fails /\ o = [fails |-> o.fails, until |-> o.until]
  BY <1>1 DEF Known
<1>7. /\ Min({h.bad + 1, Stall400Threshold}) \in Nat
      /\ Min({h.bad + 1, Stall400Threshold}) <= h.bad + 1
      /\ Min({h.limits + 1, 6}) \in 0..6
      /\ Min({h.bad + 1, Stall400Threshold}) >= Stall400Threshold =>
            h.bad + 1 >= Stall400Threshold
  BY <1>5, <1>6, MinOfTwo
<1> HIDE DEF h, o
<1>8. Known(k)'
  <2>1. CASE s = "ok"
    <3>1. stall'[k] = Fresh /\ heard'[k] = Silent
      BY <1>3, <2>1 DEF Recorded
    <3> QED BY <3>1, <1>5 DEF Known, Fresh, Silent, Statuses
  <2>2. CASE s \in {"bad", "deprecated"}
    <3>1. /\ stall'[k] = [fails |-> o.fails + 1,
                          until |-> IF o.fails + 1 >= Stall400Threshold
                                    THEN tick + StallTicks ELSE o.until]
          /\ heard'[k] = [status |-> s, bad |-> Min({h.bad + 1, Stall400Threshold}),
                          limits |-> 0, age |-> 0]
      BY <1>3, <2>2 DEF Recorded
    <3> QED BY <3>1, <1>1, <1>5, <1>6, <1>7, <2>2 DEF Known, Resting, Statuses
  <2>3. CASE s = "limited"
    <3>1. /\ stall'[k] = [o EXCEPT !.until = tick + Stall429Ticks]
          /\ heard'[k] = [status |-> s, bad |-> h.bad,
                          limits |-> Min({h.limits + 1, 6}), age |-> 0]
      BY <1>3, <2>3 DEF Recorded
    <3> QED BY <3>1, <1>1, <1>5, <1>6, <1>7, <2>3 DEF Known, Resting, Statuses
  <2>4. CASE s \in {"gone", "other"}
    <3>1. /\ stall'[k] = o
          /\ heard'[k] = [status |-> s, bad |-> h.bad, limits |-> 0, age |-> 0]
      BY <1>3, <2>4 DEF Recorded
    <3> QED BY <3>1, <1>5, <1>6, <2>4 DEF Known, Resting, Statuses
  <2> QED BY <2>1, <2>2, <2>3, <2>4 DEF Statuses
<1>9. /\ heard'[k].limits = IF s = "limited" THEN Min({h.limits + 1, 6}) ELSE 0
      /\ heard'[k].age = 0 \/ s = "ok"
      /\ s = "limited" => /\ heard'[k].age = 0
                          /\ stall'[k] = [o EXCEPT !.until = tick + Stall429Ticks]
  BY <1>3 DEF Silent, Recorded
<1> QED BY <1>3, <1>4, <1>8, <1>9 DEF h, o

\* What a stage leaves that makes one call, if any, which is not /combat/start's.
LEMMA CallRemembers ==
    ASSUME Remembered, tick >= 1, NEW k \in Single \ {"combat_start"}, NEW s \in Statuses,
           heard' = Heard(k, s), stall' = Noted(stall, k, s),
           UNCHANGED <<tick, streak>>,
           pc' \in {"strategy", "start"} => pc \in {"strategy", "start"}
    PROVE  Remembered'
<1>1. /\ DOMAIN stall' = Keys /\ DOMAIN heard' = Keys
      /\ \A j \in Single : Known(j)'
      /\ \A j \in Keys \ {k} : stall'[j] = stall[j] /\ heard'[j] = heard[j]
  BY AnswerKnown
<1>2. "combat_start" \in Keys \ {k}
  BY DEF Keys
<1>3. Backed'
  BY <1>1, <1>2 DEF Remembered, Backed, Resting
<1> QED BY <1>1, <1>2, <1>3 DEF Remembered, Skipped

LEMMA StageRemembers ==
    ASSUME Remembered, NEW here, here # "over", NEW next,
           next \notin {"strategy", "start"}, NEW wanted,
           NEW k \in Single \ {"combat_start"}, NEW after,
           Stage(here, next, wanted, k, after)
    PROVE  Remembered'
<1>1. /\ pc = here /\ tick >= 1 /\ UNCHANGED <<tick, streak>>
      /\ pc' \in {"over", next}
  BY DEF Stage, Goto, Remembered, memory
<1>2. CASE UNCHANGED answered
  BY <1>1, <1>2 DEF answered, Remembered, Known, Backed, Resting
<1>3. CASE \E s \in Statuses : Asked(k, s) /\ stall' = Noted(stall, k, s)
  BY <1>1, <1>3, CallRemembers DEF Asked
<1> QED BY <1>2, <1>3 DEF Stage

\* Nothing is asked, or one call made that is not /combat/start.
LEMMA QuietRemembers ==
    ASSUME Remembered, pc # "over", UNCHANGED <<tick, streak>>,
           pc' \in {"strategy", "start"} => pc \in {"strategy", "start"},
           \/ UNCHANGED <<stall, heard>>
           \/ \E k \in Single \ {"combat_start"}, s \in Statuses :
                 Asked(k, s) /\ stall' = Noted(stall, k, s)
    PROVE  Remembered'
<1>1. tick >= 1
  BY DEF Remembered
<1>2. CASE UNCHANGED <<stall, heard>>
  BY <1>1, <1>2 DEF Remembered, Known, Backed, Resting, Skipped
<1>3. CASE \E k \in Single \ {"combat_start"}, s \in Statuses :
              Asked(k, s) /\ stall' = Noted(stall, k, s)
  BY <1>1, <1>3, CallRemembers DEF Asked
<1> QED BY <1>2, <1>3

LEMMA SinglesAre ==
    {"surrender_inventory", "surrender_for_equip", "danger_surrender", "hp_potion_use",
     "equip", "rest", "mutation_shield", "enhance_weapon", "enhance_armor",
     "enhance_accessory", "buy_hp", "buy_mp", "move", "surrender_stuck_hunt_mode",
     "combat_strategy", "hunt"} \subseteq Single \ {"combat_start"}
BY DEF Single, Keys

LEMMA OtherStagesRemember ==
    ASSUME Remembered,
           \/ Clean \/ DangerSurrender \/ Ward \/ Hunt
           \/ \E changed \in BOOLEAN : Strategy(changed)
    PROVE  Remembered'
<1>1. CASE Clean
  <2>1. /\ pc = "clean" /\ pc' \in {"sell", "sellAfter"} /\ UNCHANGED <<tick, streak>>
        /\ \/ UNCHANGED <<stall, heard>>
           \/ \E s \in Statuses : /\ Asked("surrender_inventory", s)
                                  /\ stall' = Noted(stall, "surrender_inventory", s)
    BY <1>1 DEF Clean, Goto, answered, memory
  <2> QED BY <2>1, QuietRemembers, SinglesAre
<1>2. CASE DangerSurrender
  <2>1. /\ pc = "danger" /\ pc' \in {"over", "potion"} /\ UNCHANGED <<tick, streak>>
        /\ \/ UNCHANGED <<stall, heard>>
           \/ \E s \in Statuses : /\ Asked("danger_surrender", s)
                                  /\ stall' = Noted(stall, "danger_surrender", s)
    BY <1>2 DEF DangerSurrender, Goto, answered
  <2> QED BY <2>1, QuietRemembers, SinglesAre
<1>3. CASE Ward
  <2>1. /\ pc = "ward" /\ pc' \in {"over", "equip"} /\ UNCHANGED <<tick, streak>>
        /\ \/ UNCHANGED <<stall, heard>>
           \/ \E s \in Statuses : /\ Asked("mutation_shield", s)
                                  /\ stall' = Noted(stall, "mutation_shield", s)
    BY <1>3 DEF Ward, Goto, answered, memory
  <2> QED BY <2>1, QuietRemembers, SinglesAre
<1>4. CASE Hunt
  <2>1. /\ pc = "hunt" /\ pc' = "over" /\ UNCHANGED <<tick, streak>>
        /\ \E s \in Statuses : Asked("hunt", s) /\ stall' = Noted(stall, "hunt", s)
    BY <1>4 DEF Hunt, Goto
  <2> QED BY <2>1, QuietRemembers, SinglesAre
<1>5. CASE \E changed \in BOOLEAN : Strategy(changed)
  <2>1. /\ pc = "strategy" /\ pc' = "start" /\ UNCHANGED <<tick, streak>>
        /\ \/ UNCHANGED <<stall, heard>>
           \/ \E s \in Statuses : /\ Asked("combat_strategy", s)
                                  /\ stall' = Noted(stall, "combat_strategy", s)
    BY <1>5 DEF Strategy, Goto, answered
  <2> QED BY <2>1, QuietRemembers, SinglesAre
<1> QED BY <1>1, <1>2, <1>3, <1>4, <1>5

\* The cooldown of a piece that was enhanced is no refusal.
LEMMA EnhanceRemembers ==
    ASSUME Remembered, NEW k \in {"enhance_weapon", "enhance_armor", "enhance_accessory"},
           NEW next, next \notin {"strategy", "start"}, Enhance(k, next)
    PROVE  Remembered'
<1>1. /\ pc = k /\ pc # "over" /\ pc' \in {"over", next} /\ UNCHANGED <<tick, streak>>
      /\ k \in Single \ {"combat_start"} /\ k \in Keys
  BY DEF Enhance, Goto, memory, Single, Keys
<1>2. CASE UNCHANGED answered
  BY <1>1, <1>2, QuietRemembers DEF answered
<1>3. ASSUME NEW s \in Statuses, s # "ok", Asked(k, s), stall' = Noted(stall, k, s)
      PROVE  Remembered'
  BY <1>1, <1>3, QuietRemembers
<1>4. ASSUME Asked(k, "ok"),
             stall' = [stall EXCEPT ![k] = [fails |-> 0, until |-> tick + EnhanceTicks]]
      PROVE  Remembered'
  <2>1. DOMAIN stall = Keys /\ DOMAIN heard = Keys /\ tick \in Nat /\ tick >= 1
    BY <1>1 DEF Remembered
  <2>2. heard' = [heard EXCEPT ![k] = Silent]
    BY <1>4 DEF Asked, Heard
  <2>3. /\ DOMAIN stall' = Keys /\ DOMAIN heard' = Keys
        /\ \A j \in Keys \ {k} : stall'[j] = stall[j] /\ heard'[j] = heard[j]
        /\ stall'[k] = [fails |-> 0, until |-> tick + EnhanceTicks]
        /\ heard'[k] = Silent
    BY <1>1, <1>4, <2>1, <2>2
  <2>4. Known(k)'
    BY <2>1, <2>3, RunnerAssumption DEF Known, Silent, Statuses
  <2>5. \A j \in Single \ {k} : Known(j)'
    BY <1>1, <2>3 DEF Remembered, Known, Resting, Single
  <2>6. Backed' /\ "combat_start" \in Keys \ {k}
    BY <1>1, <2>3 DEF Remembered, Backed, Resting, Keys
  <2> QED BY <1>1, <2>1, <2>3, <2>4, <2>5, <2>6 DEF Remembered
<1> QED BY <1>2, <1>3, <1>4 DEF Enhance

LEMMA ChooseFightRemembers == ASSUME Remembered, ChooseFight PROVE Remembered'
<1>1. /\ pc = "fight" /\ pc' \in {"over", "stuck", "hunt", "strategy"}
      /\ pc' = "strategy" => ~Skipped("combat_start")
      /\ UNCHANGED <<tick, streak, stall, heard>>
  BY DEF ChooseFight, Goto, memory, answered
<1> QED BY <1>1 DEF Remembered, Known, Backed, Resting, Skipped

LEMMA SellRemembers == ASSUME Remembered, Sell PROVE Remembered'
<1>1. /\ pc \in {"sell", "sellAfter"} /\ pc' \in {"sell", "undress", "over"}
      /\ UNCHANGED <<tick, streak, heard>>
  BY DEF Sell, Goto, memory, answered
<1>2. DOMAIN stall = Keys
  BY DEF Remembered
<1>3. \/ UNCHANGED stall
      \/ \E v : stall' = [stall EXCEPT !["inventory_sell"] = v]
  BY DEF Sell, answered
<1>4. DOMAIN stall' = Keys /\ \A j \in Single : stall'[j] = stall[j]
  BY <1>2, <1>3 DEF Single
<1>5. "combat_start" \in Single
  BY DEF Single, Keys
<1> QED BY <1>1, <1>4, <1>5 DEF Remembered, Known, Backed, Resting

LEMMA BeginRemembers ==
    ASSUME Remembered, NEW bag \in BOOLEAN, NEW t, Begin(bag, t)
    PROVE  Remembered'
<1>1. /\ tick' = tick + 1 /\ tick' >= 1 /\ tick \in Nat /\ DOMAIN heard = Keys
      /\ UNCHANGED <<stall, streak>> /\ pc' \in {"over", "clean"}
      /\ heard' = [k \in Keys |-> [heard[k] EXCEPT !.age = Min({@ + 1, MaxAge})]]
  BY DEF Begin, Goto, Remembered
<1>2. MaxAge \in Nat
  BY RunnerAssumption
<1>3. ASSUME NEW k \in Single
      PROVE  /\ Known(k)'
             /\ \A n \in Nat : Resting(k, n) => Resting(k, n)'
             /\ heard'[k].limits = heard[k].limits
  <2>1. Known(k) /\ k \in Keys
    BY DEF Remembered, Single
  <2>2. /\ heard[k] \in [status : Statuses, bad : Nat, limits : 0..6, age : 0..MaxAge]
        /\ heard[k].age \in 0..MaxAge /\ stall[k].until \in Nat
    BY <2>1 DEF Known
  <2>3. /\ heard'[k] = [heard[k] EXCEPT !.age = Min({heard[k].age + 1, MaxAge})]
        /\ Min({heard[k].age + 1, MaxAge}) =
              IF heard[k].age + 1 <= MaxAge THEN heard[k].age + 1 ELSE MaxAge
    BY <1>1, <1>2, <2>1, <2>2, MinOfTwo
  <2>4. /\ heard'[k] \in [status : Statuses, bad : Nat, limits : 0..6, age : 0..MaxAge]
        /\ heard'[k].status = heard[k].status /\ heard'[k].bad = heard[k].bad
        /\ heard'[k].limits = heard[k].limits
        /\ heard'[k].age < MaxAge => heard'[k].age = heard[k].age + 1
    BY <1>2, <2>2, <2>3
  <2>5. \A n \in Nat : Resting(k, n) => Resting(k, n)'
    BY <1>1, <1>2, <2>2, <2>4 DEF Resting
  <2>6. Known(k)'
    BY <1>1, <2>1, <2>4, <2>5, RunnerAssumption DEF Known
  <2> QED BY <2>4, <2>5, <2>6
<1>4. "combat_start" \in Single
  BY DEF Single, Keys
<1>5. Backed'
  <2> DEFINE limits == heard["combat_start"].limits
  <2>1. Stall429Ticks + limits \in Nat
    BY <1>4, RunnerAssumption DEF Remembered, Known
  <2>2. limits' = limits /\ (limits > 0 => Resting("combat_start", Stall429Ticks + limits))
    BY <1>3, <1>4 DEF Remembered, Backed
  <2>3. limits > 0 => /\ stall'["combat_start"].until >= 1
                      /\ heard'["combat_start"].age < MaxAge =>
                            stall'["combat_start"].until + heard'["combat_start"].age
                               >= tick' + (Stall429Ticks + limits)
    BY <1>3, <1>4, <2>1, <2>2 DEF Resting
  <2> QED BY <1>1, <2>2, <2>3 DEF Remembered, Backed, Resting
<1>6. \A k \in Single : Known(k)'
  BY <1>3
<1>7. /\ DOMAIN stall' = Keys /\ DOMAIN heard' = Keys
      /\ tick' \in Nat /\ streak' \in Nat
  BY <1>1 DEF Remembered
<1> QED BY <1>1, <1>5, <1>6, <1>7 DEF Remembered

LEMMA CombatStartRemembers == ASSUME Remembered, CombatStart PROVE Remembered'
<1> DEFINE k == "combat_start"
           n == Min({6, streak + 1})
<1>1. PICK s \in Statuses :
        /\ Asked(k, s)
        /\ Goto(AfterStart(s))
        /\ IF s = "limited"
           THEN /\ streak' = n
                /\ stall' = [Noted(stall, k, s) EXCEPT ![k].until = Max({@, AdaptiveUntil(n)})]
           ELSE streak' = 0 /\ stall' = Noted(stall, k, s)
  BY DEF CombatStart
<1>2. pc = "start" /\ pc' \in {"hunt", "over"} /\ tick' = tick /\ k \in Single /\ k \in Keys
  BY <1>1 DEF CombatStart, AfterStart, Goto, Single, Keys
<1>3. /\ tick >= 1 /\ tick \in Nat /\ streak \in Nat /\ Known(k)
      /\ DOMAIN stall = Keys /\ DOMAIN heard = Keys
  BY <1>2 DEF Remembered
<1>4. Stall429Ticks \in Nat /\ StallTicks \in Nat /\ Stall400Threshold \in Nat \ {0}
      /\ MaxAge \in Nat
  BY RunnerAssumption
<1>5. CASE s # "limited"
  <2>1. /\ DOMAIN stall' = Keys /\ DOMAIN heard' = Keys
        /\ \A j \in Single : Known(j)'
        /\ heard'[k].limits = 0
    BY <1>1, <1>2, <1>3, <1>5, AnswerKnown DEF Asked
  <2> QED BY <1>1, <1>2, <1>3, <1>5, <2>1 DEF Remembered, Backed
<1>6. CASE s = "limited"
  <2> DEFINE h == heard[k]
             o == stall[k]
             until == Max({tick + Stall429Ticks, AdaptiveUntil(n)})
             g == [status |-> "limited", bad |-> h.bad,
                   limits |-> Min({h.limits + 1, 6}), age |-> 0]
  <2>1. /\ h.limits \in 0..6 /\ h.limits <= streak /\ h.bad \in Nat
        /\ o.fails \in Nat /\ o.until \in Nat /\ h.bad <= o.fails
        /\ o = [fails |-> o.fails, until |-> o.until]
    BY <1>3 DEF Known, Remembered, Backed
  <2>2. /\ n \in 1..6 /\ Min({6, n}) = n
        /\ Min({h.limits + 1, 6}) \in 1..6 /\ Min({h.limits + 1, 6}) <= n
    <3>1. n = IF 6 <= streak + 1 THEN 6 ELSE streak + 1
      BY <1>3, MinOfTwo
    <3>2. n \in 1..6
      BY <1>3, <3>1
    <3>3. Min({6, n}) = n
      <4> HIDE DEF n
      <4> QED BY <3>2, MinOfTwo
    <3>4. Min({h.limits + 1, 6}) = IF h.limits + 1 <= 6 THEN h.limits + 1 ELSE 6
      <4> HIDE DEF h
      <4> QED BY <2>1, MinOfTwo
    <3> HIDE DEF h
    <3> QED BY <1>3, <2>1, <3>1, <3>2, <3>3, <3>4
  <2>3. AdaptiveUntil(n) = tick + Stall429Ticks + n
    BY <2>2 DEF AdaptiveUntil
  <2>4. until \in Nat /\ until >= tick + Stall429Ticks + n
    <3> HIDE DEF n
    <3>1. tick + Stall429Ticks \in Int /\ AdaptiveUntil(n) \in Int
      BY <1>3, <1>4, <2>2, <2>3
    <3>2. until = IF tick + Stall429Ticks >= AdaptiveUntil(n)
                  THEN tick + Stall429Ticks ELSE AdaptiveUntil(n)
      BY <3>1, MaxOfTwo
    <3> HIDE DEF until
    <3> QED BY <1>3, <1>4, <2>2, <2>3, <3>2
  <2>5. Noted(stall, k, s) = [stall EXCEPT ![k] = [o EXCEPT !.until = tick + Stall429Ticks]]
    BY <1>6 DEF Noted, Recorded
  <2>6. /\ DOMAIN stall' = Keys
        /\ stall'[k] = [fails |-> o.fails, until |-> until]
        /\ \A j \in Keys \ {k} : stall'[j] = stall[j]
    <3>1. DOMAIN Noted(stall, k, s) = Keys
      BY <1>3, <2>5
    <3>2. Noted(stall, k, s)[k] = [fails |-> o.fails, until |-> tick + Stall429Ticks]
      BY <1>2, <1>3, <2>1, <2>5
    <3>3. \A j \in Keys \ {k} : Noted(stall, k, s)[j] = stall[j]
      BY <1>3, <2>5
    <3> DEFINE st == Noted(stall, k, s)
    <3> HIDE DEF st
    <3>4. stall' = [st EXCEPT ![k].until = Max({@, AdaptiveUntil(n)})]
      BY <1>1, <1>6 DEF st
    <3>5. DOMAIN st = Keys /\ st[k] = [fails |-> o.fails, until |-> tick + Stall429Ticks]
          /\ \A j \in Keys \ {k} : st[j] = stall[j]
      BY <3>1, <3>2, <3>3 DEF st
    <3>6. stall' = [st EXCEPT ![k] = [st[k] EXCEPT !.until = Max({st[k].until, AdaptiveUntil(n)})]]
      BY <3>4
    <3> HIDE DEF n, o
    <3> QED BY <1>2, <3>5, <3>6
  <2>7. heard' = [heard EXCEPT ![k] = g]
    BY <1>1, <1>6 DEF Asked, Heard
  <2>8. /\ DOMAIN heard' = Keys /\ heard'[k] = g
        /\ \A j \in Keys \ {k} : heard'[j] = heard[j]
    BY <1>2, <1>3, <2>7
  <2> HIDE DEF until, n, h, o
  <2>9. /\ heard'[k].limits = g.limits /\ g.limits \in 1..6 /\ g.limits <= n
        /\ heard'[k].age = 0 /\ heard'[k].status = "limited"
        /\ stall'[k].until = until
    BY <2>2, <2>6, <2>8 DEF g
  <2>10. /\ Resting(k, Stall429Ticks)'
         /\ Resting(k, Stall429Ticks + heard[k].limits)'
    <3>1. /\ tick' = tick /\ n \in 1..6 /\ heard'[k].limits \in 1..6
          /\ heard'[k].limits <= n /\ heard'[k].age = 0
          /\ stall'[k].until \in Nat /\ stall'[k].until >= tick + Stall429Ticks + n
      BY <1>2, <2>2, <2>4, <2>9
    <3> HIDE DEF g
    <3> QED BY <1>3, <1>4, <3>1 DEF Resting
  <2>11. Known(k)'
    <3>1. stall'[k] \in [fails : Nat, until : Nat] /\ heard'[k].bad <= stall'[k].fails
      BY <2>1, <2>4, <2>6, <2>8 DEF g
    <3>2. heard'[k] \in [status : Statuses, bad : Nat, limits : 0..6, age : 0..MaxAge]
      BY <1>4, <2>1, <2>2, <2>8 DEF g, Statuses
    <3> QED BY <2>9, <2>10, <3>1, <3>2 DEF Known
  <2>12. \A j \in Single \ {k} : Known(j)'
    BY <1>2, <2>6, <2>8 DEF Remembered, Known, Resting, Single
  <2>13. streak' = n /\ streak' \in Nat
    BY <1>1, <1>6, <2>2 DEF n
  <2>14. Backed'
    <3>1. heard'["combat_start"].limits <= streak'
      BY <2>9, <2>13
    <3> QED BY <2>10, <3>1 DEF Backed
  <2> QED BY <1>2, <1>3, <2>6, <2>8, <2>11, <2>12, <2>13, <2>14 DEF Remembered
<1> QED BY <1>5, <1>6

LEMMA StepRemembers == ASSUME Remembered, Step PROVE Remembered'
<1>1. CASE \E bag \in BOOLEAN, short \in Shortages, rich \in Wealth :
             Begin(bag, [short |-> short, rich |-> rich])
  BY <1>1, BeginRemembers
<1>2. CASE Clean \/ DangerSurrender \/ Ward \/ Hunt
           \/ \E changed \in BOOLEAN : Strategy(changed)
  BY <1>2, OtherStagesRemember
<1>3. CASE Sell \/ ChooseFight \/ CombatStart
  BY <1>3, SellRemembers, ChooseFightRemembers, CombatStartRemembers
<1>4. CASE \/ Enhance("enhance_weapon", "enhance_armor")
           \/ Enhance("enhance_armor", "enhance_accessory")
           \/ Enhance("enhance_accessory", "buyHp")
  BY <1>4, EnhanceRemembers
<1>5. CASE SurrenderForEquip \/ Potion \/ Rest \/ Move \/ SurrenderStuck \/ Equip
           \/ Buy("buyHp", "buyMp", "buy_hp", "hp_potion")
           \/ Buy("buyMp", "move", "buy_mp", "mp_potion")
  BY <1>5, StageRemembers, SinglesAre
     DEF SurrenderForEquip, Potion, Rest, Move, SurrenderStuck, Equip, Buy
<1>6. CASE EmergencyEquip
  <2>1. CASE pc = "emergency" /\ Goto("over") /\ UNCHANGED <<memory, answered>>
    BY <2>1, QuietRemembers DEF Goto, memory, answered
  <2>2. ASSUME NEW p, NEW wanted, Stage("emergency", "rest", wanted, "equip", Wearing(p))
        PROVE  Remembered'
    BY <2>2, StageRemembers, SinglesAre
  <2> QED BY <1>6, <2>1, <2>2 DEF EmergencyEquip
<1> QED BY <1>1, <1>2, <1>3, <1>4, <1>5, <1>6 DEF Step

LEMMA RememberedInitially == Init /\ ~Respawns => RInv
<1> SUFFICES ASSUME Init, ~Respawns PROVE RInv
  OBVIOUS
<1>1. /\ ~Respawns /\ pc = "over" /\ tick = 0 /\ streak = 0
      /\ stall = [k \in Keys |-> Fresh] /\ heard = [k \in Keys |-> Silent]
  BY DEF Init
<1>2. \A k \in Single : Known(k)
  BY <1>1, RunnerAssumption DEF Single, Known, Fresh, Silent, Statuses
<1>3. Backed
  BY <1>1 DEF Backed, Silent, Keys
<1> QED BY <1>1, <1>2, <1>3 DEF RInv, Remembered

LEMMA RememberedAlways == RInv /\ [Next]_vars => RInv'
<1> SUFFICES ASSUME RInv, [Next]_vars PROVE RInv'
  OBVIOUS
<1>1. CASE UNCHANGED vars
  BY <1>1 DEF RInv, Remembered, Respawns, Known, Backed, Resting, Skipped,
              vars, memory, answered
<1>2. CASE Step /\ UNCHANGED setting
  <2>1. pc # "down"
    BY <1>2 DEF Step, Begin, Clean, Sell, SurrenderForEquip, DangerSurrender, Potion,
                EmergencyEquip, Rest, Ward, Equip, Enhance, Buy, Move, ChooseFight,
                SurrenderStuck, Strategy, CombatStart, Hunt, Stage
  <2> QED BY <1>2, <2>1, StepRemembers DEF RInv, Respawns
<1>3. CASE Exit /\ UNCHANGED setting
  BY <1>3 DEF Exit, RInv, Respawns
<1> QED BY <1>1, <1>2, <1>3 DEF Next

\* What a step sends is what it has asked.
LEMMA SentIsAsked ==
    ASSUME IInv, NEW k \in Keys, NEW s, Asked(k, s), NEW j, Sends(j)
    PROVE  j = k
<1>1. made' = Append(made, [key |-> k, status |-> s]) /\ made \in Seq(Calls)
  BY DEF Asked, IInv
<1>2. made'[Len(made')] = [key |-> k, status |-> s]
  BY <1>1, AppendedCall DEF IInv
<1> QED BY <1>2 DEF Sends

LEMMA StageSends ==
    ASSUME IInv, NEW here, NEW next, NEW wanted, NEW k \in Keys, NEW after,
           Stage(here, next, wanted, k, after), NEW j, Sends(j)
    PROVE  j = k /\ wanted /\ pc = here
<1>1. CASE UNCHANGED answered
  BY <1>1 DEF answered, Sends, IInv
<1>2. CASE wanted /\ \E s \in Statuses : Asked(k, s)
  BY <1>2, SentIsAsked DEF Stage
<1> QED BY <1>1, <1>2 DEF Stage

LEMMA SellSends ==
    ASSUME IInv, Sell, NEW j, Sends(j) PROVE j = "inventory_sell"
<1>1. made \in Seq(Calls)
  BY DEF IInv
<1>2. CASE UNCHANGED answered
  BY <1>1, <1>2 DEF answered, Sends
<1>3. ASSUME NEW s \in Sales,
             made' = made \o [i \in DOMAIN s |-> [key |-> "inventory_sell", status |-> s[i]]]
      PROVE  j = "inventory_sell"
  <2>1. PICK n \in 0..2 : s \in [1..n -> Answers("inventory_sell")]
    BY DEF Sales, SeqOf
  <2> DEFINE sold == [i \in DOMAIN s |-> [key |-> "inventory_sell", status |-> s[i]]]
  <2>2. /\ sold \in Seq({[key |-> "inventory_sell", status |-> x]
                            : x \in Answers("inventory_sell")})
        /\ Len(sold) = n /\ \A i \in 1..n : sold[i].key = "inventory_sell"
    BY <2>1
  <2> HIDE DEF sold
  <2>3. made' = made \o sold
    BY <1>3 DEF sold
  <2>4. Len(made') = Len(made) + n
    BY <1>1, <2>2, <2>3
  <2>5. n = 1
    BY <1>1, <2>1, <2>4 DEF Sends
  <2>6. made'[Len(made')] = sold[1]
    BY <1>1, <2>2, <2>3, <2>4, <2>5
  <2> QED BY <2>2, <2>5, <2>6 DEF Sends
<1> QED BY <1>2, <1>3 DEF Sell

\* Who calls a guarded key has asked whether it is stalled.
LEMMA GuardedAsk ==
    ASSUME IInv, Remembered, Step, NEW k \in Guarded, Sends(k)
    PROVE  ~Skipped(k) /\ pc # "over"
<1>1. made \in Seq(Calls) /\ Len(made) \in Nat
  BY DEF IInv
<1>2. /\ {"equip", "rest", "combat_strategy", "hunt", "inventory_sell"} \intersect Guarded = {}
      /\ {"surrender_inventory", "surrender_for_equip", "danger_surrender", "hp_potion_use",
          "equip", "rest", "mutation_shield", "enhance_weapon", "enhance_armor",
          "enhance_accessory", "buy_hp", "buy_mp", "move", "surrender_stuck_hunt_mode",
          "combat_strategy", "combat_start", "hunt"} \subseteq Keys
  BY DEF Guarded, Keys
<1>3. ~UNCHANGED made /\ made' # <<>>
  BY <1>1 DEF Sends
<1>4. CASE \E bag \in BOOLEAN, short \in Shortages, rich \in Wealth :
             Begin(bag, [short |-> short, rich |-> rich])
  BY <1>3, <1>4 DEF Begin
<1>5. CASE Sell
  BY <1>2, <1>5, SellSends
<1>6. CASE Clean
  BY <1>2, <1>3, <1>6, SentIsAsked DEF Clean, answered
<1>7. CASE DangerSurrender
  BY <1>2, <1>3, <1>7, SentIsAsked DEF DangerSurrender, answered
<1>8. CASE Ward
  BY <1>2, <1>3, <1>8, SentIsAsked DEF Ward, answered
<1>9. CASE \/ Enhance("enhance_weapon", "enhance_armor")
           \/ Enhance("enhance_armor", "enhance_accessory")
           \/ Enhance("enhance_accessory", "buyHp")
  <2>1. ASSUME NEW e \in {"enhance_weapon", "enhance_armor", "enhance_accessory"}, NEW next,
               Enhance(e, next)
        PROVE  ~Skipped(k) /\ pc # "over"
    BY <1>2, <1>3, <2>1, SentIsAsked DEF Enhance, answered
  <2> QED BY <1>9, <2>1
<1>10. CASE ChooseFight
  BY <1>3, <1>10 DEF ChooseFight, answered
<1>11. CASE \E changed \in BOOLEAN : Strategy(changed)
  BY <1>2, <1>3, <1>11, SentIsAsked DEF Strategy, answered
<1>12. CASE CombatStart
  <2>1. k = "combat_start" /\ pc = "start"
    BY <1>2, <1>12, SentIsAsked DEF CombatStart
  <2> QED BY <2>1 DEF Remembered
<1>13. CASE Hunt
  BY <1>2, <1>13, SentIsAsked DEF Hunt
<1>14. CASE SurrenderForEquip
  BY <1>2, <1>3, <1>14, SentIsAsked DEF SurrenderForEquip, Stage, answered
<1>15. CASE Potion
  BY <1>2, <1>3, <1>15, SentIsAsked DEF Potion, Stage, answered
<1>16. CASE Rest
  BY <1>2, <1>16, StageSends DEF Rest
<1>17. CASE Move
  BY <1>2, <1>3, <1>17, SentIsAsked DEF Move, Stage, answered
<1>18. CASE SurrenderStuck
  BY <1>2, <1>3, <1>18, SentIsAsked DEF SurrenderStuck, Stage, answered
<1>19. CASE Buy("buyHp", "buyMp", "buy_hp", "hp_potion")
  BY <1>2, <1>3, <1>19, SentIsAsked DEF Buy, Stage, answered
<1>20. CASE Buy("buyMp", "move", "buy_mp", "mp_potion")
  BY <1>2, <1>3, <1>20, SentIsAsked DEF Buy, Stage, answered
<1>21. CASE Equip
  BY <1>2, <1>21, StageSends DEF Equip
<1>22. CASE EmergencyEquip
  <2>1. CASE UNCHANGED answered
    BY <1>3, <2>1 DEF answered
  <2>2. ASSUME NEW p, NEW wanted, Stage("emergency", "rest", wanted, "equip", Wearing(p))
        PROVE  FALSE
    BY <1>2, <2>2, StageSends
  <2> QED BY <1>22, <2>1, <2>2 DEF EmergencyEquip
<1> QED BY <1>4, <1>5, <1>6, <1>7, <1>8, <1>9, <1>10, <1>11, <1>12, <1>13, <1>14, <1>15,
           <1>16, <1>17, <1>18, <1>19, <1>20, <1>21, <1>22 DEF Step

\* What a guarded call of a step has behind it.
LEMMA SentAfterRest ==
    ASSUME IInv, RInv, [Next]_vars, NEW k \in Guarded, Sends(k)
    PROVE  /\ Rested(k)
           /\ k = "combat_start" /\ heard[k].limits > 0 =>
                 heard[k].age > Stall429Ticks + heard[k].limits
<1>1. made' # made
  BY DEF Sends, IInv
<1>2. Step
  BY <1>1 DEF Next, Exit, vars, answered
<1>3. pc # "down"
  BY <1>2 DEF Step, Begin, Clean, Sell, SurrenderForEquip, DangerSurrender, Potion,
              EmergencyEquip, Rest, Ward, Equip, Enhance, Buy, Move, ChooseFight,
              SurrenderStuck, Strategy, CombatStart, Hunt, Stage
<1>4. Remembered /\ k \in Single
  BY <1>3 DEF RInv, Guarded, Single
<1>5. ~Skipped(k) /\ tick >= 1
  BY <1>2, <1>4, GuardedAsk DEF Remembered
<1> QED BY <1>4, <1>5, UpIsRested

-----------------------------------------------------------------------------
(* With every call answered, a tick fights with the gear it has. *)

\* A piece lacks that may be in the bag.
Undressed == Bare /\ seen.spare # {}

AtRest == {"rest", "ward", "equip", "enhance_weapon", "enhance_armor",
           "enhance_accessory", "buyHp", "buyMp", "move", "fight", "stuck",
           "strategy", "start", "hunt"}

Between == {"danger", "potion", "emergency"}

\* What the tick has read is so until a call ends it; who is undressed has left
\* the fight by the stage after "undress", and is not there after "emergency".
Serving ==
    /\ terms.short = {}
    /\ DOMAIN stall = Keys
    /\ \A k \in {"inventory_sell", "surrender_for_equip", "equip"} : stall[k] = Fresh
    /\ pc \in {"clean", "sell", "undress"} \union Between \union AtRest => world = seen
    /\ pc = "sellAfter" => seen.crowd # "no"
    /\ pc \in Between => ~(Undressed /\ seen.fighting)
    /\ pc \in AtRest => ~Undressed

AInv == Answered => Serving

\* No budget is used up, if the calls are all answered.
InBudget == Answered => setting.shortages \subseteq {{}}

LEMMA OnlyOk ==
    ASSUME Answered, NEW k, k \notin Surrenders \/ world.fighting
    PROVE  Answers(k) = {"ok"}
BY DEF Answered, Answers, Trouble

LEMMA NotStalled ==
    ASSUME Serving
    PROVE  /\ ~Skipped("inventory_sell") /\ ~Skipped("surrender_for_equip")
           /\ ~Skipped("equip") /\ \A b : Budget(b)
BY DEF Serving, Skipped, Fresh, Budget

\* An answer 200 leaves the table as it should be.
LEMMA OkKeepsTable ==
    ASSUME Serving, NEW k \in Keys, stall' = Noted(stall, k, "ok")
    PROVE  /\ DOMAIN stall' = Keys
           /\ \A j \in {"inventory_sell", "surrender_for_equip", "equip"} : stall'[j] = Fresh
<1>1. stall' = [stall EXCEPT ![k] = Fresh]
  BY DEF Noted, Recorded
<1> QED BY <1>1 DEF Serving, Keys

\* As does any answer to another key.
LEMMA OthersKeepTable ==
    ASSUME Serving, NEW k \in Keys \ {"inventory_sell", "surrender_for_equip", "equip"},
           NEW v, stall' = [stall EXCEPT ![k] = v]
    PROVE  /\ DOMAIN stall' = Keys
           /\ \A j \in {"inventory_sell", "surrender_for_equip", "equip"} : stall'[j] = Fresh
BY DEF Serving

\* A stage whose call is answered ends the tick, and changes nothing otherwise.
LEMMA StageServes ==
    ASSUME Serving, Answered, NEW here, NEW next, NEW wanted, NEW k \in Keys, NEW after,
           k \notin Surrenders \/ world.fighting,
           Stage(here, next, wanted, k, after)
    PROVE  /\ pc = here
           /\ UNCHANGED read
           /\ DOMAIN stall' = Keys
           /\ \A j \in {"inventory_sell", "surrender_for_equip", "equip"} : stall'[j] = Fresh
           /\ pc' = "over" \/ (~wanted /\ pc' = next /\ UNCHANGED world)
<1>1. CASE ~wanted /\ Goto(next) /\ UNCHANGED <<world, answered>>
  BY <1>1 DEF Stage, Goto, answered, Serving
<1>2. CASE \E s \in Statuses : /\ Asked(k, s) /\ stall' = Noted(stall, k, s)
                               /\ Goto(IF s = "ok" THEN "over" ELSE next)
  <2>1. stall' = Noted(stall, k, "ok") /\ pc' = "over"
    BY <1>2, OnlyOk DEF Asked, Goto
  <2> QED BY <2>1, OkKeepsTable DEF Stage
<1> QED BY <1>1, <1>2 DEF Stage

\* What remains to be shown of a step that does not begin a tick.
LEMMA ServesOn ==
    ASSUME Serving, UNCHANGED read, DOMAIN stall' = Keys,
           \A j \in {"inventory_sell", "surrender_for_equip", "equip"} : stall'[j] = Fresh,
           \/ pc' \in {"over", "down"}
           \/ pc' = "sellAfter" /\ seen.crowd # "no"
           \/ /\ UNCHANGED world /\ world = seen
              /\ pc' \in Between => ~(Undressed /\ seen.fighting)
              /\ pc' \in AtRest => ~Undressed
              /\ pc' # "sellAfter"
    PROVE  Serving'
BY DEF Serving, read, Undressed, Bare, Between, AtRest

LEMMA CleanServes == ASSUME Serving, Answered, Clean PROVE Serving'
<1>1. pc = "clean" /\ world = seen /\ UNCHANGED read
  BY DEF Clean, Serving
<1>2. CASE Goto("sell") /\ UNCHANGED <<world, answered>>
  BY <1>1, <1>2, ServesOn DEF Goto, answered, Serving, Between, AtRest
<1>3. CASE /\ seen.crowd = "worse" /\ seen.fighting
           /\ \E s \in Statuses :
                /\ Asked("surrender_inventory", s)
                /\ stall' = Noted(stall, "surrender_inventory", s)
                /\ Goto(IF s = "ok" /\ Budget("sell") THEN "sellAfter" ELSE "sell")
  <2>1. stall' = Noted(stall, "surrender_inventory", "ok") /\ pc' = "sellAfter"
    BY <1>1, <1>3, OnlyOk, NotStalled DEF Asked, Goto
  <2>2. "surrender_inventory" \in Keys /\ seen.crowd # "no"
    BY <1>3 DEF Keys
  <2> QED BY <1>1, <2>1, <2>2, OkKeepsTable, ServesOn
<1> QED BY <1>2, <1>3 DEF Clean

LEMMA SellServes == ASSUME Serving, Answered, Sell PROVE Serving'
<1>1. pc \in {"sell", "sellAfter"} /\ UNCHANGED read
  BY DEF Sell
<1>2. CASE pc = "sell" /\ Goto("undress") /\ UNCHANGED <<world, answered>>
  BY <1>1, <1>2, ServesOn DEF Goto, answered, Serving, Between, AtRest
<1>3. CASE pc = "sellAfter" /\ seen.crowd = "no"
  BY <1>3 DEF Serving
<1>4. ASSUME NEW s \in Sales, s = <<>> => "inventory_sell" \in Trouble,
             stall' = [stall EXCEPT !["inventory_sell"] = RecordedSales(@, s)],
             NEW next, Goto(IF "ok" \in ToSet(s) THEN "over" ELSE next)
      PROVE  Serving'
  <2>1. Answers("inventory_sell") = {"ok"}
    BY OnlyOk DEF Surrenders
  <2>2. PICK n \in 0..2 : s \in [1..n -> {"ok"}]
    BY <2>1 DEF Sales, SeqOf
  <2>3. s # <<>>
    BY <1>4 DEF Answered, Trouble
  <2>4. n \in {1, 2} /\ Len(s) = n /\ \A i \in 1..n : s[i] = "ok"
    BY <2>2, <2>3
  <2>5. RecordedSales(Fresh, s) = Fresh
    BY <2>3, <2>4 DEF RecordedSales, Recorded
  <2>6. "inventory_sell" \in Keys /\ DOMAIN stall = Keys /\ stall["inventory_sell"] = Fresh
    BY DEF Keys, Serving
  <2>7. stall' = [stall EXCEPT !["inventory_sell"] = Fresh]
    BY <1>4, <2>5, <2>6
  <2>8. pc' = "over"
    BY <1>4, <2>4 DEF Goto, ToSet
  <2> QED BY <1>1, <2>6, <2>7, <2>8, ServesOn DEF Serving
<1>5. ASSUME ~(/\ pc = "sellAfter" \/ (~seen.fighting /\ Budget("sell"))
               /\ seen.crowd # "no" /\ ~Skipped("inventory_sell")),
             pc = "sellAfter"
      PROVE  seen.crowd = "no"
  BY <1>5, NotStalled
<1> QED BY <1>1, <1>2, <1>3, <1>4, <1>5 DEF Sell

LEMMA OtherStagesServe ==
    ASSUME Serving, Answered,
           \/ DangerSurrender \/ Ward \/ ChooseFight \/ CombatStart \/ Hunt
           \/ \E changed \in BOOLEAN : Strategy(changed)
    PROVE  Serving'
<1>1. CASE DangerSurrender
  <2>1. pc = "danger" /\ world = seen /\ UNCHANGED read
    BY <1>1 DEF DangerSurrender, Serving, Between
  <2>2. CASE Goto("potion") /\ UNCHANGED <<world, answered>>
    BY <2>1, <2>2, ServesOn DEF Goto, answered, Serving, Between, AtRest
  <2>3. CASE seen.fighting /\ \E s \in Statuses :
                /\ Asked("danger_surrender", s)
                /\ stall' = Noted(stall, "danger_surrender", s)
                /\ Goto(IF s = "ok" THEN "over" ELSE "potion")
    <3>1. stall' = Noted(stall, "danger_surrender", "ok") /\ pc' = "over"
      BY <2>1, <2>3, OnlyOk DEF Asked, Goto
    <3> QED BY <2>1, <3>1, OkKeepsTable, ServesOn DEF Keys
  <2> QED BY <1>1, <2>2, <2>3 DEF DangerSurrender
<1>2. CASE Ward
  <2>1. pc = "ward" /\ world = seen /\ ~Undressed /\ UNCHANGED read
    BY <1>2 DEF Ward, Serving, AtRest
  <2>2. CASE Goto("equip") /\ UNCHANGED <<world, answered>>
    BY <2>1, <2>2, ServesOn DEF Goto, answered, Serving, Between, AtRest
  <2>3. CASE \E s \in Statuses :
                /\ Asked("mutation_shield", s)
                /\ stall' = Noted(stall, "mutation_shield", s)
                /\ Goto(IF s = "bad" THEN "equip" ELSE "over")
    <3>1. stall' = Noted(stall, "mutation_shield", "ok") /\ pc' = "over"
      BY <2>3, OnlyOk DEF Asked, Goto, Surrenders
    <3> QED BY <2>1, <3>1, OkKeepsTable, ServesOn DEF Keys
  <2> QED BY <1>2, <2>2, <2>3 DEF Ward
<1>3. CASE ChooseFight
  <2>1. pc = "fight" /\ world = seen /\ ~Undressed /\ UNCHANGED <<read, world, stall>>
    BY <1>3 DEF ChooseFight, Serving, AtRest, answered
  <2>2. pc' \in {"over", "stuck", "hunt", "strategy"}
    BY <1>3 DEF ChooseFight, Goto
  <2> QED BY <2>1, <2>2, ServesOn DEF Serving, Between
<1>4. CASE CombatStart
  <2>1. pc = "start" /\ UNCHANGED read
    BY <1>4 DEF CombatStart
  <2>2. stall' = Noted(stall, "combat_start", "ok") /\ pc' = "over"
    BY <1>4, OnlyOk DEF CombatStart, Asked, AfterStart, Goto, Surrenders
  <2> QED BY <2>1, <2>2, OkKeepsTable, ServesOn DEF Keys
<1>5. CASE Hunt
  <2>1. pc = "hunt" /\ UNCHANGED read /\ pc' = "over"
    BY <1>5 DEF Hunt, Goto
  <2>2. stall' = Noted(stall, "hunt", "ok")
    BY <1>5, OnlyOk DEF Hunt, Asked, Surrenders
  <2> QED BY <2>1, <2>2, OkKeepsTable, ServesOn DEF Keys
<1>6. CASE \E changed \in BOOLEAN : Strategy(changed)
  <2>1. /\ pc = "strategy" /\ world = seen /\ ~Undressed /\ UNCHANGED <<read, world>>
        /\ pc' = "start"
    BY <1>6 DEF Strategy, Serving, AtRest, Goto
  <2>2. CASE UNCHANGED stall
    BY <2>1, <2>2, ServesOn DEF Serving, Between
  <2>3. CASE \E s \in Statuses : stall' = Noted(stall, "combat_strategy", s)
    <3>1. "combat_strategy" \in Keys \ {"inventory_sell", "surrender_for_equip", "equip"}
      BY DEF Keys
    <3>2. \E v : stall' = [stall EXCEPT !["combat_strategy"] = v]
      BY <2>3 DEF Noted
    <3> QED BY <2>1, <3>1, <3>2, OthersKeepTable, ServesOn DEF Between
  <2> QED BY <1>6, <2>2, <2>3 DEF Strategy, answered
<1> QED BY <1>1, <1>2, <1>3, <1>4, <1>5, <1>6

LEMMA EnhanceServes ==
    ASSUME Serving, Answered, NEW k \in {"enhance_weapon", "enhance_armor",
                                         "enhance_accessory"},
           NEW next \in AtRest, Enhance(k, next)
    PROVE  Serving'
<1>1. pc = k /\ world = seen /\ ~Undressed /\ UNCHANGED read
  BY DEF Enhance, Serving, AtRest
<1>2. k \in Keys \ {"inventory_sell", "surrender_for_equip", "equip"}
  BY DEF Keys
<1>3. next # "sellAfter" /\ next \notin Between
  BY DEF AtRest, Between
<1>4. CASE Goto(next) /\ UNCHANGED <<world, answered>>
  BY <1>1, <1>3, <1>4, ServesOn DEF Goto, answered, Serving
<1>5. CASE \E s \in Statuses : \E v :
              /\ Asked(k, s) /\ stall' = [stall EXCEPT ![k] = v]
              /\ Goto(IF s = "ok" THEN "over" ELSE next)
  <2>1. pc' = "over" /\ \E v : stall' = [stall EXCEPT ![k] = v]
    BY <1>5, OnlyOk DEF Asked, Goto, Surrenders
  <2> QED BY <1>1, <1>2, <2>1, OthersKeepTable, ServesOn
<1> QED BY <1>4, <1>5 DEF Enhance, Noted

\* Stages after the emergency.
LEMMA LaterStageServes ==
    ASSUME Serving, Answered, NEW here \in AtRest,
           NEW next \in AtRest \union {"over"}, NEW wanted,
           NEW k \in Keys, NEW after, k \notin Surrenders \/ world.fighting,
           Stage(here, next, wanted, k, after)
    PROVE  Serving'
<1>1. /\ pc = here /\ UNCHANGED read /\ DOMAIN stall' = Keys
      /\ \A j \in {"inventory_sell", "surrender_for_equip", "equip"} : stall'[j] = Fresh
      /\ pc' = "over" \/ (pc' = next /\ UNCHANGED world)
  BY StageServes
<1>2. world = seen /\ ~Undressed
  BY <1>1 DEF Serving
<1>3. next # "sellAfter" /\ next \notin Between
  BY DEF AtRest, Between
<1> QED BY <1>1, <1>2, <1>3, ServesOn

\* The three before: who is undressed leaves the fight and puts a piece on.
LEMMA EarlierStagesServe ==
    ASSUME Serving, Answered, SurrenderForEquip \/ Potion \/ EmergencyEquip
    PROVE  Serving'
<1>1. {"surrender_for_equip", "hp_potion_use", "equip"} \subseteq Keys
  BY DEF Keys
<1>2. CASE SurrenderForEquip
  <2> DEFINE wanted == /\ Bare /\ seen.spare # {} /\ seen.fighting
                       /\ Budget("surrender") /\ ~Skipped("surrender_for_equip")
             after == [world EXCEPT !.fighting = FALSE]
  <2>1. Stage("undress", "danger", wanted, "surrender_for_equip", after)
    BY <1>2 DEF SurrenderForEquip
  <2>2. pc = "undress" /\ world = seen
    BY <2>1 DEF Stage, Serving
  <2>3. wanted <=> Undressed /\ seen.fighting
    BY NotStalled DEF Undressed
  <2> HIDE DEF wanted, after
  <2>4. CASE seen.fighting
    <3>1. /\ UNCHANGED read /\ DOMAIN stall' = Keys
          /\ \A j \in {"inventory_sell", "surrender_for_equip", "equip"} : stall'[j] = Fresh
          /\ pc' = "over" \/ (~wanted /\ pc' = "danger" /\ UNCHANGED world)
      BY <1>1, <2>1, <2>2, <2>4, StageServes
    <3> QED BY <2>2, <2>3, <3>1, ServesOn DEF Between, AtRest
  <2>5. CASE ~seen.fighting
    <3>1. UNCHANGED <<read, world, stall>> /\ pc' = "danger"
      BY <2>1, <2>3, <2>5 DEF Stage, Goto, answered
    <3> QED BY <2>2, <2>5, <3>1, ServesOn DEF Serving, Between, AtRest
  <2> QED BY <2>4, <2>5
<1>3. CASE Potion
  <2> DEFINE wanted == /\ seen.hp # "fine" /\ "hp_potion" \in seen.has
                       /\ ~Skipped("hp_potion_use") /\ Budget("use_item")
             after == [world EXCEPT !.hp = "fine", !.has = @ \ {"hp_potion"}]
  <2>1. Stage("potion", "emergency", wanted, "hp_potion_use", after)
    BY <1>3 DEF Potion
  <2> HIDE DEF wanted, after
  <2>2. /\ pc = "potion" /\ UNCHANGED read /\ DOMAIN stall' = Keys
        /\ \A j \in {"inventory_sell", "surrender_for_equip", "equip"} : stall'[j] = Fresh
        /\ pc' = "over" \/ (pc' = "emergency" /\ UNCHANGED world)
    BY <1>1, <2>1, StageServes DEF Surrenders
  <2>3. world = seen /\ ~(Undressed /\ seen.fighting)
    BY <2>2 DEF Serving, Between
  <2> QED BY <2>2, <2>3, ServesOn DEF AtRest
<1>4. CASE EmergencyEquip
  <2> DEFINE wanted == ~seen.fighting /\ Bare /\ seen.spare # {}
  <2>1. PICK p : Stage("emergency", "rest", wanted, "equip", Wearing(p))
    BY <1>4, NotStalled DEF EmergencyEquip
  <2> HIDE DEF wanted
  <2>2. /\ pc = "emergency" /\ UNCHANGED read /\ DOMAIN stall' = Keys
        /\ \A j \in {"inventory_sell", "surrender_for_equip", "equip"} : stall'[j] = Fresh
        /\ pc' = "over" \/ (~wanted /\ pc' = "rest" /\ UNCHANGED world)
    BY <1>1, <2>1, StageServes DEF Surrenders
  <2>3. world = seen /\ ~(Undressed /\ seen.fighting)
    BY <2>2 DEF Serving, Between
  <2>4. ~wanted => ~Undressed
    BY <2>3 DEF wanted, Undressed
  <2> QED BY <2>2, <2>3, <2>4, ServesOn DEF Between
<1> QED BY <1>2, <1>3, <1>4

LEMMA StepServes ==
    ASSUME InBudget, Answered, Serving, Step
    PROVE  Serving'
<1>1. {"surrender_for_equip", "hp_potion_use", "equip", "rest", "buy_hp", "buy_mp",
       "move", "surrender_stuck_hunt_mode"} \subseteq Keys
  BY DEF Keys
<1>2. ASSUME NEW bag \in BOOLEAN, NEW short \in Shortages, NEW rich \in Wealth,
             Begin(bag, [short |-> short, rich |-> rich])
      PROVE  Serving'
  <2>1. short = {}
    BY DEF InBudget, Shortages
  <2>2. bag /\ pc' = "clean" /\ terms' = [short |-> short, rich |-> rich] /\ UNCHANGED stall
    BY <1>2 DEF Begin, Goto, Answered, Trouble
  <2>3. seen' = world'
    BY <1>2, <2>2 DEF Begin, Answered, Trouble
  <2> QED BY <2>1, <2>2, <2>3 DEF Serving, Between, AtRest
<1>3. CASE Clean \/ Sell
  BY <1>3, CleanServes, SellServes
<1>4. CASE SurrenderForEquip \/ Potion \/ EmergencyEquip
  BY <1>4, EarlierStagesServe
<1>5. CASE DangerSurrender \/ Ward \/ ChooseFight \/ CombatStart \/ Hunt
           \/ \E changed \in BOOLEAN : Strategy(changed)
  BY <1>5, OtherStagesServe
<1>6. CASE \/ Enhance("enhance_weapon", "enhance_armor")
           \/ Enhance("enhance_armor", "enhance_accessory")
           \/ Enhance("enhance_accessory", "buyHp")
  BY <1>6, EnhanceServes DEF AtRest
<1>7. CASE Rest \/ Move \/ Equip
           \/ Buy("buyHp", "buyMp", "buy_hp", "hp_potion")
           \/ Buy("buyMp", "move", "buy_mp", "mp_potion")
  <2>1. {"rest", "equip", "buy_hp", "buy_mp", "move"} \intersect Surrenders = {}
    BY DEF Surrenders
  <2>2. /\ {"rest", "buyHp", "buyMp", "move", "equip"} \subseteq AtRest
        /\ {"ward", "buyMp", "move", "fight", "enhance_weapon"} \subseteq AtRest \union {"over"}
    BY DEF AtRest
  <2> QED BY <1>1, <1>7, <2>1, <2>2, LaterStageServes DEF Rest, Move, Equip, Buy
<1>8. CASE SurrenderStuck
  <2> DEFINE wanted == Budget("surrender") /\ ~Skipped("surrender_stuck_hunt_mode")
             after == [world EXCEPT !.fighting = FALSE]
             k == "surrender_stuck_hunt_mode"
  <2>1. Stage("stuck", "over", wanted, k, after)
    BY <1>8 DEF SurrenderStuck
  <2>2. k \in Keys \ {"inventory_sell", "surrender_for_equip", "equip"}
    BY DEF Keys
  <2> HIDE DEF wanted, after, k
  <2>3. /\ UNCHANGED read /\ pc' = "over"
        /\ UNCHANGED stall \/ \E v : stall' = [stall EXCEPT ![k] = v]
    BY <2>1 DEF Stage, Goto, answered, Noted
  <2> QED BY <2>2, <2>3, OthersKeepTable, ServesOn DEF Serving
<1> QED BY <1>2, <1>3, <1>4, <1>5, <1>6, <1>7, <1>8 DEF Step

LEMMA ServesAlways == InBudget /\ AInv /\ [Next]_vars => (InBudget /\ AInv)'
<1> SUFFICES ASSUME InBudget, AInv, [Next]_vars PROVE (InBudget /\ AInv)'
  OBVIOUS
<1>1. setting' = setting
  BY DEF Next, vars
<1>2. SUFFICES ASSUME Answered PROVE Serving'
  BY <1>1 DEF AInv, InBudget, Answered
<1>3. Serving
  BY <1>2 DEF AInv
<1>4. CASE UNCHANGED vars
  BY <1>3, <1>4 DEF Serving, Undressed, Bare, vars, read, answered
<1>5. CASE Step
  BY <1>2, <1>3, <1>5, StepServes
<1>6. CASE Exit
  BY <1>3, <1>6 DEF Exit, Serving, read, Between, AtRest, Keys
<1> QED BY <1>4, <1>5, <1>6 DEF Next

LEMMA ServesInitially == Init => AInv
BY DEF Init, AInv, Serving, Between, AtRest, Keys

LEMMA FightSent ==
    ASSUME IInv, [Next]_vars, NEW k \in Fights, Sends(k)
    PROVE  pc \in AtRest
<1>1. made \in Seq(Calls) /\ Len(made) \in Nat
  BY DEF IInv
<1>2. /\ {"surrender_inventory", "surrender_for_equip", "danger_surrender", "hp_potion_use",
          "equip", "rest", "mutation_shield", "enhance_weapon", "enhance_armor",
          "enhance_accessory", "buy_hp", "buy_mp", "move", "surrender_stuck_hunt_mode",
          "combat_strategy", "combat_start", "hunt"} \subseteq Keys
      /\ {"surrender_inventory", "surrender_for_equip", "danger_surrender", "hp_potion_use",
          "equip", "inventory_sell"} \intersect Fights = {}
  BY DEF Fights, Keys
<1>3. ~UNCHANGED made /\ made' # <<>>
  BY <1>1 DEF Sends
<1>4. Step
  BY <1>3 DEF Next, Exit, vars, answered
<1>5. CASE \E bag \in BOOLEAN, short \in Shortages, rich \in Wealth :
             Begin(bag, [short |-> short, rich |-> rich])
  BY <1>3, <1>5 DEF Begin
<1>6. CASE Sell
  BY <1>2, <1>6, SellSends
<1>7. CASE Clean
  BY <1>2, <1>3, <1>7, SentIsAsked DEF Clean, answered
<1>8. CASE DangerSurrender
  BY <1>2, <1>3, <1>8, SentIsAsked DEF DangerSurrender, answered
<1>9. CASE SurrenderForEquip
  BY <1>2, <1>3, <1>9, SentIsAsked DEF SurrenderForEquip, Stage, answered
<1>10. CASE Potion
  BY <1>2, <1>3, <1>10, SentIsAsked DEF Potion, Stage, answered
<1>11. CASE EmergencyEquip
  <2>1. CASE UNCHANGED answered
    BY <1>3, <2>1 DEF answered
  <2>2. ASSUME NEW p, NEW wanted, Stage("emergency", "rest", wanted, "equip", Wearing(p))
        PROVE  FALSE
    BY <1>2, <2>2, StageSends
  <2> QED BY <1>11, <2>1, <2>2 DEF EmergencyEquip
<1>12. CASE \/ Rest \/ Ward \/ Equip \/ Move \/ ChooseFight \/ SurrenderStuck
            \/ Enhance("enhance_weapon", "enhance_armor")
            \/ Enhance("enhance_armor", "enhance_accessory")
            \/ Enhance("enhance_accessory", "buyHp")
            \/ Buy("buyHp", "buyMp", "buy_hp", "hp_potion")
            \/ Buy("buyMp", "move", "buy_mp", "mp_potion")
            \/ (\E changed \in BOOLEAN : Strategy(changed))
            \/ CombatStart \/ Hunt
  BY <1>12 DEF AtRest, Rest, Ward, Equip, Move, ChooseFight, SurrenderStuck, Enhance, Buy,
               Strategy, CombatStart, Hunt, Stage
<1> QED BY <1>4, <1>5, <1>6, <1>7, <1>8, <1>9, <1>10, <1>11, <1>12 DEF Step

\* Whatever a fight brings and whatever there is in the bag: where every call is
\* answered with what it asks for and no budget is used up, nobody fights lacking
\* a piece that is in the bag.
THEOREM NobodyFightsUndressed == Spec /\ InBudget => FightsDressed
<1>1. IInv /\ InBudget /\ AInv /\ [Next]_vars =>
        \A k \in IF Answered THEN Fights ELSE {} : Sends(k) =>
          ({"weapon", "armor"} \ world.worn) \intersect world.spare = {}
  <2> SUFFICES ASSUME IInv, AInv, [Next]_vars, Answered, NEW k \in Fights, Sends(k)
               PROVE  ({"weapon", "armor"} \ world.worn) \intersect world.spare = {}
    OBVIOUS
  <2>1. pc \in AtRest
    BY FightSent
  <2>2. world = seen /\ ~Undressed
    BY <2>1 DEF AInv, Serving
  <2> QED BY <2>2 DEF Undressed, Bare
<1>2. Init => IInv /\ AInv
  BY Initially, ServesInitially
<1> QED
  BY <1>1, <1>2, Inductive, ServesAlways, PTL DEF Spec, FightsDressed
-----------------------------------------------------------------------------
(* What was refused rests *)

\* Nothing was refused.
Unrefused ==
    /\ DOMAIN heard = Keys
    /\ \A j \in Keys : \E a : heard[j] = [Silent EXCEPT !.age = a]

\* Nor will the surrender of a fight: who has one gives it up.
UInv == Unrefused /\ (pc = "stuck" => seen.fighting)

LEMMA StillUnrefused ==
    ASSUME Answered, Unrefused, NEW k \in Keys, k \notin Surrenders \/ world.fighting,
           NEW s, Asked(k, s)
    PROVE  Unrefused'
<1>1. s = "ok"
  BY OnlyOk DEF Asked
<1>2. heard' = [heard EXCEPT ![k] = Silent]
  BY <1>1 DEF Asked, Heard
<1>3. Silent = [Silent EXCEPT !.age = MaxAge]
  BY DEF Silent
<1>4. DOMAIN heard' = Keys /\ \A j \in Keys : heard'[j] = IF j = k THEN Silent ELSE heard[j]
  BY <1>2 DEF Unrefused
<1> QED BY <1>3, <1>4 DEF Unrefused

LEMMA StageUnrefused ==
    ASSUME Answered, Unrefused, NEW here, NEW next, NEW wanted, NEW k \in Keys, NEW after,
           Stage(here, next, wanted, k, after), wanted => k \notin Surrenders \/ world.fighting
    PROVE  Unrefused' /\ UNCHANGED read /\ pc' \in {next, "over"}
<1>1. CASE UNCHANGED answered
  BY <1>1 DEF Stage, Goto, Unrefused, answered
<1>2. ASSUME NEW s \in Statuses, Asked(k, s), wanted PROVE Unrefused'
  BY <1>2, StillUnrefused
<1> QED BY <1>1, <1>2 DEF Stage, Goto

LEMMA StepUnrefused ==
    ASSUME IInv, Answered, Serving, UInv, Step
    PROVE  UInv'
<1>1. /\ {"surrender_inventory", "surrender_for_equip", "danger_surrender", "hp_potion_use",
          "equip", "rest", "mutation_shield", "enhance_weapon", "enhance_armor",
          "enhance_accessory", "buy_hp", "buy_mp", "move", "surrender_stuck_hunt_mode",
          "combat_strategy", "combat_start", "hunt"} \subseteq Keys
      /\ {"hp_potion_use", "equip", "rest", "mutation_shield", "enhance_weapon",
          "enhance_armor", "enhance_accessory", "buy_hp", "buy_mp", "move",
          "combat_strategy", "combat_start", "hunt"} \intersect Surrenders = {}
  BY DEF Keys, Surrenders
<1>2. Unrefused
  BY DEF UInv
<1>3. CASE \E bag \in BOOLEAN, short \in Shortages, rich \in Wealth :
             Begin(bag, [short |-> short, rich |-> rich])
  <2>1. heard' = [k \in Keys |-> [heard[k] EXCEPT !.age = Min({@ + 1, MaxAge})]]
    BY <1>3 DEF Begin
  <2>2. Unrefused'
    <3> SUFFICES ASSUME NEW j \in Keys PROVE \E a : heard'[j] = [Silent EXCEPT !.age = a]
      BY <2>1 DEF Unrefused, Silent
    <3>1. PICK a : heard[j] = [Silent EXCEPT !.age = a]
      BY <1>2 DEF Unrefused
    <3> DEFINE b == Min({heard[j].age + 1, MaxAge})
    <3>2. heard'[j] = [heard[j] EXCEPT !.age = b]
      BY <2>1
    <3> HIDE DEF b
    <3>3. heard'[j] = [Silent EXCEPT !.age = b]
      BY <3>1, <3>2 DEF Silent
    <3> QED BY <3>3
  <2>3. pc' # "stuck"
    BY <1>3 DEF Begin, Goto
  <2> QED BY <2>2, <2>3 DEF UInv
<1>4. CASE Sell
  <2>1. heard' = heard /\ pc' # "stuck"
    BY <1>4 DEF Sell, Goto, answered
  <2> QED BY <1>2, <2>1 DEF UInv, Unrefused
<1>5. CASE Clean
  <2>1. world = seen
    BY <1>5 DEF Clean, Serving
  <2>2. pc' # "stuck"
    BY <1>5 DEF Clean, Goto
  <2>3. CASE UNCHANGED answered
    BY <1>2, <2>2, <2>3 DEF UInv, Unrefused, answered
  <2>4. ASSUME NEW s, Asked("surrender_inventory", s), seen.fighting PROVE Unrefused'
    BY <1>1, <1>2, <2>1, <2>4, StillUnrefused
  <2> QED BY <1>5, <2>2, <2>3, <2>4 DEF Clean, UInv
<1>6. CASE DangerSurrender
  <2>1. world = seen
    BY <1>6 DEF DangerSurrender, Serving, Between
  <2>2. pc' # "stuck"
    BY <1>6 DEF DangerSurrender, Goto
  <2>3. CASE UNCHANGED answered
    BY <1>2, <2>2, <2>3 DEF UInv, Unrefused, answered
  <2>4. ASSUME NEW s, Asked("danger_surrender", s), seen.fighting PROVE Unrefused'
    BY <1>1, <1>2, <2>1, <2>4, StillUnrefused
  <2> QED BY <1>6, <2>2, <2>3, <2>4 DEF DangerSurrender, UInv
<1>7. CASE SurrenderForEquip
  <2>1. world = seen
    BY <1>7 DEF SurrenderForEquip, Stage, Serving
  <2> DEFINE wanted == /\ Bare /\ seen.spare # {} /\ seen.fighting
                       /\ Budget("surrender") /\ ~Skipped("surrender_for_equip")
             after == [world EXCEPT !.fighting = FALSE]
  <2>2. Stage("undress", "danger", wanted, "surrender_for_equip", after)
        /\ (wanted => world.fighting)
    BY <1>7, <2>1 DEF SurrenderForEquip
  <2> HIDE DEF wanted, after
  <2> QED BY <1>1, <1>2, <2>2, StageUnrefused DEF UInv
<1>8. CASE SurrenderStuck
  <2>1. world = seen /\ seen.fighting
    BY <1>8 DEF SurrenderStuck, Stage, Serving, AtRest, UInv
  <2> QED BY <1>1, <1>2, <1>8, <2>1, StageUnrefused DEF SurrenderStuck, UInv
<1>9. CASE Potion
  <2> DEFINE wanted == /\ seen.hp # "fine" /\ "hp_potion" \in seen.has
                       /\ ~Skipped("hp_potion_use") /\ Budget("use_item")
             after == [world EXCEPT !.hp = "fine", !.has = @ \ {"hp_potion"}]
  <2>1. Stage("potion", "emergency", wanted, "hp_potion_use", after)
    BY <1>9 DEF Potion
  <2> HIDE DEF wanted, after
  <2> QED BY <1>1, <1>2, <2>1, StageUnrefused DEF UInv
<1>10. CASE EmergencyEquip
  <2>1. CASE pc' = "over" /\ UNCHANGED answered
    BY <1>2, <2>1 DEF UInv, Unrefused, answered
  <2>2. ASSUME NEW p, NEW wanted, Stage("emergency", "rest", wanted, "equip", Wearing(p))
        PROVE  UInv'
    BY <1>1, <1>2, <2>2, StageUnrefused DEF UInv
  <2> QED BY <1>10, <2>1, <2>2 DEF EmergencyEquip, Goto
<1>11. CASE Rest
  BY <1>1, <1>2, <1>11, StageUnrefused DEF Rest, UInv
<1>12. CASE Ward
  <2>1. pc' # "stuck"
    BY <1>12 DEF Ward, Goto
  <2>2. CASE UNCHANGED answered
    BY <1>2, <2>1, <2>2 DEF UInv, Unrefused, answered
  <2>3. ASSUME NEW s, Asked("mutation_shield", s) PROVE Unrefused'
    BY <1>1, <1>2, <2>3, StillUnrefused
  <2> QED BY <1>12, <2>1, <2>2, <2>3 DEF Ward, UInv
<1>13. CASE Equip
  <2>1. ASSUME NEW p, NEW wanted, Stage("equip", "enhance_weapon", wanted, "equip", Wearing(p))
        PROVE  UInv'
    BY <1>1, <1>2, <2>1, StageUnrefused DEF UInv
  <2> QED BY <1>13, <2>1 DEF Equip
<1>14. ASSUME NEW e \in {"enhance_weapon", "enhance_armor", "enhance_accessory"},
              NEW next \in {"enhance_armor", "enhance_accessory", "buyHp"}, Enhance(e, next)
       PROVE  UInv'
  <2>1. pc' # "stuck"
    BY <1>14 DEF Enhance, Goto
  <2>2. CASE UNCHANGED answered
    BY <1>2, <2>1, <2>2 DEF UInv, Unrefused, answered
  <2>3. ASSUME NEW s, Asked(e, s) PROVE Unrefused'
    BY <1>1, <1>2, <2>3, StillUnrefused
  <2> QED BY <1>14, <2>1, <2>2, <2>3 DEF Enhance, UInv
<1>15. CASE Buy("buyHp", "buyMp", "buy_hp", "hp_potion")
            \/ Buy("buyMp", "move", "buy_mp", "mp_potion")
  <2>1. ASSUME NEW here, NEW next, next # "stuck", NEW k \in {"buy_hp", "buy_mp"}, NEW what,
               Buy(here, next, k, what)
        PROVE  UInv'
    <3> DEFINE wanted == /\ ~seen.fighting /\ what \notin seen.has
                         /\ ~Skipped(k) /\ Budget("buy") /\ terms.rich
               after == [world EXCEPT !.has = @ \union {what}]
    <3>1. Stage(here, next, wanted, k, after) /\ k \in Keys /\ k \notin Surrenders
      BY <1>1, <2>1 DEF Buy
    <3> HIDE DEF wanted, after
    <3> QED BY <1>2, <2>1, <3>1, StageUnrefused DEF UInv
  <2> QED BY <1>15, <2>1
<1>16. CASE Move
  <2> DEFINE wanted == /\ ~seen.fighting /\ seen.area # DesiredArea
                       /\ ~Skipped("move") /\ Budget("move")
             after == [world EXCEPT !.area = DesiredArea]
  <2>1. Stage("move", "fight", wanted, "move", after)
    BY <1>16 DEF Move
  <2> HIDE DEF wanted, after
  <2> QED BY <1>1, <1>2, <2>1, StageUnrefused DEF UInv
<1>17. CASE ChooseFight
  <2>1. pc' = "stuck" => seen.fighting
    BY <1>17 DEF ChooseFight, Goto
  <2> QED BY <1>2, <1>17, <2>1 DEF ChooseFight, UInv, Unrefused, read, answered
<1>18. CASE \E changed \in BOOLEAN : Strategy(changed)
  <2>1. pc' = "start"
    BY <1>18 DEF Strategy, Goto
  <2>2. CASE UNCHANGED answered
    BY <1>2, <2>1, <2>2 DEF UInv, Unrefused, answered
  <2>3. ASSUME NEW s, Asked("combat_strategy", s) PROVE Unrefused'
    BY <1>1, <1>2, <2>3, StillUnrefused
  <2>4. UNCHANGED answered \/ \E s \in Statuses : Asked("combat_strategy", s)
    BY <1>18 DEF Strategy, answered
  <2> QED BY <2>1, <2>2, <2>3, <2>4 DEF UInv
<1>19. CASE CombatStart
  <2>1. pc' # "stuck"
    BY <1>19 DEF CombatStart, Goto, AfterStart
  <2>2. \E s \in Statuses : Asked("combat_start", s)
    BY <1>19 DEF CombatStart
  <2> QED BY <1>1, <1>2, <2>1, <2>2, StillUnrefused DEF UInv
<1>20. CASE Hunt
  <2>1. pc' # "stuck"
    BY <1>20 DEF Hunt, Goto
  <2>2. \E s \in Statuses : Asked("hunt", s)
    BY <1>20 DEF Hunt
  <2> QED BY <1>1, <1>2, <2>1, <2>2, StillUnrefused DEF UInv
<1> QED BY <1>3, <1>4, <1>5, <1>6, <1>7, <1>8, <1>9, <1>10, <1>11, <1>12, <1>13, <1>14,
           <1>15, <1>16, <1>17, <1>18, <1>19, <1>20 DEF Step

\* What is known of a game that answers every call.
Obliging == InBudget /\ Answered /\ Serving /\ UInv

LEMMA ObligingInitially == Init /\ InBudget /\ Answered => Obliging
BY ServesInitially DEF Init, Obliging, AInv, UInv, Unrefused, Silent

LEMMA ObligingAlways == IInv /\ Obliging /\ [Next]_vars => Obliging'
<1> SUFFICES ASSUME IInv, Obliging, [Next]_vars PROVE Obliging'
  OBVIOUS
<1>1. InBudget' /\ Answered' /\ Serving'
  <2>1. setting' = setting
    BY DEF Next, vars
  <2>2. (InBudget /\ AInv)'
    BY ServesAlways DEF Obliging, AInv
  <2> QED BY <2>1, <2>2 DEF Obliging, AInv, Answered
<1>2. UInv'
  <2>1. CASE UNCHANGED vars
    BY <2>1 DEF Obliging, UInv, Unrefused, vars, read, answered
  <2>2. CASE Step
    BY <2>2, StepUnrefused DEF Obliging
  <2>3. CASE Exit
    BY <2>3 DEF Exit, Obliging, UInv, Unrefused
  <2> QED BY <2>1, <2>2, <2>3 DEF Next
<1> QED BY <1>1, <1>2 DEF Obliging

\* Where the memory of stalls matters, it is not lost with the process.
Remembering == Respawns => InBudget /\ Answered

LEMMA RememberingAlways == Spec /\ Remembering => [](IInv /\ (RInv \/ Obliging))
<1>1. Init /\ Remembering => IInv /\ (RInv \/ Obliging)
  BY Initially, RememberedInitially, ObligingInitially DEF Remembering
<1>2. IInv /\ (RInv \/ Obliging) /\ [Next]_vars => (IInv /\ (RInv \/ Obliging))'
  BY Inductive, RememberedAlways, ObligingAlways
<1> QED BY <1>1, <1>2, PTL DEF Spec

\* A call that was refused once too often, or with 429, is not made again for
\* that many ticks, whatever other calls and stages come between; as long as the
\* process is not started again, when it forgets, or nothing is refused.
THEOREM StallsKept == Spec /\ Remembering => StallsHonoured
<1>1. IInv /\ (RInv \/ Obliging) /\ [Next]_vars => \A k \in Guarded : Sends(k) => Rested(k)
  <2>1. IInv /\ RInv /\ [Next]_vars => \A k \in Guarded : Sends(k) => Rested(k)
    BY SentAfterRest
  <2>2. Obliging => \A k \in Guarded : Rested(k)
    BY DEF Obliging, UInv, Unrefused, Silent, Rested, Guarded
  <2> QED BY <2>1, <2>2
<1> QED BY <1>1, RememberingAlways, PTL DEF Spec, StallsHonoured

\* After n refusals in a row with 429, /combat/start rests for n ticks more than
\* any other call; under the same condition.
THEOREM BackoffAdapts == Spec /\ Remembering => AdaptiveBackoff
<1>1. IInv /\ (RInv \/ Obliging) /\ [Next]_vars =>
         (Sends("combat_start") /\ heard["combat_start"].limits > 0 =>
            heard["combat_start"].age > Stall429Ticks + heard["combat_start"].limits)
  <2>1. "combat_start" \in Guarded /\ "combat_start" \in Keys
    BY DEF Guarded, Keys
  <2>2. Obliging => heard["combat_start"].limits = 0
    BY <2>1 DEF Obliging, UInv, Unrefused, Silent
  <2> QED BY <2>1, <2>2, SentAfterRest
<1> QED BY <1>1, RememberingAlways, PTL DEF Spec, AdaptiveBackoff
=============================================================================
