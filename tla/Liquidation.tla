----------------------------- MODULE Liquidation -----------------------------
(* liquidateInventoryRisk of scripts/live-strategy-runner.js: gear is sold    *)
(* piece by piece until the bag is below its limit, what is worse than the    *)
(* worn gear first.  The shop's answers are not ours to choose.               *)
EXTENDS Integers, FiniteSets

CONSTANTS
    Items,          \* ids of equipment
    Places,         \* keys of `equipped`, as numbers in their order
    SlotOf,         \* equipSlot of an item's metadata
    NoSlot,         \* no metadata
    Score,          \* equipmentScore
    Tier,           \* rarity, then low-tier hint
    Name,           \* place in the order of the ids
    MaxQuantity,    \* bound: pieces of one item
    Others,         \* slots taken by things that are not equipment
    Trigger, Goal,  \* invSellTriggerSlots, invSellTargetSlots
    MaxIterations   \* invSellMaxIterationsPerTick

None == "none"

ASSUME LiquidationAssumption ==
    /\ None \notin Items
    /\ IsFiniteSet(Items) /\ IsFiniteSet(Places) /\ Places \subseteq Nat
    /\ Score \in [Items -> Nat] /\ Tier \in [Items -> Nat]
    /\ Name \in [Items -> Nat]
    /\ \A i, j \in Items : Name[i] = Name[j] => i = j
    /\ {MaxQuantity, Others, Trigger, Goal, MaxIterations} \subseteq Nat

VARIABLES
    inventory,      \* pieces of each item, worn ones included; 0: no entry
    worn,           \* what is worn where; an item is "none" if nothing is
    slots,          \* currentSlots
    iteration,      \* i of the for loop
    ended,          \* "no", "broke" on an answer, or "yes"
    before,         \* history: the inventory at the start
    refused         \* history: some answer was not 200

vars == <<inventory, worn, slots, iteration, ended, before, refused>>

Present(bag) == {i \in Items : bag[i] > 0}

\* What the server counts.
UsedSlots == Cardinality(Present(inventory)) + Others

\* getEquippedItemReserveMap: how many pieces are worn.
Reserve(i) == Cardinality({p \in Places : worn[p] = i})

Init ==
    /\ worn \in [Places -> Items \union {None}]
    /\ inventory \in [Items -> 0..MaxQuantity]
    /\ slots = UsedSlots
    /\ iteration = 0
    /\ ended = IF slots < Trigger THEN "yes" ELSE "no"
    /\ before = inventory
    /\ refused = FALSE

-----------------------------------------------------------------------------
(* Candidates *)

\* equippedBySlot: of two places with one slot, the last one counts.
InSlot(s) == {p \in Places : worn[p] # None /\ SlotOf[worn[p]] = s}
Compared(s) == worn[CHOOSE p \in InSlot(s) : \A q \in InSlot(s) : q <= p]

Worse(i) ==
    /\ inventory[i] > 0
    /\ SlotOf[i] # NoSlot
    /\ InSlot(SlotOf[i]) # {}
    /\ i # Compared(SlotOf[i])
    /\ Score[i] < Score[Compared(SlotOf[i])]

AnyWorse == {i \in Items : Worse(i)}

Against(i) == Score[Compared(SlotOf[i])]

\* Sorted by score, by the score it is compared with, and by id.
FirstWorse ==
    CHOOSE i \in AnyWorse : \A j \in AnyWorse :
        \/ Score[i] < Score[j]
        \/ Score[i] = Score[j] /\ Against(i) < Against(j)
        \/ Score[i] = Score[j] /\ Against(i) = Against(j) /\ Name[i] <= Name[j]

AllButOne(i) == inventory[i] - Reserve(i) - 1   \* mutant: off by one
ReserveForgotten(i) == inventory[i]         \* mutant: the worn ones are sold too
Sellable(i) == inventory[i] - Reserve(i)

Ordinary == {i \in Items : Sellable(i) > 0}

FirstOrdinary ==
    CHOOSE i \in Ordinary : \A j \in Ordinary :
        Tier[i] < Tier[j] \/ (Tier[i] = Tier[j] /\ Name[i] <= Name[j])

-----------------------------------------------------------------------------
(* The loop *)

Looping == ended = "no" /\ iteration < MaxIterations

SlotKept == slots                           \* mutant: the slot is not freed
SlotFreed == IF slots > 0 THEN slots - 1 ELSE 0

\* The shop takes all that can be sold of item i, refuses it (400), which is
\* as good as trying again, or gives another error, which ends the loop.
Sell(i) ==
    \/ /\ inventory' = [inventory EXCEPT ![i] = @ - Sellable(i)]
       /\ slots' = SlotFreed
       /\ iteration' = iteration + 1
       /\ UNCHANGED <<ended, refused>>
    \/ /\ iteration' = iteration + 1
       /\ refused' = TRUE
       /\ UNCHANGED <<inventory, slots, ended>>
    \/ /\ ended' = "broke"
       /\ refused' = TRUE
       /\ UNCHANGED <<inventory, slots, iteration>>

SellWorse ==
    /\ Looping
    /\ AnyWorse # {}
    /\ Sellable(FirstWorse) > 0
    /\ Sell(FirstWorse)
    /\ UNCHANGED <<worn, before>>

\* All pieces of the first candidate are worn: the loop comes back to it.
PassOver ==
    /\ Looping
    /\ AnyWorse # {}
    /\ Sellable(FirstWorse) <= 0
    /\ iteration' = iteration + 1
    /\ UNCHANGED <<inventory, worn, slots, ended, before, refused>>

StopsEarly == slots > Goal + 1              \* mutant: one slot short of the goal
OverGoal == slots > Goal

SellOrdinary ==
    /\ Looping
    /\ AnyWorse = {}
    /\ OverGoal
    /\ Ordinary # {}
    /\ Sell(FirstOrdinary)
    /\ UNCHANGED <<worn, before>>

Stop ==
    /\ ended = "no"
    /\ \/ iteration = MaxIterations
       \/ AnyWorse = {} /\ (~OverGoal \/ Ordinary = {})
    /\ ended' = "yes"
    /\ UNCHANGED <<inventory, worn, slots, iteration, before, refused>>

Next == SellWorse \/ PassOver \/ SellOrdinary \/ Stop

Spec == Init /\ [][Next]_vars

-----------------------------------------------------------------------------
(* Properties *)

\* "장착 중인 item_id와 겹치는 스택은 장착 수량만큼 예약해 오매각 방지" (README):
\* no sale takes a piece that is worn.
KeepsWorn ==
    \A i \in Items : inventory[i] < Reserve(i) => inventory[i] = before[i]

\* Gear that is not worse than the worn gear is only sold while more than
\* invSellTargetSlots slots are really in use, though currentSlots is a guess.
NeverOversells ==
    [][SellOrdinary /\ inventory' # inventory => UsedSlots > Goal]_vars

\* The loop was entered, and came to its end on its own.
Triggered == Cardinality(Present(before)) + Others >= Trigger
Through == ended = "yes" /\ Triggered /\ iteration < MaxIterations

\* A loop that ends before its last iteration and on no error has nothing worse
\* left, and has counted down to its goal or has nothing to sell.
StopsForAReason ==
    Through => AnyWorse = {} /\ (slots <= Goal \/ Ordinary = {})

\* "현재 장착 대비 열위 장비 전량 우선 매각" (README): if no two places take items of
\* one slot, the shop takes all it is offered and the worse items are not more
\* than the iterations, they all go, but for worn pieces.
AllWorseSold ==
    /\ ended = "yes" /\ Triggered /\ ~refused
    /\ \A p \in Places : worn[p] # None => InSlot(SlotOf[worn[p]]) = {p}
    /\ Cardinality({i \in Items : before[i] > 0}) <= MaxIterations
    => \A i \in AnyWorse : inventory[i] <= Reserve(i)
=============================================================================
