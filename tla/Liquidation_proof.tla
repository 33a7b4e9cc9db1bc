-------------------------- MODULE Liquidation_proof --------------------------
(* What holds of a clean-up of the bag for every bag, gear and shop.          *)
EXTENDS Liquidation, FiniteSetTheorems, TLAPS

USE LiquidationAssumption DEF LiquidationAssumption

\* The bag, the count of slots and the gear stay what they are.
Bag == inventory \in [Items -> Nat] /\ slots \in Nat /\ before \in [Items -> Nat]

\* currentSlots never exceeds the number of slots really in use.
Floor == slots <= UsedSlots

\* The inductive invariant.
IInv == Bag /\ Floor /\ KeepsWorn

\* Reserves are counted.
LEMMA ReserveNat == ASSUME NEW i \in Items PROVE Reserve(i) \in Nat
  <1>1. {p \in Places : worn[p] = i} \subseteq Places
    OBVIOUS
  <1>2. IsFiniteSet({p \in Places : worn[p] = i})
    BY <1>1, FS_Subset
  <1> QED
    BY <1>2, FS_CardinalityType DEF Reserve

\* So are the items in a bag.
LEMMA PresentFinite ==
  ASSUME NEW bag \in [Items -> Nat]
  PROVE  IsFiniteSet(Present(bag)) /\ Cardinality(Present(bag)) \in Nat
  <1>1. Present(bag) \subseteq Items
    BY DEF Present
  <1> QED
    BY <1>1, FS_Subset, FS_CardinalityType

\* Changing the pieces of one item frees one slot at most.
LEMMA OneSlotAtMost ==
  ASSUME NEW bag \in [Items -> Nat], NEW rest \in [Items -> Nat], NEW i,
         \A j \in Items : j # i => rest[j] = bag[j]
  PROVE  Cardinality(Present(bag)) <= Cardinality(Present(rest)) + 1
  <1>1. IsFiniteSet(Present(bag)) /\ Cardinality(Present(bag)) \in Nat
    BY PresentFinite
  <1>2. IsFiniteSet(Present(rest)) /\ Cardinality(Present(rest)) \in Nat
    BY PresentFinite
  <1>3. IsFiniteSet(Present(rest) \union {i})
        /\ Cardinality(Present(rest) \union {i}) <= Cardinality(Present(rest)) + 1
    <2> DEFINE S == Present(rest)
    <2> HIDE DEF S
    <2>1. IsFiniteSet(S) /\ Cardinality(S) \in Nat
      BY <1>2 DEF S
    <2>2. IsFiniteSet(S \union {i})
          /\ (Cardinality(S \union {i}) = Cardinality(S)
              \/ Cardinality(S \union {i}) = Cardinality(S) + 1)
      BY <2>1, FS_AddElement
    <2>3. IsFiniteSet(S \union {i}) /\ Cardinality(S \union {i}) <= Cardinality(S) + 1
      BY <2>1, <2>2
    <2> QED
      BY <2>3 DEF S
  <1>4. Present(bag) \subseteq Present(rest) \union {i}
    BY DEF Present
  <1>5. Cardinality(Present(bag)) <= Cardinality(Present(rest) \union {i})
    BY <1>3, <1>4, FS_Subset
  <1>6. Cardinality(Present(rest) \union {i}) \in Nat
    BY <1>3, FS_CardinalityType
  <1> QED
    BY <1>1, <1>2, <1>3, <1>5, <1>6

\* A sale of any item keeps the invariant, whatever the shop answers.
LEMMA SaleKeepsIInv ==
  ASSUME IInv, NEW i, Sell(i), UNCHANGED <<worn, before>>
  PROVE  IInv'
  <1> DEFINE rest == [inventory EXCEPT ![i] = @ - Sellable(i)]
  <1>1. CASE inventory' = rest /\ slots' = SlotFreed
    <2>1. rest \in [Items -> Nat]
      <3>1. CASE i \in Items
        <4>1. rest[i] = Reserve(i) /\ Reserve(i) \in Nat
          BY <3>1, ReserveNat DEF IInv, Bag, Sellable
        <4> QED
          BY <4>1, <3>1 DEF IInv, Bag
      <3>2. CASE i \notin Items
        BY <3>2 DEF IInv, Bag
      <3> QED
        BY <3>1, <3>2
    <2>2. \A j \in Items : j # i => rest[j] = inventory[j]
      BY DEF IInv, Bag
    <2>3. Cardinality(Present(inventory)) <= Cardinality(Present(rest)) + 1
      BY <2>1, <2>2, OneSlotAtMost DEF IInv, Bag
    <2>4. Cardinality(Present(inventory)) \in Nat /\ Cardinality(Present(rest)) \in Nat
      BY <2>1, PresentFinite DEF IInv, Bag
    <2>5. Floor'
      <3>1. UsedSlots' = Cardinality(Present(rest)) + Others
        BY <1>1 DEF UsedSlots, Present
      <3> QED
        BY <1>1, <2>3, <2>4, <3>1 DEF IInv, Bag, Floor, UsedSlots, SlotFreed
    <2>6. Bag'
      BY <1>1, <2>1 DEF IInv, Bag, SlotFreed
    <2>7. KeepsWorn'
      <3> SUFFICES ASSUME NEW j \in Items, rest[j] < Reserve(j)
                   PROVE  rest[j] = before[j]
        BY <1>1 DEF KeepsWorn, Reserve
      <3>1. CASE j = i
        <4>1. rest[j] = Reserve(j) /\ Reserve(j) \in Nat
          BY <3>1, ReserveNat DEF IInv, Bag, Sellable
        <4> QED
          BY <4>1
      <3>2. CASE j # i
        BY <3>2, <2>2 DEF IInv, KeepsWorn
      <3> QED
        BY <3>1, <3>2
    <2> QED
      BY <2>5, <2>6, <2>7 DEF IInv
  <1>2. CASE UNCHANGED <<inventory, slots>>
    BY <1>2 DEF IInv, Bag, Floor, KeepsWorn, UsedSlots, Present, Reserve
  <1> QED
    BY <1>1, <1>2 DEF Sell

LEMMA Start == Init => IInv
  <1> SUFFICES ASSUME Init PROVE IInv
    OBVIOUS
  <1>1. Bag
    <2>1. inventory \in [Items -> Nat]
      BY DEF Init
    <2> QED
      BY <2>1, PresentFinite DEF Init, Bag, UsedSlots
  <1>2. Floor
    BY <1>1 DEF Init, Floor, Bag
  <1>3. KeepsWorn
    BY DEF Init, KeepsWorn
  <1> QED
    BY <1>1, <1>2, <1>3 DEF IInv

LEMMA Preserved == IInv /\ [Next]_vars => IInv'
  <1> SUFFICES ASSUME IInv, [Next]_vars PROVE IInv'
    OBVIOUS
  <1>1. CASE SellWorse
    BY <1>1, SaleKeepsIInv DEF SellWorse
  <1>2. CASE PassOver
    BY <1>2 DEF PassOver, IInv, Bag, Floor, KeepsWorn, UsedSlots, Present, Reserve
  <1>3. CASE SellOrdinary
    BY <1>3, SaleKeepsIInv DEF SellOrdinary
  <1>4. CASE Stop
    BY <1>4 DEF Stop, IInv, Bag, Floor, KeepsWorn, UsedSlots, Present, Reserve
  <1>5. CASE UNCHANGED vars
    BY <1>5 DEF vars, IInv, Bag, Floor, KeepsWorn, UsedSlots, Present, Reserve
  <1> QED
    BY <1>1, <1>2, <1>3, <1>4, <1>5 DEF Next

\* "장착 중인 item_id와 겹치는 스택은 장착 수량만큼 예약" (README): no clean-up
\* sells a worn piece, whatever is worn where and whatever the shop answers.
THEOREM WornIsKept == Spec => []KeepsWorn
  <1>1. IInv => KeepsWorn
    BY DEF IInv
  <1> QED
    BY <1>1, Start, Preserved, PTL DEF Spec

\* The counter that a clean-up trusts falls at least as fast as the bag empties:
\* gear that is not worse than the worn gear is sold only while more slots than
\* invSellTargetSlots are really in use.
THEOREM SellsNoMoreThanNeeded == Spec => NeverOversells
  <1>1. IInv /\ [Next]_vars =>
            [SellOrdinary /\ inventory' # inventory => UsedSlots > Goal]_vars
    <2> SUFFICES ASSUME IInv, SellOrdinary PROVE UsedSlots > Goal
      OBVIOUS
    <2>1. UsedSlots \in Nat
      BY PresentFinite DEF IInv, Bag, UsedSlots
    <2> QED
      BY <2>1 DEF IInv, Bag, Floor, SellOrdinary, OverGoal
  <1> QED
    BY <1>1, Start, Preserved, PTL DEF Spec, NeverOversells

\* A clean-up that is over was not called for, or has come to its end.
Ended ==
  ended = "yes" =>
      \/ ~Triggered \/ iteration = MaxIterations
      \/ AnyWorse = {} /\ (~OverGoal \/ Ordinary = {})

LEMMA EndedStart == Init => Ended
  <1> SUFFICES ASSUME Init, slots < Trigger PROVE ~Triggered
    BY DEF Init, Ended
  <1>1. Cardinality(Present(before)) \in Nat /\ slots = Cardinality(Present(before)) + Others
    BY Start, PresentFinite DEF Init, IInv, Bag, UsedSlots
  <1> QED
    BY <1>1 DEF Triggered

LEMMA EndedKept == Ended /\ [Next]_vars => Ended'
  <1> SUFFICES ASSUME Ended, [Next]_vars PROVE Ended'
    OBVIOUS
  <1>1. CASE SellWorse \/ PassOver \/ SellOrdinary
    <2>1. ended = "no" /\ ended' \in {"no", "broke"}
      BY <1>1 DEF SellWorse, PassOver, SellOrdinary, Sell, Looping
    <2> QED
      BY <2>1 DEF Ended
  <1>2. CASE Stop
    <2>1. /\ UNCHANGED <<inventory, worn, slots, iteration, before>>
          /\ \/ iteration = MaxIterations
             \/ AnyWorse = {} /\ (~OverGoal \/ Ordinary = {})
      BY <1>2 DEF Stop
    <2> QED
      BY <2>1 DEF Ended, Triggered, Present, AnyWorse, Worse, InSlot, Compared, OverGoal,
                  Ordinary, Sellable, Reserve
  <1>3. CASE UNCHANGED vars
    BY <1>3 DEF vars, Ended, Triggered, Present, AnyWorse, Worse, InSlot, Compared, OverGoal,
                Ordinary, Sellable, Reserve
  <1> QED
    BY <1>1, <1>2, <1>3 DEF Next

\* A clean-up that ends before its last iteration and on no error has nothing
\* worse left, and has counted down to its goal or has nothing to sell.
THEOREM EndsWithReason == Spec => []StopsForAReason
  <1>1. IInv /\ Ended => StopsForAReason
    BY DEF IInv, Bag, Ended, StopsForAReason, Through, OverGoal
  <1> QED
    BY <1>1, EndedStart, EndedKept, Start, Preserved, PTL DEF Spec

-----------------------------------------------------------------------------
(* Iterations and items *)

\* No two places take items of one slot.
OnePlaceEach == \A p \in Places : worn[p] # None => InSlot(SlotOf[worn[p]]) = {p}

\* As long as something worse is left and the shop has taken all, each iteration
\* has emptied one entry of the bag.
Paced ==
  OnePlaceEach /\ ~refused /\ AnyWorse # {} =>
      iteration + Cardinality(Present(inventory)) = Cardinality(Present(before))

Counted == iteration \in Nat /\ worn \in [Places -> Items \union {None}]

\* A worse item is not worn, so that all of it can be sold.
LEMMA WorseIsSpare ==
  ASSUME OnePlaceEach, NEW i \in AnyWorse
  PROVE  i \in Items /\ inventory[i] > 0 /\ Reserve(i) = 0
  <1>1. i \in Items /\ Worse(i)
    BY DEF AnyWorse
  <1>2. {p \in Places : worn[p] = i} = {}
    <2> SUFFICES ASSUME NEW p \in Places, worn[p] = i PROVE FALSE
      OBVIOUS
    <2>1. i # None
      BY <1>1
    <2>2. InSlot(SlotOf[i]) = {p}
      BY <2>1 DEF OnePlaceEach
    <2>3. Compared(SlotOf[i]) = i
      BY <2>2 DEF Compared
    <2> QED
      BY <1>1, <2>3 DEF Worse
  <1> QED
    BY <1>1, <1>2, FS_EmptySet DEF Reserve, Worse

\* Gear that is sold off leaves nothing worse that was not worse before.
LEMMA NothingGetsWorse ==
  ASSUME Bag, inventory' \in [Items -> Nat], \A i \in Items : inventory'[i] <= inventory[i],
         UNCHANGED worn
  PROVE  AnyWorse' \subseteq AnyWorse
  <1> SUFFICES ASSUME NEW i \in Items, Worse(i)' PROVE Worse(i)
    BY DEF AnyWorse
  <1>1. inventory[i] > 0
    BY DEF Worse, Bag
  <1> QED
    BY <1>1 DEF Worse, InSlot, Compared

\* Selling the only pieces of an item empties one entry.
LEMMA OneEntryLess ==
  ASSUME NEW bag \in [Items -> Nat], NEW i \in Items, bag[i] > 0
  PROVE  Cardinality(Present([bag EXCEPT ![i] = 0])) = Cardinality(Present(bag)) - 1
  <1>1. Present([bag EXCEPT ![i] = 0]) = Present(bag) \ {i} /\ i \in Present(bag)
    BY DEF Present
  <1>2. IsFiniteSet(Present(bag)) /\ Cardinality(Present(bag)) \in Nat
    BY PresentFinite
  <1>3. Cardinality(Present(bag) \ {i}) = Cardinality(Present(bag)) - 1
    BY <1>1, <1>2, FS_RemoveElement
  <1> QED
    BY <1>1, <1>3

\* A set of numbers that is not empty has a least one.
LEMMA LeastNumber ==
  ASSUME NEW T \in SUBSET Nat, T # {}
  PROVE  \E n \in T : \A k \in T : n <= k
  <1> DEFINE R == OpToRel(<, Nat)
  <1>1. IsWellFoundedOn(R, Nat)
    BY NatLessThanWellFounded
  <1>2. \A k, n \in Nat : k < n => <<k, n>> \in R
    BY DEF OpToRel
  <1> HIDE DEF R
  <1>3. PICK n \in T : \A k \in T : ~(<<k, n>> \in R)
    BY <1>1, WFMin
  <1>4. \A k \in T : ~(k < n)
    BY <1>2, <1>3
  <1> QED
    BY <1>4

\* So has a set of things that are measured by numbers.
LEMMA LeastMeasured ==
  ASSUME NEW S, S # {}, NEW f \in [S -> Nat]
  PROVE  \E x \in S : \A y \in S : f[x] <= f[y]
  <1> DEFINE T == {f[x] : x \in S}
  <1>1. T \in SUBSET Nat /\ T # {}
    OBVIOUS
  <1> HIDE DEF T
  <1>2. PICK n \in T : \A k \in T : n <= k
    BY <1>1, LeastNumber
  <1> QED
    BY <1>2 DEF T

\* And of those that have the least measure one has the least of a second.
LEMMA LeastByTwo ==
  ASSUME NEW S, S # {}, NEW f \in [S -> Nat], NEW g \in [S -> Nat]
  PROVE  \E x \in S : \A y \in S : f[x] < f[y] \/ (f[x] = f[y] /\ g[x] <= g[y])
  <1>1. PICK u \in S : \A y \in S : f[u] <= f[y]
    BY LeastMeasured
  <1> DEFINE T == {x \in S : f[x] = f[u]}
             h == [x \in T |-> g[x]]
  <1>2. T # {} /\ h \in [T -> Nat]
    OBVIOUS
  <1>3. PICK x \in T : \A y \in T : h[x] <= h[y]
    <2> HIDE DEF T, h
    <2> QED
      BY <1>2, LeastMeasured
  <1>4. ASSUME NEW y \in S PROVE f[x] < f[y] \/ (f[x] = f[y] /\ g[x] <= g[y])
    <2>1. f[x] = f[u] /\ f[u] <= f[y] /\ {f[x], f[y]} \subseteq Nat
      BY <1>1, <1>3
    <2> QED
      BY <1>3, <2>1
  <1> QED
    BY <1>4

\* An item that is worse is compared with what is worn in the only place of its
\* slot.
LEMMA AgainstNumber ==
  ASSUME OnePlaceEach, worn \in [Places -> Items \union {None}], NEW i \in AnyWorse
  PROVE  i \in Items /\ Against(i) \in Nat
  <1>1. i \in Items /\ Worse(i)
    BY DEF AnyWorse
  <1>2. PICK p \in Places : worn[p] # None /\ SlotOf[worn[p]] = SlotOf[i]
    BY <1>1 DEF Worse, InSlot
  <1>3. InSlot(SlotOf[i]) = {p}
    BY <1>2 DEF OnePlaceEach
  <1>4. Compared(SlotOf[i]) = worn[p]
    <2>1. p \in Nat
      OBVIOUS
    <2>2. (CHOOSE q \in {p} : \A r \in {p} : r <= q) = p
      BY <2>1
    <2> QED
      BY <1>3, <2>2 DEF Compared
  <1> QED
    BY <1>1, <1>2, <1>4 DEF Against

\* The candidate is one of the worse items.
LEMMA FirstWorseIsWorse ==
  ASSUME AnyWorse # {}, OnePlaceEach, worn \in [Places -> Items \union {None}]
  PROVE  FirstWorse \in AnyWorse
  <1> DEFINE A == AnyWorse
             f == [i \in A |-> Score[i]]
  <1>1. A # {} /\ A \subseteq Items /\ \A i \in A : Against(i) \in Nat
    BY AgainstNumber
  <1>2. f \in [A -> Nat] /\ \A i \in A : f[i] = Score[i]
    BY <1>1
  <1>3. PICK x \in A : \A y \in A : f[x] <= f[y]
    <2> HIDE DEF A, f
    <2> QED
      BY <1>1, <1>2, LeastMeasured
  <1> DEFINE B == {i \in A : f[i] = f[x]}
             g == [i \in B |-> Against(i)]
             h == [i \in B |-> Name[i]]
  <1>4. B # {} /\ g \in [B -> Nat] /\ h \in [B -> Nat]
    BY <1>1
  <1>5. PICK r \in B : \A y \in B : g[r] < g[y] \/ (g[r] = g[y] /\ h[r] <= h[y])
    <2> HIDE DEF B, g, h
    <2> QED
      BY <1>4, LeastByTwo
  <1>6. ASSUME NEW j \in AnyWorse
        PROVE  \/ Score[r] < Score[j]
               \/ Score[r] = Score[j] /\ Against(r) < Against(j)
               \/ Score[r] = Score[j] /\ Against(r) = Against(j) /\ Name[r] <= Name[j]
    <2>1. Score[r] = f[x] /\ Score[j] = f[j] /\ f[x] <= f[j] /\ {f[x], f[j]} \subseteq Nat
      BY <1>2, <1>3
    <2>2. CASE f[j] = f[x]
      <3>1. j \in B /\ g[j] = Against(j) /\ h[j] = Name[j]
        BY <2>2
      <3>2. g[r] = Against(r) /\ h[r] = Name[r]
        OBVIOUS
      <3> HIDE DEF g, h, B, f
      <3> QED
        BY <1>5, <2>1, <2>2, <3>1, <3>2
    <2> QED
      BY <2>1, <2>2
  <1>7. \E i \in AnyWorse : \A j \in AnyWorse :
          \/ Score[i] < Score[j]
          \/ Score[i] = Score[j] /\ Against(i) < Against(j)
          \/ Score[i] = Score[j] /\ Against(i) = Against(j) /\ Name[i] <= Name[j]
    BY <1>6
  <1> QED
    BY <1>7 DEF FirstWorse

\* The candidate for an ordinary sale can be sold.
LEMMA FirstOrdinaryIsOrdinary ==
  ASSUME Ordinary # {}
  PROVE  FirstOrdinary \in Ordinary
  <1> DEFINE O == Ordinary
             f == [i \in O |-> Tier[i]]
             g == [i \in O |-> Name[i]]
  <1>1. O # {} /\ f \in [O -> Nat] /\ g \in [O -> Nat]
    BY DEF Ordinary
  <1>2. \E x \in O : \A y \in O : f[x] < f[y] \/ (f[x] = f[y] /\ g[x] <= g[y])
    <2> HIDE DEF O, f, g
    <2> QED
      BY <1>1, LeastByTwo
  <1>3. \E i \in Ordinary : \A j \in Ordinary :
          Tier[i] < Tier[j] \/ (Tier[i] = Tier[j] /\ Name[i] <= Name[j])
    BY <1>2
  <1> QED
    BY <1>3 DEF FirstOrdinary

LEMMA PacedStart == Init => Paced /\ Counted
  <1> SUFFICES ASSUME Init PROVE Paced /\ Counted
    OBVIOUS
  <1>1. inventory \in [Items -> Nat]
    BY DEF Init
  <1>2. Cardinality(Present(inventory)) \in Nat
    BY <1>1, PresentFinite
  <1> QED
    BY <1>2 DEF Init, Paced, Counted

\* Selling the first of the worse items empties its entry.
LEMMA SaleKeepsPace ==
  ASSUME IInv, Paced, Counted, SellWorse
  PROVE  Paced'
  <1> SUFFICES ASSUME OnePlaceEach, ~refused', AnyWorse' # {}
               PROVE  iteration' + Cardinality(Present(inventory'))
                        = Cardinality(Present(before'))
    BY DEF Paced, OnePlaceEach, InSlot, SellWorse
  <1> DEFINE i == FirstWorse
  <1>1. i \in AnyWorse
    BY FirstWorseIsWorse DEF SellWorse, Counted
  <1>2. i \in Items /\ inventory[i] > 0 /\ Sellable(i) = inventory[i]
    BY <1>1, WorseIsSpare DEF Sellable, IInv, Bag
  <1>3. ~refused /\ iteration' = iteration + 1 /\ before' = before
        /\ inventory' = [inventory EXCEPT ![i] = @ - Sellable(i)]
    BY DEF SellWorse, Sell
  <1>4. inventory' = [inventory EXCEPT ![i] = 0]
    <2>1. inventory[i] \in Nat
      BY <1>2 DEF IInv, Bag
    <2> HIDE DEF i
    <2>2. inventory[i] - Sellable(i) = 0
      BY <1>2, <2>1
    <2> QED
      BY <1>3, <2>2
  <1>5. Cardinality(Present(inventory')) = Cardinality(Present(inventory)) - 1
    BY <1>2, <1>4, OneEntryLess DEF IInv, Bag
  <1>6. iteration + Cardinality(Present(inventory)) = Cardinality(Present(before))
    BY <1>3 DEF Paced, SellWorse
  <1>7. Cardinality(Present(inventory)) \in Nat
    BY PresentFinite DEF IInv, Bag
  <1> QED
    BY <1>3, <1>5, <1>6, <1>7 DEF Counted

LEMMA PaceKept == IInv /\ Paced /\ Counted /\ [Next]_vars => (Paced /\ Counted)'
  <1> SUFFICES ASSUME IInv, Paced, Counted, [Next]_vars PROVE (Paced /\ Counted)'
    OBVIOUS
  <1>1. Counted'
    BY DEF Counted, Next, vars, SellWorse, PassOver, SellOrdinary, Sell, Stop
  <1>2. CASE SellWorse
    BY <1>1, <1>2, SaleKeepsPace
  <1>3. CASE PassOver
    <2>1. ~OnePlaceEach
      <3> SUFFICES ASSUME OnePlaceEach PROVE FALSE
        OBVIOUS
      <3>1. FirstWorse \in AnyWorse
        BY <1>3, FirstWorseIsWorse DEF PassOver, Counted
      <3>2. FirstWorse \in Items /\ inventory[FirstWorse] > 0 /\ Reserve(FirstWorse) = 0
        BY <3>1, WorseIsSpare
      <3> QED
        BY <1>3, <3>2 DEF PassOver, Sellable, IInv, Bag
    <2>2. ~OnePlaceEach'
      BY <1>3, <2>1 DEF PassOver, OnePlaceEach, InSlot
    <2> QED
      BY <1>1, <2>2 DEF Paced
  <1>4. CASE SellOrdinary
    <2>1. AnyWorse = {} /\ UNCHANGED worn
      BY <1>4 DEF SellOrdinary
    <2>2. \A j \in Items : inventory'[j] <= inventory[j]
      <3> SUFFICES ASSUME NEW j \in Items PROVE inventory'[j] <= inventory[j]
        OBVIOUS
      <3>1. \/ UNCHANGED inventory
            \/ inventory' = [inventory EXCEPT ![FirstOrdinary] = @ - Sellable(FirstOrdinary)]
        BY <1>4 DEF SellOrdinary, Sell
      <3>2. CASE UNCHANGED inventory
        BY <3>2 DEF IInv, Bag
      <3>3. CASE /\ inventory' = [inventory EXCEPT ![FirstOrdinary] = @ - Sellable(FirstOrdinary)]
                 /\ FirstOrdinary = j
        <4>1. j \in Ordinary
          BY <1>4, <3>3, FirstOrdinaryIsOrdinary DEF SellOrdinary
        <4>2. Sellable(j) > 0
          BY <4>1 DEF Ordinary
        <4> QED
          BY <3>3, <4>2, ReserveNat DEF IInv, Bag, Sellable
      <3>4. CASE /\ inventory' = [inventory EXCEPT ![FirstOrdinary] = @ - Sellable(FirstOrdinary)]
                 /\ FirstOrdinary # j
        BY <3>4 DEF IInv, Bag
      <3> QED
        BY <3>1, <3>2, <3>3, <3>4
    <2>3. inventory' \in [Items -> Nat]
      BY <1>4, SaleKeepsIInv DEF SellOrdinary, IInv, Bag
    <2>4. AnyWorse' = {}
      BY <2>1, <2>2, <2>3, NothingGetsWorse DEF IInv
    <2> QED
      BY <1>1, <2>4 DEF Paced
  <1>5. CASE Stop \/ UNCHANGED vars
    <2>1. UNCHANGED <<inventory, worn, iteration, before, refused>>
      BY <1>5 DEF Stop, vars
    <2> QED
      BY <1>1, <2>1 DEF Paced, OnePlaceEach, InSlot, AnyWorse, Worse, Compared, Present
  <1> QED
    BY <1>2, <1>3, <1>4, <1>5 DEF Next

\* "현재 장착 대비 열위 장비 전량 우선 매각" (README): of any bag and gear, all that is
\* worse than the worn gear goes, if the iterations are not fewer than the items,
\* the shop takes what it is offered, and no two places take items of one slot.
THEOREM WorseIsSoldOff == Spec => []AllWorseSold
  <1>1. IInv /\ Paced /\ Counted /\ Ended => AllWorseSold
    <2> SUFFICES ASSUME IInv, Paced, Counted, Ended, ended = "yes", Triggered, ~refused,
                        OnePlaceEach, Cardinality(Present(before)) <= MaxIterations,
                        NEW i \in AnyWorse
                 PROVE  FALSE
      BY DEF AllWorseSold, OnePlaceEach, Present
    <2>1. iteration + Cardinality(Present(inventory)) = Cardinality(Present(before))
      BY DEF Paced
    <2>2. IsFiniteSet(Present(inventory)) /\ Cardinality(Present(inventory)) \in Nat
      BY PresentFinite DEF IInv, Bag
    <2>3. iteration = MaxIterations
      BY DEF Ended
    <2>4. Cardinality(Present(inventory)) = 0
      BY <2>1, <2>2, <2>3 DEF Counted
    <2>5. Present(inventory) = {}
      BY <2>2, <2>4, FS_EmptySet
    <2>6. i \in Items /\ inventory[i] > 0
      BY DEF AnyWorse, Worse
    <2> QED
      BY <2>5, <2>6 DEF Present
  <1> QED
    BY <1>1, EndedStart, EndedKept, PacedStart, PaceKept, Start, Preserved, PTL DEF Spec
=============================================================================
