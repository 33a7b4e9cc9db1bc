---------------------------- MODULE Choices_proof ----------------------------
(* The two choices of a tick.  What the worker does about a snapshot, for      *)
(* snapshots of any numbers and not the boundary values of a run only; and     *)
(* whom the live runner fights, for every list of monsters, player and         *)
(* configuration.                                                             *)
EXTENDS Decision, Targeting, TLAPS, FiniteSetTheorems, SequenceTheorems

\* The outcome is what the snapshot leads to.
Leads == snapshot \in Snapshots /\ outcome \in {"none", Evaluated(snapshot)}

LEMMA FieldsAreNumbers ==
    ASSUME NEW s \in Snapshots
    PROVE  /\ \A d \in Nat : Or(s.health, d) \in Nat
           /\ \A d \in Nat : Or(s.energy, d) \in Nat
           /\ \A d \in Nat : Or(s.threat, d) \in Nat
BY DecisionAssumption DEF Snapshots, Or

LEMMA LeastIs ==
    ASSUME NEW S \in SUBSET Int, NEW i \in S, \A j \in S : i <= j
    PROVE  Min(S) = i
<1>1. \A x \in S : (\A j \in S : x <= j) => x = i
  OBVIOUS
<1>2. \E x \in S : \A j \in S : x <= j
  OBVIOUS
<1> QED BY <1>1, <1>2 DEF Min

\* The first rule that applies decides.
LEMMA FirstRule ==
    ASSUME NEW s, NEW i \in 1..7, Conditions(s)[i], \A j \in 1..(i - 1) : ~Conditions(s)[j]
    PROVE  Decided(s) = ActionTypes[i]
<1> DEFINE S == {j \in DOMAIN ActionTypes : Conditions(s)[j]}
<1>1. DOMAIN ActionTypes = 1..7
  BY DEF ActionTypes
<1>2. /\ S \in SUBSET Int /\ i \in S
      /\ \A j \in S : j \in 1..7 /\ Conditions(s)[j]
  BY <1>1
<1>3. \A j \in S : i <= j
  BY <1>2
<1>4. Min(S) = i
  BY <1>2, <1>3, LeastIs
<1> QED BY <1>4 DEF Decided

\* When the decision is to attack, and what it is when short of energy in sight
\* of an enemy that presses.
LEMMA Decisions ==
    ASSUME NEW s \in Snapshots
    PROVE  /\ Decided(s) = "BASIC_ATTACK" <=>
                 /\ Or(s.health, 100) >= 35 /\ Or(s.threat, 0) < 80 /\ s.visible
                 /\ Or(s.energy, 0) >= 30
                 /\ Or(s.energy, 0) < 40 => Or(s.threat, 0) <= 25
           /\ s.visible /\ Or(s.threat, 0) >= 50 /\ Or(s.energy, 0) < 30 =>
                 Decided(s) \in {"USE_POTION", "RAISE_SHIELD"}
<1> DEFINE C == Conditions(s)
           energy == Or(s.energy, 0)
           threat == Or(s.threat, 0)
<1>1. energy \in Nat /\ threat \in Nat /\ Or(s.health, 100) \in Nat /\ Or(s.health, 0) \in Nat
  BY FieldsAreNumbers
<1>2. /\ C[1] <=> Or(s.health, 100) < 35
      /\ C[2] <=> threat >= 80
      /\ C[3] <=> energy < 30 /\ s.visible /\ threat >= 50
      /\ C[4] <=> energy < 30 /\ Or(s.health, 0) >= 60
      /\ C[5] <=> energy >= 40 /\ s.visible
      /\ C[6] <=> energy \in 30..39 /\ s.visible /\ threat <= 25
      /\ C[7]
  BY DEF Conditions
<1>3. /\ ActionTypes[1] = "USE_POTION" /\ ActionTypes[2] = "RAISE_SHIELD"
      /\ ActionTypes[3] = "RAISE_SHIELD" /\ ActionTypes[4] = "REST"
      /\ ActionTypes[5] = "BASIC_ATTACK" /\ ActionTypes[6] = "BASIC_ATTACK"
      /\ ActionTypes[7] = "WAIT"
  BY DEF ActionTypes
<1>4. PICK i \in 1..7 : C[i] /\ \A j \in 1..(i - 1) : ~C[j]
  <2>1. \/ C[1]
        \/ ~C[1] /\ C[2]
        \/ ~C[1] /\ ~C[2] /\ C[3]
        \/ ~C[1] /\ ~C[2] /\ ~C[3] /\ C[4]
        \/ ~C[1] /\ ~C[2] /\ ~C[3] /\ ~C[4] /\ C[5]
        \/ ~C[1] /\ ~C[2] /\ ~C[3] /\ ~C[4] /\ ~C[5] /\ C[6]
        \/ ~C[1] /\ ~C[2] /\ ~C[3] /\ ~C[4] /\ ~C[5] /\ ~C[6] /\ C[7]
    BY <1>2
  <2> HIDE DEF C
  <2> QED BY <2>1
<1>5. Decided(s) = ActionTypes[i]
  BY <1>4, FirstRule
<1> HIDE DEF C, energy, threat
<1>6. i = 1 \/ i = 2 \/ i = 3 \/ i = 4 \/ i = 5 \/ i = 6 \/ i = 7
  OBVIOUS
<1>7. \A j \in 1..7 : j < i => ~C[j]
  BY <1>4
<1>8. Decided(s) = "BASIC_ATTACK" <=> i \in {5, 6}
  BY <1>3, <1>5, <1>6
<1>9. i \in {5, 6} <=> ~C[1] /\ ~C[2] /\ ~C[3] /\ ~C[4] /\ (C[5] \/ C[6])
  BY <1>4, <1>6, <1>7
<1>10. ~C[1] /\ ~C[2] /\ ~C[3] /\ ~C[4] /\ (C[5] \/ C[6]) <=>
          /\ Or(s.health, 100) >= 35 /\ threat < 80 /\ s.visible
          /\ energy >= 30 /\ (energy < 40 => threat <= 25)
  BY <1>1, <1>2
<1>11. C[3] => i <= 3
  BY <1>6, <1>7
<1>12. C[3] => Decided(s) \in {"USE_POTION", "RAISE_SHIELD"}
  BY <1>3, <1>5, <1>6, <1>11
<1> QED BY <1>2, <1>8, <1>9, <1>10, <1>12 DEF energy, threat

LEMMA LeadsAlways == Spec => []Leads
<1>1. Init => Leads
  BY DEF Init, Leads
<1>2. Leads /\ [Next]_vars => Leads'
  <2>1. ASSUME Leads, Tick PROVE Leads'
    BY <2>1 DEF Leads, Tick
  <2>2. ASSUME Leads, UNCHANGED vars PROVE Leads'
    BY <2>2 DEF Leads, vars
  <2> QED BY <2>1, <2>2 DEF Next
<1> QED BY <1>1, <1>2, PTL DEF Spec

\* Nobody rests or waits, short of energy, in sight of an enemy that presses,
\* whatever the numbers of the snapshot.
THEOREM PressureShields == Spec => []ShieldedUnderPressure
<1>1. Leads => ShieldedUnderPressure
  <2> SUFFICES ASSUME Leads, outcome \in {"REST", "WAIT"}, snapshot.visible,
                      Or(snapshot.threat, 0) >= 50, Or(snapshot.energy, 0) < 30
               PROVE  FALSE
    BY DEF ShieldedUnderPressure
  <2>1. Decided(snapshot) \in {"USE_POTION", "RAISE_SHIELD"}
    BY Decisions DEF Leads
  <2> QED BY <2>1 DEF Leads, Evaluated
<1> QED BY <1>1, LeadsAlways, PTL

\* More energy, all else equal, never stops an attack, whatever the numbers.
THEOREM MoreEnergyAttacks == Spec => []EnergyEmboldens
<1>1. Leads => EnergyEmboldens
  <2> SUFFICES ASSUME Leads, outcome = "BASIC_ATTACK", NEW e \in Energies \ {Absent},
                      e >= Or(snapshot.energy, 0)
               PROVE  Attacks([snapshot EXCEPT !.energy = e])
    BY DEF EnergyEmboldens
  <2> DEFINE t == [snapshot EXCEPT !.energy = e]
  <2>1. /\ snapshot \in Snapshots /\ t \in Snapshots
        /\ t.health = snapshot.health /\ t.threat = snapshot.threat
        /\ t.pending = snapshot.pending /\ t.visible = snapshot.visible
        /\ t.maintenance = snapshot.maintenance /\ t.cooling = snapshot.cooling
        /\ t.enemyId = snapshot.enemyId /\ t.energy = e
    BY DEF Leads, Snapshots
  <2> HIDE DEF t
  <2>2. /\ Reasons(snapshot) = {} /\ Decided(snapshot) = "BASIC_ATTACK" /\ snapshot.enemyId
    BY DEF Leads, Evaluated, Targeted
  <2>3. Reasons(t) = Reasons(snapshot)
    BY <2>1 DEF Reasons
  <2>4. Or(t.energy, 0) = e /\ e \in Nat /\ Or(snapshot.energy, 0) \in Nat
    BY <2>1, DecisionAssumption, FieldsAreNumbers DEF Or
  <2>5. Decided(t) = "BASIC_ATTACK"
    BY <2>1, <2>2, <2>4, Decisions DEF Or
  <2> QED BY <2>1, <2>2, <2>3, <2>5 DEF Attacks, Evaluated, Targeted, t
<1> QED BY <1>1, LeadsAlways, PTL

-----------------------------------------------------------------------------
(* Whom to fight *)

IsMonster(m) == m \in [level : Nat, atk : Nat, exp : Nat]
IsPlayer(p) == p \in [level : Nat, def : Nat, armour : BOOLEAN]

\* Somebody was defeated of late.
Struck(seq) == \E i \in DOMAIN seq : i > Len(seq) - Window /\ seq[i]

\* NoNeedlessSurrender from the choice on, before its answer is there.
Agreed ==
    fight # "none" /\ ~choice.later /\ choice.safe # {} =>
        \A m \in choice.target : ~TooStrong(m, choice.player)

\* The inductive invariant.
IInv == TTypeOK /\ Agreed /\ EasiestUnderPressure

-----------------------------------------------------------------------------
(* Pressure *)

\* The defeats of the window are counted by a natural number, which is 0 just
\* if there are none.
LEMMA DefeatsCounted ==
    ASSUME NEW seq \in Seq(BOOLEAN)
    PROVE  DefeatsIn(seq) \in Nat /\ (DefeatsIn(seq) >= 1 <=> Struck(seq))
<1> DEFINE D == {i \in DOMAIN seq : i > Len(seq) - Window /\ seq[i]}
<1>1. IsFiniteSet(D)
  <2>1. D \subseteq 1..Len(seq)
    OBVIOUS
  <2>2. IsFiniteSet(1..Len(seq))
    BY FS_Interval
  <2> QED BY <2>1, <2>2, FS_Subset
<1>2. Cardinality(D) \in Nat /\ (Cardinality(D) = 0 <=> D = {})
  BY <1>1, FS_CardinalityType, FS_EmptySet
<1>3. DefeatsIn(seq) = Cardinality(D)
  BY DEF DefeatsIn
<1>4. D # {} <=> Struck(seq)
  BY DEF Struck
<1>5. Cardinality(D) >= 1 <=> Cardinality(D) # 0
  BY <1>2
<1> HIDE DEF D
<1> QED BY <1>2, <1>3, <1>4, <1>5

\* A fight that was no defeat does not add to the pressure.
LEMMA NoDefeatNoPressure ==
    ASSUME outcomes \in Seq(BOOLEAN), Struck(Pushed(FALSE))
    PROVE  Struck(outcomes)
<1> DEFINE all == Append(outcomes, FALSE)
<1> Window \in Nat \ {0, 1}
  BY TargetingAssumption
<1>1. /\ all \in Seq(BOOLEAN) /\ Len(all) = Len(outcomes) + 1
      /\ \A i \in DOMAIN all : all[i] => i \in DOMAIN outcomes /\ outcomes[i]
  OBVIOUS
<1>2. Pushed(FALSE) = IF Len(all) > Kept THEN Tail(all) ELSE all
  BY DEF Pushed
<1> HIDE DEF all
<1>3. CASE Len(all) > Kept
  <2>1. Pushed(FALSE) = Tail(all)
    BY <1>2, <1>3
  <2>2. PICK i \in DOMAIN Tail(all) : i > Len(Tail(all)) - Window /\ Tail(all)[i]
    BY <2>1 DEF Struck
  <2>3. /\ Len(Tail(all)) = Len(outcomes)
        /\ i \in 1..Len(outcomes)
        /\ Tail(all)[i] = all[i + 1]
        /\ i + 1 \in DOMAIN all
    BY <1>1, <2>2, HeadTailProperties
  <2>4. i + 1 \in DOMAIN outcomes /\ outcomes[i + 1]
    BY <1>1, <2>2, <2>3
  <2>5. i + 1 > Len(outcomes) - Window
    BY <2>2, <2>3
  <2> QED BY <2>4, <2>5 DEF Struck
<1>4. CASE ~(Len(all) > Kept)
  <2>1. Pushed(FALSE) = all
    BY <1>2, <1>4
  <2>2. PICK i \in DOMAIN all : i > Len(all) - Window /\ all[i]
    BY <2>1 DEF Struck
  <2>3. i \in DOMAIN outcomes /\ outcomes[i]
    BY <1>1, <2>2
  <2>4. i > Len(outcomes) - Window
    BY <1>1, <2>2, <2>3
  <2> QED BY <2>3, <2>4 DEF Struck
<1> QED BY <1>3, <1>4

-----------------------------------------------------------------------------
(* Choices *)

LEMMA Measures ==
    ASSUME NEW m, IsMonster(m), NEW p, IsPlayer(p)
    PROVE  /\ Level(m, p) \in Nat
           /\ Over(m.atk, p.def) \in Nat /\ Over(Level(m, p), p.level) \in Nat
           /\ m.atk <= p.def + Over(m.atk, p.def)
           /\ Level(m, p) <= p.level + Over(Level(m, p), p.level)
BY DEF IsMonster, IsPlayer, Level, Over, Larger

\* What passes the filter is not too strong for the gate.
LEMMA ThresholdsAgree ==
    ASSUME TTypeOK, NEW m, IsMonster(m), NEW p, IsPlayer(p), Passes(m, p)
    PROVE  ~TooStrong(m, p)
<1> DEFINE a == Over(m.atk, p.def)
           l == Over(Level(m, p), p.level)
<1>1. a \in Nat /\ l \in Nat /\ Level(m, p) \in Nat /\ Level(m, p) <= p.level + l
  BY Measures
<1>2. Pressure \in Nat /\ (Clamped => Pressure >= 1)
  <2>1. Defeats \in Nat
    BY DefeatsCounted DEF TTypeOK, Defeats
  <2>2. Surrenders(Window) \in Nat
    BY TargetingAssumption DEF TTypeOK, Surrenders, Smaller
  <2> QED BY <2>1, <2>2 DEF Pressure, Larger, Clamped
<1>3. 15 * a + 50 * l <= 10 * ((IF p.armour THEN 10 ELSE 6) - Smaller(3, Pressure))
  BY DEF Passes, Danger, HardDangerCap
<1>4. 100 * m.atk <= (IF p.armour THEN 135 ELSE 115) * p.def
  BY DEF Passes
<1>5. ~TooHighDamage(m, p)
  BY <1>4 DEF TooHighDamage, IsMonster, IsPlayer
<1>6. ~TooHighLevel(m, p)
  <2> HIDE DEF a, l
  <2>1. 50 * l <= 100 - 10 * Smaller(3, Pressure)
    BY <1>1, <1>2, <1>3 DEF Smaller, IsPlayer
  <2>2. l <= 2 /\ (Clamped => l <= 1)
    BY <1>1, <1>2, <2>1 DEF Smaller
  <2> QED BY <1>1, <2>2 DEF TooHighLevel, IsPlayer
<1> QED BY <1>5, <1>6 DEF TooStrong

\* By any positive weights, an easier monster is less dangerous.
LEMMA EasierIsLessDanger ==
    ASSUME NEW m, IsMonster(m), NEW t, IsMonster(t), NEW p, IsPlayer(p),
           NEW i \in Nat \ {0}, NEW j \in Nat \ {0}, EasierThan(m, t, p)
    PROVE  Danger(m, p, i, j) < Danger(t, p, i, j)
<1> DEFINE a == Over(m.atk, p.def)
           b == Over(t.atk, p.def)
           k == Over(Level(m, p), p.level)
           l == Over(Level(t, p), p.level)
<1>1. a \in Nat /\ b \in Nat /\ k \in Nat /\ l \in Nat
  BY Measures
<1>2. a <= b /\ k <= l /\ (a < b \/ k < l)
  BY DEF EasierThan
<1>3. i * a + j * k < i * b + j * l
  <2> HIDE DEF a, b, k, l
  <2> QED BY <1>1, <1>2
<1> QED BY <1>3 DEF Danger

\* Who is chosen is of the list, and of the safe ones if there are any.
LEMMA TargetsAreCandidates ==
    ASSUME NEW list, NEW p, NEW t \in Targets(list, p)
    PROVE  t \in IF Safe(list, p) = {} THEN list ELSE Safe(list, p)
BY DEF Targets, Least, Best

\* Under pressure no candidate is easier than who is chosen.
LEMMA PressureChoosesEasiest ==
    ASSUME TTypeOK, NEW list \in Lists, NEW p \in Players, NEW t \in Targets(list, p),
           Defeats >= 1 \/ surrenders >= 2 \/ Safe(list, p) = {},
           NEW m \in IF Safe(list, p) = {} THEN list ELSE Safe(list, p)
    PROVE  ~EasierThan(m, t, p)
<1>1. t \in list /\ m \in list
  BY TargetsAreCandidates DEF Safe
<1>2. IsMonster(t) /\ IsMonster(m) /\ IsPlayer(p)
  BY <1>1, TargetingAssumption DEF IsMonster, IsPlayer
<1> SUFFICES ASSUME EasierThan(m, t, p) PROVE FALSE
  OBVIOUS
<1>3. CASE Safe(list, p) = {}
  <2>1. ~(Danger(m, p, 16, 60) < Danger(t, p, 16, 60))
    <3>1. t \in Least(list, LAMBDA x : Danger(x, p, 16, 60))
      BY <1>3 DEF Targets
    <3>2. Danger(t, p, 16, 60) <= Danger(m, p, 16, 60)
      BY <1>3, <3>1 DEF Least
    <3> QED BY <1>2, <3>2, Measures DEF Danger
  <2> QED BY <1>2, <2>1, EasierIsLessDanger
<1>4. CASE Safe(list, p) # {}
  <2>1. Sustained
    <3>1. Defeats >= 1 \/ surrenders >= 2
      BY <1>4
    <3>2. surrenders >= 2 => Surrenders(Short) >= 2
      BY TargetingAssumption DEF Surrenders, Smaller, TTypeOK
    <3> QED BY <3>1, <3>2 DEF Sustained
  <2>2. ~(Danger(m, p, 15, 50) < Danger(t, p, 15, 50))
    <3>1. t \in Least(Safe(list, p), LAMBDA x : Danger(x, p, 15, 50))
      BY <1>4, <2>1 DEF Targets
    <3>2. Danger(t, p, 15, 50) <= Danger(m, p, 15, 50)
      BY <1>4, <3>1 DEF Least
    <3> QED BY <1>2, <3>2, Measures DEF Danger
  <2> QED BY <1>2, <2>2, EasierIsLessDanger
<1> QED BY <1>3, <1>4

-----------------------------------------------------------------------------
(* The invariant *)

LEMMA PushedTyped ==
    ASSUME outcomes \in Seq(BOOLEAN), NEW d \in BOOLEAN
    PROVE  Pushed(d) \in Seq(BOOLEAN)
<1>1. Append(outcomes, d) \in Seq(BOOLEAN) /\ Append(outcomes, d) # <<>>
  OBVIOUS
<1>2. Tail(Append(outcomes, d)) \in Seq(BOOLEAN)
  BY <1>1, HeadTailProperties
<1> QED BY <1>1, <1>2 DEF Pushed

\* The gate is no stricter after a fight that was no defeat.
LEMMA GateNotStricter ==
    ASSUME TTypeOK, TTypeOK', UNCHANGED surrenders,
           outcomes' \in {outcomes, Pushed(FALSE)},
           NEW m, IsMonster(m), NEW p, IsPlayer(p), ~TooStrong(m, p)
    PROVE  ~TooStrong(m, p)'
<1>1. Struck(outcomes)' => Struck(outcomes)
  BY NoDefeatNoPressure DEF TTypeOK, Struck
<1>2. (Defeats >= 1) <=> Struck(outcomes)
  BY DefeatsCounted DEF TTypeOK, Defeats
<1>3. (Defeats >= 1)' <=> Struck(outcomes)'
  BY DefeatsCounted DEF TTypeOK, Defeats, Struck
<1>4. Clamped' => Clamped
  BY <1>1, <1>2, <1>3 DEF Clamped, Surrenders
<1>5. Level(m, p) \in Nat
  BY Measures
<1> QED
  BY <1>4, <1>5 DEF TooStrong, TooHighLevel, TooHighDamage, IsMonster, IsPlayer

LEMMA Initially == TInit => IInv
BY TargetingAssumption
   DEF TInit, IInv, TTypeOK, Agreed, EasiestUnderPressure, NoChoice

LEMMA ChooseKeeps == ASSUME IInv, Choose PROVE IInv'
<1> USE DEF IInv
<1>1. PICK list \in Lists, p \in Players :
        \E target \in IF list = {} THEN {{}} ELSE {{m} : m \in Targets(list, p)} :
           choice' = [target |-> target, list |-> list, player |-> p,
                      safe |-> Safe(list, p), defeats |-> Defeats,
                      surrenders |-> surrenders, later |-> FALSE]
  BY DEF Choose
<1>2. /\ choice'.list = list /\ choice'.player = p /\ choice'.safe = Safe(list, p)
      /\ choice'.defeats = Defeats /\ choice'.surrenders = surrenders
      /\ \A t \in choice'.target : t \in Targets(list, p)
  BY <1>1
<1>3. fight' = "asked" /\ UNCHANGED <<outcomes, surrenders>>
  BY DEF Choose
<1>4. \A t \in choice'.target : t \in Candidates'
  BY <1>2, TargetsAreCandidates DEF Candidates
<1>5. TTypeOK'
  <2>1. Safe(list, p) \subseteq list
    BY DEF Safe
  <2>2. choice'.target \subseteq list
    BY <1>2, <1>4, <2>1 DEF Candidates
  <2>3. list \subseteq UNION Lists
    OBVIOUS
  <2>4. Defeats \in Nat /\ surrenders \in Nat
    BY DefeatsCounted DEF Defeats, TTypeOK
  <2>5. choice' \in [target : SUBSET UNION Lists, list : Lists, player : Players,
                     safe : SUBSET UNION Lists, defeats : Nat,
                     surrenders : Nat, later : BOOLEAN]
    BY <1>1, <1>2, <2>1, <2>2, <2>3, <2>4
  <2> QED BY <1>2, <1>3, <2>2, <2>5 DEF TTypeOK
<1>6. Agreed'
  <2> SUFFICES ASSUME choice'.safe # {}, NEW m \in choice'.target
               PROVE  ~TooStrong(m, p)'
    BY <1>2 DEF Agreed
  <2>1. m \in list /\ Passes(m, p)
    BY <1>2, <1>4 DEF Candidates, Safe
  <2>2. IsMonster(m) /\ IsPlayer(p)
    BY <2>1, TargetingAssumption DEF IsMonster, IsPlayer
  <2>3. ~TooStrong(m, p)
    BY <2>1, <2>2, ThresholdsAgree
  <2>4. TTypeOK /\ UNCHANGED surrenders /\ outcomes' \in {outcomes, Pushed(FALSE)}
    BY <1>3
  <2> QED BY <1>5, <2>2, <2>3, <2>4, GateNotStricter
<1>7. EasiestUnderPressure'
  <2> SUFFICES ASSUME NEW t \in choice'.target,
                      Defeats >= 1 \/ surrenders >= 2 \/ Safe(list, p) = {}
               PROVE  t \in Candidates' /\ \A m \in Candidates' : ~EasierThan(m, t, p)
    BY <1>2 DEF EasiestUnderPressure, EasierThan, Level
  <2>1. Candidates' = IF Safe(list, p) = {} THEN list ELSE Safe(list, p)
    BY <1>2 DEF Candidates
  <2> QED BY <1>2, <1>4, <2>1, PressureChoosesEasiest
<1> QED BY <1>5, <1>6, <1>7

LEMMA AnswerKeeps == ASSUME IInv, Answer PROVE IInv'
<1> USE DEF IInv
<1>1. TTypeOK'
  <2>1. Pushed(TRUE) \in Seq(BOOLEAN) /\ Pushed(FALSE) \in Seq(BOOLEAN)
    BY PushedTyped DEF TTypeOK
  <2> QED BY <2>1 DEF TTypeOK, Answer
<1>2. CASE fight' = "on" /\ outcomes' \in {outcomes, Pushed(FALSE)} /\ UNCHANGED choice
  <2>1. Agreed'
    <3> SUFFICES ASSUME ~choice.later, choice.safe # {}, NEW m \in choice.target
                 PROVE  ~TooStrong(m, choice.player)'
      BY <1>2 DEF Agreed
    <3>1. ~TooStrong(m, choice.player)
      BY DEF Agreed, Answer
    <3>2. choice.player \in Players /\ m \in choice.list /\ choice.list \in Lists
      BY DEF TTypeOK, Answer
    <3>3. IsMonster(m) /\ IsPlayer(choice.player)
      BY <3>2, TargetingAssumption DEF IsMonster, IsPlayer
    <3> DEFINE p == choice.player
    <3>4. ~TooStrong(m, p)' /\ choice' = choice
      BY <1>1, <1>2, <3>1, <3>3, GateNotStricter DEF Answer
    <3> QED BY <3>4 DEF TooStrong, TooHighLevel, TooHighDamage, Level
  <2>2. EasiestUnderPressure'
    BY <1>2 DEF EasiestUnderPressure, Candidates, EasierThan, Level
  <2> QED BY <1>1, <2>1, <2>2
<1>3. CASE fight' = "none" /\ choice' = NoChoice
  BY <1>1, <1>3 DEF Agreed, EasiestUnderPressure, NoChoice
<1> QED BY <1>2, <1>3 DEF Answer

LEMMA MeanwhileKeeps == ASSUME IInv, Meanwhile PROVE IInv'
<1> USE DEF IInv, Meanwhile
<1>1. /\ choice' = [choice EXCEPT !.later = TRUE]
      /\ choice'.later /\ fight' = fight /\ fight # "none"
      /\ choice'.target = choice.target /\ choice'.list = choice.list
      /\ choice'.player = choice.player /\ choice'.safe = choice.safe
      /\ choice'.defeats = choice.defeats /\ choice'.surrenders = choice.surrenders
  BY DEF TTypeOK
<1>2. TTypeOK'
  <2>1. outcomes' \in Seq(BOOLEAN)
    BY PushedTyped DEF TTypeOK
  <2> QED BY <1>1, <2>1 DEF TTypeOK
<1>3. Agreed'
  BY <1>1 DEF Agreed
<1>4. EasiestUnderPressure'
  BY <1>1 DEF EasiestUnderPressure, Candidates, EasierThan, Level
<1> QED BY <1>2, <1>3, <1>4

LEMMA EndKeeps == ASSUME IInv, GiveUp \/ FightEnds PROVE IInv'
<1>1. fight' = "none" /\ choice' = NoChoice /\ UNCHANGED outcomes
  BY DEF GiveUp, FightEnds
<1>2. surrenders' \in 0..Kept
  BY TargetingAssumption DEF GiveUp, FightEnds, Smaller, IInv, TTypeOK
<1> QED BY <1>1, <1>2 DEF IInv, TTypeOK, Agreed, EasiestUnderPressure, NoChoice

LEMMA Inductive == IInv /\ [TNext]_tvars => IInv'
<1> SUFFICES ASSUME IInv, [TNext]_tvars PROVE IInv'
  OBVIOUS
<1>1. CASE UNCHANGED tvars
  BY <1>1 DEF IInv, tvars, TTypeOK, Agreed, EasiestUnderPressure, Candidates, EasierThan,
     TooStrong, TooHighLevel, TooHighDamage, Clamped, Surrenders, Defeats, Level
<1> QED
  BY <1>1, ChooseKeeps, AnswerKeeps, MeanwhileKeeps, EndKeeps DEF TNext

LEMMA Invariant == TSpec => []IInv
<1> QED BY Initially, Inductive, PTL DEF TSpec

\* For every list, player and configuration a fight that is on is not one the
\* gate gives up for the monster's strength, but where none was safe or
\* another fight was heard of since.
THEOREM GateAgreesWithFilter == TSpec => []NoNeedlessSurrender
<1>1. IInv => NoNeedlessSurrender
  BY DEF IInv, Agreed, NoNeedlessSurrender
<1> QED BY <1>1, Invariant, PTL

\* Under pressure, or where nothing is safe, no candidate is less of a danger,
\* by any weights, than the target.
THEOREM PressureTakesEasiest == TSpec => []EasiestUnderPressure
<1>1. IInv => EasiestUnderPressure
  BY DEF IInv
<1> QED BY <1>1, Invariant, PTL

-----------------------------------------------------------------------------
(* The efficiency band *)

LEMMA Quotient ==
    ASSUME NEW a \in Nat, NEW b \in Nat \ {0}
    PROVE  a \div b \in Nat /\ b * (a \div b) <= a /\ a < b * (a \div b) + b
OBVIOUS

LEMMA TimesKeepsOrder ==
    ASSUME NEW a \in Int, NEW b \in Int, NEW c \in Nat, a <= b
    PROVE  c * a <= c * b
OBVIOUS

LEMMA TimesKeepsStrictOrder ==
    ASSUME NEW a \in Int, NEW b \in Int, NEW c \in Nat \ {0}, a < b
    PROVE  c * a < c * b
OBVIOUS

LEMMA RoundedIsQuotient ==
    ASSUME NEW n \in Nat, NEW d \in Nat \ {0}
    PROVE  /\ Rounded(n, d) \in Nat
           /\ (2 * d) * Rounded(n, d) <= 2 * n + d
           /\ 2 * n + d < (2 * d) * (Rounded(n, d) + 1)
<1> DEFINE a == 2 * n + d
           b == 2 * d
<1>1. a \in Nat /\ b \in Nat \ {0}
  OBVIOUS
<1>2. Rounded(n, d) = a \div b
  BY DEF Rounded
<1> HIDE DEF a, b
<1>3. a \div b \in Nat /\ b * (a \div b) <= a /\ a < b * (a \div b) + b
  BY <1>1, Quotient
<1>4. b * (a \div b) + b = b * (a \div b + 1)
  BY <1>1, <1>3
<1> QED BY <1>2, <1>3, <1>4 DEF a, b

\* Rounding does not turn the order of two fractions round.
LEMMA RoundingKeepsOrder ==
    ASSUME NEW n \in Nat, NEW d \in Nat \ {0}, NEW m \in Nat, NEW e \in Nat \ {0},
           m * d <= n * e
    PROVE  Rounded(m, e) <= Rounded(n, d)
<1> DEFINE q == Rounded(n, d)
           r == Rounded(m, e)
<1>1. q \in Nat /\ 2 * n + d < (2 * d) * (q + 1)
  BY RoundedIsQuotient
<1>2. r \in Nat /\ (2 * e) * r <= 2 * m + e
  BY RoundedIsQuotient
<1> HIDE DEF q, r
<1> SUFFICES ASSUME q + 1 <= r PROVE FALSE
  BY <1>1, <1>2 DEF q, r
<1>3. 2 * d \in Nat /\ (2 * d) * (q + 1) <= (2 * d) * r
  BY <1>1, <1>2, TimesKeepsOrder
<1>4. (2 * d) * r \in Nat /\ (2 * d) * (q + 1) \in Nat /\ (2 * e) * r \in Nat
  BY <1>1, <1>2
<1>5. 2 * n + d < (2 * d) * r
  BY <1>1, <1>3, <1>4
<1>6. e * (2 * n + d) < e * ((2 * d) * r)
  BY <1>4, <1>5, TimesKeepsStrictOrder
<1>7. d * ((2 * e) * r) <= d * (2 * m + e)
  BY <1>2, <1>4, TimesKeepsOrder
<1>8. e * ((2 * d) * r) = d * ((2 * e) * r)
  BY <1>2
<1>9. d * (2 * m + e) <= e * (2 * n + d)
  <2>1. d * (2 * m + e) = 2 * (m * d) + d * e
    OBVIOUS
  <2>2. e * (2 * n + d) = 2 * (n * e) + d * e
    OBVIOUS
  <2>3. m * d \in Nat /\ n * e \in Nat /\ d * e \in Nat
    OBVIOUS
  <2> QED BY <2>1, <2>2, <2>3
<1>10. /\ e * (2 * n + d) \in Nat /\ e * ((2 * d) * r) \in Nat
       /\ d * ((2 * e) * r) \in Nat /\ d * (2 * m + e) \in Nat
  BY <1>2
<1> QED BY <1>6, <1>7, <1>8, <1>9, <1>10

\* A set of numbers that holds what can be counted from 0 on holds all.
LEMMA CountingUp ==
    ASSUME NEW G, 0 \in G, \A n \in Nat : n \in G => n + 1 \in G
    PROVE  Nat \subseteq G
<1> SUFFICES ASSUME Nat \ G # {} PROVE FALSE
  OBVIOUS
<1> DEFINE R == OpToRel(<, Nat)
<1>1. IsWellFoundedOn(R, Nat)
  BY NatLessThanWellFounded
<1>2. \A k, n \in Nat : k < n => <<k, n>> \in R
  BY DEF OpToRel
<1> HIDE DEF R
<1>3. PICK n \in Nat \ G : \A k \in Nat \ G : ~(<<k, n>> \in R)
  BY <1>1, WFMin
<1>4. n - 1 \in Nat
  BY <1>3
<1>5. n - 1 \in G
  <2>1. n - 1 < n /\ n \in Nat
    BY <1>3
  <2>2. <<n - 1, n>> \in R
    BY <1>2, <1>4, <2>1
  <2> QED BY <1>3, <1>4, <2>2
<1>6. (n - 1) + 1 \in G
  BY <1>4, <1>5
<1>7. (n - 1) + 1 = n
  BY <1>3
<1> QED BY <1>3, <1>6, <1>7

\* A finite set of numbers that is not empty has a greatest one.
LEMMA GreatestNumber ==
    ASSUME NEW S \in SUBSET Nat, IsFiniteSet(S), S # {}
    PROVE  Max(S) \in S /\ \A y \in S : y <= Max(S)
<1>1. PICK n \in Nat : ExistsBijection(1..n, S)
  BY FS_NatBijection
<1>2. PICK f \in [1..n -> S] : \A y \in S : \E i \in 1..n : f[i] = y
  BY <1>1 DEF ExistsBijection, Bijection, Surjection
<1> DEFINE G == {k \in Nat : k \in 1..n => \E i \in 1..k : \A j \in 1..k : f[j] <= f[i]}
<1>3. 0 \in G
  OBVIOUS
<1>4. ASSUME NEW k \in Nat, k \in G PROVE k + 1 \in G
  <2> SUFFICES ASSUME k + 1 \in 1..n
               PROVE  \E i \in 1..(k + 1) : \A j \in 1..(k + 1) : f[j] <= f[i]
    OBVIOUS
  <2>1. \A j \in 1..(k + 1) : f[j] \in Nat /\ (j = k + 1 \/ j \in 1..k)
    <3>1. \A j \in 1..n : f[j] \in Nat
      BY <1>2
    <3>2. \A j \in 1..(k + 1) : j \in 1..n /\ (j = k + 1 \/ j \in 1..k)
      OBVIOUS
    <3> QED BY <3>1, <3>2
  <2>2. CASE k = 0
    BY <2>1, <2>2
  <2>3. CASE k # 0
    <3>1. PICK i \in 1..k : \A j \in 1..k : f[j] <= f[i]
      BY <1>4, <2>3
    <3>2. CASE f[k + 1] <= f[i]
      <4>1. i \in 1..(k + 1) /\ \A j \in 1..(k + 1) : f[j] <= f[i]
        BY <2>1, <3>1, <3>2
      <4> QED BY <4>1
    <3>3. CASE f[i] <= f[k + 1]
      <4>1. k + 1 \in 1..(k + 1) /\ \A j \in 1..(k + 1) : f[j] <= f[k + 1]
        BY <2>1, <3>1, <3>3
      <4> QED BY <4>1
    <3> QED BY <2>1, <3>2, <3>3
  <2> QED BY <2>2, <2>3
<1>5. n \in G
  <2> HIDE DEF G
  <2> QED BY <1>3, <1>4, CountingUp
<1>6. n # 0
  <2>1. PICK y : y \in S
    OBVIOUS
  <2>2. PICK i \in 1..n : f[i] = y
    BY <1>2, <2>1
  <2> QED BY <2>2
<1>7. PICK i \in 1..n : \A j \in 1..n : f[j] <= f[i]
  BY <1>5, <1>6
<1>8. f[i] \in S /\ \A y \in S : f[i] >= y
  BY <1>2, <1>7
<1> QED BY <1>8 DEF Max

LEMMA EfficiencyIsNumber ==
    ASSUME NEW m, IsMonster(m), NEW p, IsPlayer(p)
    PROVE  /\ Efficiency(m, p) \in Nat
           /\ Danger(m, p, 14, 50) \in Nat /\ 1000 * m.exp \in Nat
<1>1. Danger(m, p, 14, 50) \in Nat /\ 1000 * m.exp \in Nat
  BY Measures DEF Danger, IsMonster
<1>2. 10 + Danger(m, p, 14, 50) \in Nat \ {0}
  BY <1>1
<1>3. Rounded(1000 * m.exp, 10 + Danger(m, p, 14, 50)) \in Nat
  <2>1. \A n \in Nat, d \in Nat \ {0} : Rounded(n, d) \in Nat
    BY RoundedIsQuotient
  <2> DEFINE n == 1000 * m.exp
             d == 10 + Danger(m, p, 14, 50)
  <2>2. n \in Nat /\ d \in Nat \ {0}
    BY <1>1, <1>2
  <2> HIDE DEF n, d
  <2>3. Rounded(n, d) \in Nat
    BY <2>1, <2>2
  <2> QED BY <2>3 DEF n, d
<1> QED BY <1>1, <1>3 DEF Efficiency

\* The best by experience for danger is as good as the band asks for, which is
\* a number.
LEMMA BandIsNumber ==
    ASSUME NEW pool, IsFiniteSet(pool), pool # {}, \A m \in pool : IsMonster(m),
           NEW p, IsPlayer(p)
    PROVE  BandFloor(pool, p) \in Nat
<1> DEFINE E == {Efficiency(m, p) : m \in pool}
           f == [m \in pool |-> Efficiency(m, p)]
<1>1. E \in SUBSET Nat /\ E # {}
  BY EfficiencyIsNumber
<1>2. IsFiniteSet(E)
  <2>1. f \in Surjection(pool, E)
    BY DEF Surjection
  <2> HIDE DEF f, E
  <2> QED BY <2>1, FS_Surjection
<1>3. Max(E) \in Nat
  <2> HIDE DEF E
  <2> QED BY <1>1, <1>2, GreatestNumber
<1> QED BY <1>3, RoundedIsQuotient DEF BandFloor

\* No safe monster that is easier than the target is as efficient.
LEMMA BestTakesNoRisk ==
    ASSUME TTypeOK, NEW list \in Lists, NEW p \in Players, NEW t \in Targets(list, p),
           NEW m \in Safe(list, p), EasierThan(m, t, p)
    PROVE  m.exp * (10 + Danger(t, p, 14, 50)) < t.exp * (10 + Danger(m, p, 14, 50))
<1> DEFINE pool == Safe(list, p)
<1>1. t \in pool /\ \A x \in pool : x \in list /\ IsMonster(x)
  BY TargetsAreCandidates, TargetingAssumption DEF Safe, IsMonster
<1>2. IsPlayer(p) /\ IsFiniteSet(pool) /\ pool # {}
  <2>1. IsFiniteSet(list) /\ pool \subseteq list
    BY TargetingAssumption DEF Safe
  <2> QED BY <1>1, <2>1, FS_Subset, TargetingAssumption DEF IsPlayer
<1>3. Danger(m, p, 14, 50) < Danger(t, p, 14, 50)
  BY <1>1, <1>2, EasierIsLessDanger
<1>4. t \in Best(pool, p)
  <2>1. ~Sustained
    <3> SUFFICES ASSUME Sustained PROVE FALSE
      OBVIOUS
    <3>1. t \in Least(pool, LAMBDA x : Danger(x, p, 15, 50))
      BY <1>2 DEF Targets
    <3>2. Danger(t, p, 15, 50) <= Danger(m, p, 15, 50)
      BY <3>1 DEF Least
    <3>3. Danger(m, p, 15, 50) < Danger(t, p, 15, 50)
      BY <1>1, <1>2, EasierIsLessDanger
    <3> QED BY <1>1, <1>2, <3>2, <3>3, Measures DEF Danger
  <2> QED BY <1>2, <2>1 DEF Targets
<1> DEFINE floor == BandFloor(pool, p)
<1>5. Efficiency(t, p) >= floor /\
      (Efficiency(m, p) >= floor => Danger(t, p, 14, 50) <= Danger(m, p, 14, 50))
  BY <1>4 DEF Best, Least
<1>6. floor \in Nat
  BY <1>1, <1>2, BandIsNumber
<1> DEFINE dm == Danger(m, p, 14, 50)
           dt == Danger(t, p, 14, 50)
<1>7. /\ dm \in Nat /\ dt \in Nat /\ m.exp \in Nat /\ t.exp \in Nat
      /\ Efficiency(m, p) \in Nat /\ Efficiency(t, p) \in Nat
  BY <1>1, <1>2, EfficiencyIsNumber DEF IsMonster
<1>8. Efficiency(m, p) < Efficiency(t, p)
  <2> HIDE DEF dm, dt, floor
  <2> QED BY <1>3, <1>5, <1>6, <1>7 DEF dm, dt
<1>9. ~((1000 * t.exp) * (10 + dm) <= (1000 * m.exp) * (10 + dt))
  <2> SUFFICES ASSUME (1000 * t.exp) * (10 + dm) <= (1000 * m.exp) * (10 + dt) PROVE FALSE
    OBVIOUS
  <2>1. Rounded(1000 * t.exp, 10 + dt) <= Rounded(1000 * m.exp, 10 + dm)
    <3> HIDE DEF dm, dt
    <3>1. 10 + dm \in Nat \ {0} /\ 10 + dt \in Nat \ {0}
          /\ 1000 * t.exp \in Nat /\ 1000 * m.exp \in Nat
      BY <1>7
    <3> QED BY <3>1, RoundingKeepsOrder
  <2> QED BY <1>7, <1>8, <2>1 DEF Efficiency
<1>10. ~(t.exp * (10 + dm) <= m.exp * (10 + dt))
  <2> HIDE DEF dm, dt
  <2> DEFINE u == t.exp
             v == m.exp
  <2>1. u \in Nat /\ v \in Nat
    BY <1>7
  <2>2. ~((1000 * u) * (10 + dm) <= (1000 * v) * (10 + dt))
    BY <1>9
  <2> HIDE DEF u, v
  <2>3. (1000 * u) * (10 + dm) = 1000 * (u * (10 + dm))
        /\ (1000 * v) * (10 + dt) = 1000 * (v * (10 + dt))
        /\ u * (10 + dm) \in Nat /\ v * (10 + dt) \in Nat
    BY <1>7, <2>1
  <2>4. ~(u * (10 + dm) <= v * (10 + dt))
    BY <2>2, <2>3
  <2> QED BY <2>4 DEF u, v
<1>11. m.exp * (10 + dt) \in Nat /\ t.exp * (10 + dm) \in Nat
  <2> HIDE DEF dm, dt
  <2> QED BY <1>7
<1> QED BY <1>10, <1>11

\* What the choice was made of stays what it was.
ChoiceStands ==
    /\ choice'.target = choice.target /\ choice'.safe = choice.safe
    /\ choice'.player = choice.player

LEMMA NoRiskKept ==
    ASSUME IInv, NoRiskForNothing, [TNext]_tvars
    PROVE  NoRiskForNothing'
<1>1. CASE choice' = NoChoice
  BY <1>1 DEF NoRiskForNothing, NoChoice
<1>2. CASE ChoiceStands
  BY <1>2 DEF ChoiceStands, NoRiskForNothing, EasierThan, Danger, Level
<1>3. CASE Choose
  <2>1. PICK list \in Lists, p \in Players :
          \E target \in IF list = {} THEN {{}} ELSE {{m} : m \in Targets(list, p)} :
             choice' = [target |-> target, list |-> list, player |-> p,
                        safe |-> Safe(list, p), defeats |-> Defeats,
                        surrenders |-> surrenders, later |-> FALSE]
    BY <1>3 DEF Choose
  <2>2. /\ choice'.safe = Safe(list, p) /\ choice'.player = p
        /\ \A t \in choice'.target : t \in Targets(list, p)
    BY <2>1
  <2> SUFFICES ASSUME NEW t \in choice'.target, choice'.safe # {}
               PROVE  /\ t \in choice'.safe
                      /\ \A m \in choice'.safe : EasierThan(m, t, p) =>
                            m.exp * (10 + Danger(t, p, 14, 50))
                              < t.exp * (10 + Danger(m, p, 14, 50))
    BY <2>2 DEF NoRiskForNothing, EasierThan, Danger, Level
  <2>3. t \in Safe(list, p)
    BY <2>2, TargetsAreCandidates
  <2> QED BY <2>2, <2>3, BestTakesNoRisk DEF IInv
<1>4. CASE Answer \/ GiveUp \/ FightEnds \/ UNCHANGED tvars
  BY <1>1, <1>2, <1>4 DEF Answer, GiveUp, FightEnds, tvars, ChoiceStands
<1>5. CASE Meanwhile
  <2>1. ChoiceStands
    BY <1>5 DEF Meanwhile, ChoiceStands, IInv, TTypeOK
  <2> QED BY <1>2, <2>1
<1> QED BY <1>3, <1>4, <1>5 DEF TNext

\* "safe monster selection now chooses the lowest-danger option inside the top
\* efficiency band" (docs/DECISIONS.md): for all monsters, players and windows,
\* and though the code compares rounded numbers, no safe monster is less of a
\* danger than the target and as efficient.
THEOREM TakesNoRiskForNothing == TSpec => []NoRiskForNothing
<1>1. TInit => NoRiskForNothing
  BY DEF TInit, NoRiskForNothing, NoChoice
<1> QED BY <1>1, Initially, Inductive, NoRiskKept, PTL DEF TSpec
=============================================================================
