---------------------------- MODULE MCLiquidation ----------------------------
(* Four items: a good and a bad sword, a good and a bad ring. *)
EXTENDS Liquidation

Gear == {"sword", "stick", "ring", "band"}
GearSlot == [i \in Gear |-> IF i \in {"sword", "stick"} THEN "weapon" ELSE "finger"]
GearScore == [i \in Gear |-> IF i \in {"sword", "ring"} THEN 2 ELSE 1]
GearTier == [i \in Gear |-> IF i = "band" THEN 0 ELSE 1]
GearName == [i \in Gear |-> CASE i = "sword" -> 1 [] i = "stick" -> 2
                              [] i = "ring" -> 3 [] i = "band" -> 4]
=============================================================================
