------------------------------ MODULE MCChoices ------------------------------
(* The two choices a tick makes, checked next to each other: what the worker  *)
(* does about a snapshot (Decision), and whom the live runner fights          *)
(* (Targeting).  They share nothing; a behaviour is of one of them.           *)
EXTENDS Decision, Targeting

VARIABLE part

NoSnapshot == CHOOSE s \in Snapshots : TRUE

MCInit ==
    \/ part = "worker" /\ Init /\ TInit
    \/ part = "runner" /\ TInit /\ snapshot = NoSnapshot /\ outcome = "none"

MCNext ==
    \/ part = "worker" /\ Next /\ UNCHANGED <<part, tvars>>
    \/ part = "runner" /\ TNext /\ UNCHANGED <<part, vars>>

MCSpec == MCInit /\ [][MCNext]_<<part, vars, tvars>>

\* Around a player of level 5 and defence 20: attacks on both sides of 115,
\* 135, 145 and 160 per cent, levels up to three above.
Monsters ==
    [level : {0, 6, 7}, atk : {20, 23, 24, 27, 28, 30, 33}, exp : {10, 52}]
        \union [level : {8}, atk : {20}, exp : {10, 52}]

MCPlayers == [level : {5}, def : {20}, armour : BOOLEAN]

\* Lists of no, one or two monsters.
MCLists == {{}} \union {{m, n} : m, n \in Monsters}
=============================================================================
