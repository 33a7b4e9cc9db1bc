---------------------------- MODULE MCLiveRunner ----------------------------
(* Characters to start with, and settings for the runner. *)
EXTENDS LiveRunner

Everything == {"hp_potion", "mp_potion", "charm", "buff"}

Ready == [fighting |-> FALSE, risky |-> FALSE, crowd |-> "no",
          worn |-> {"weapon", "armor"}, spare |-> {}, hp |-> "fine",
          level |-> 1, area |-> 1, has |-> Everything]

Veteran == [Ready EXCEPT !.level = 2]

\* Short of everything, its gear in the bag.
Newcomer == [Ready EXCEPT !.worn = {}, !.spare = {"weapon", "armor"}, !.has = {"scroll"}]

\* Has a weapon; armour may be found.
Half == [Ready EXCEPT !.worn = {"weapon"}]

Anyone == {Ready, Veteran, Newcomer, Half}

Plain == [actions |-> 3, combatStart |-> TRUE, respawns |-> FALSE, trouble |-> {},
          shortages |-> {{}}, wealth |-> {TRUE}, haps |-> {}, worlds |-> {Ready}]

\* A long process, while the game refuses, limits or drops two of the calls.
Refused == [Plain EXCEPT !.actions = 6, !.trouble = {"combat_start", "move"},
                         !.worlds = {Veteran}]

\* The hunt mode, with every other kind of trouble.
Hunting ==
    [Plain EXCEPT
        !.combatStart = FALSE,
        !.trouble = {"status", "inventory", "network", "mutation_shield",
                     "surrender_stuck_hunt_mode", "buy_hp", "danger_surrender"},
        !.shortages = {{}, {"use_item"}, {"hunt"}},
        !.wealth = {TRUE, FALSE},
        !.haps = {"fighting", "spend", "risky"},
        !.worlds = Anyone]

\* The daemon at work: every call is answered, and a fight may bring anything.
Lasting ==
    [Plain EXCEPT
        !.respawns = TRUE,
        !.haps = {"fighting", "risky", "junk", "weak", "find", "spend", "level"},
        !.worlds = Anyone]

\* No armour, and past the first level threshold.
Unarmed == [Plain EXCEPT !.worlds = {[Veteran EXCEPT !.worn = {"weapon"}]}]

AllSettings == {Refused, Hunting, Lasting}
OnlyUnarmed == {Unarmed}
=============================================================================
