----------------------------- MODULE DaemonLock -----------------------------
(* The single-instance guard of scripts/live-runner-daemon.sh: a PID file    *)
(* that is looked at, written and removed in separate commands.  A process   *)
(* is its PID; pids of dead processes can be given out again.                *)
CONSTANTS
    Pids,
    None, Empty     \* no lock file; one with nothing in it

ASSUME DaemonAssumption ==
    None \notin Pids /\ Empty \notin Pids /\ None # Empty

VARIABLES
    lock,           \* the lock file's content
    pc,             \* where each process is; "foreign" is some other program
    old,            \* OLD_PID
    incidents       \* history: "raced", two starts were under way at once;
                    \* "signalled", a daemon outlived its trap; "reused", the
                    \* pid in the lock, or read from it, was given out again

vars == <<lock, pc, old, incidents>>

Starting == {p \in Pids : pc[p] \in {"check", "read", "probe", "truncate", "echo", "trap"}}

Daemons == {p \in Pids : pc[p] \in {"trap", "cycle", "sleep"}}

Alive(p) == pc[p] # "off"

Init ==
    /\ lock = None
    /\ pc = [p \in Pids |-> "off"]
    /\ old = [p \in Pids |-> Empty]
    /\ incidents = {}

Goto(p, from, to) == pc[p] = from /\ pc' = [pc EXCEPT ![p] = to]

Given(p) == IF lock = p \/ \E q \in Pids : pc[q] = "probe" /\ old[q] = p
            THEN {"reused"} ELSE {}

Start(p) ==
    /\ Goto(p, "off", "check")
    /\ incidents' = incidents \union Given(p)
                      \union (IF Starting = {} THEN {} ELSE {"raced"})
    /\ UNCHANGED <<lock, old>>

Check(p) ==
    /\ Goto(p, "check", IF lock = None THEN "truncate" ELSE "read")
    /\ UNCHANGED <<lock, old>>

\* `cat ... || true`: nothing if the file has gone or is empty.
Read(p) ==
    /\ Goto(p, "read", IF lock \in Pids THEN "probe" ELSE "truncate")
    /\ old' = [old EXCEPT ![p] = lock]
    /\ UNCHANGED lock

ProbeInverted(p) == ~Alive(old[p])          \* mutant: kill -0 read the wrong way
ProbeNothing(p) == FALSE                    \* mutant: the pid is not probed

\* `kill -0`: some process has that pid.
Probe(p) == Alive(old[p])

Refuse(p) ==
    /\ Goto(p, "probe", "off")
    /\ Probe(p)
    /\ UNCHANGED <<lock, old>>

Proceed(p) ==
    /\ Goto(p, "probe", "truncate")
    /\ ~Probe(p)
    /\ UNCHANGED <<lock, old>>

\* `echo $$ > file`: the file is opened and emptied ...
Truncate(p) ==
    /\ Goto(p, "truncate", "echo")
    /\ lock' = Empty
    /\ UNCHANGED old

EchoOldPid(p) == old[p]                     \* mutant: the old pid is kept
Pid(p) == p

\* ... then written to, unless it was removed in between.
Echo(p) ==
    /\ Goto(p, "echo", "trap")
    /\ lock' = IF lock = None THEN None ELSE Pid(p)
    /\ UNCHANGED old

\* The trap is set and the start is logged; if that fails, `set -e` exits
\* through the trap.
Enter(p) ==
    /\ \/ /\ Goto(p, "trap", "cycle")
          /\ UNCHANGED lock
       \/ /\ Goto(p, "trap", "off")
          /\ lock' = None
    /\ UNCHANGED old

Cycle(p) == Goto(p, "cycle", "sleep") /\ UNCHANGED <<lock, old>>

Sleep(p) == Goto(p, "sleep", "cycle") /\ UNCHANGED <<lock, old>>

\* The trap removes the lock and does not exit: the loop goes on.
Signal(p) ==
    /\ pc[p] \in {"cycle", "sleep"}
    /\ lock' = None
    /\ incidents' = incidents \union {"signalled"}
    /\ UNCHANGED <<pc, old>>

\* A signal that also kills `sleep` makes it fail: `set -e` ends the daemon.
Exit(p) ==
    /\ Goto(p, "sleep", "off")
    /\ lock' = None
    /\ UNCHANGED old

\* kill -9, or any signal before the trap is set.
Kill(p) ==
    /\ p \in Daemons \union Starting
    /\ Goto(p, pc[p], "off")
    /\ UNCHANGED <<lock, old>>

\* Another program gets the pid, and ends.
Foreign(p) ==
    /\ \/ Goto(p, "off", "foreign") /\ incidents' = incidents \union Given(p)
       \/ Goto(p, "foreign", "off") /\ UNCHANGED incidents
    /\ UNCHANGED <<lock, old>>

Enters(p) == Check(p) \/ Read(p) \/ Refuse(p) \/ Proceed(p) \/ Truncate(p)
             \/ Echo(p) \/ Enter(p)

Next == \E p \in Pids :
    \/ Start(p) \/ Signal(p) \/ Foreign(p)
    \/ /\ Enters(p) \/ Cycle(p) \/ Sleep(p) \/ Exit(p) \/ Kill(p)
       /\ UNCHANGED incidents

Spec == Init /\ [][Next]_vars

-----------------------------------------------------------------------------
(* Properties *)

\* The values the variables take.
TypeOK ==
    /\ lock \in Pids \union {None, Empty}
    /\ pc \in [Pids -> {"off", "check", "read", "probe", "truncate", "echo",
                        "trap", "cycle", "sleep", "foreign"}]
    /\ old \in [Pids -> Pids \union {None, Empty}]
    /\ incidents \subseteq {"raced", "signalled", "reused"}

Orderly == {"raced", "signalled"} \intersect incidents = {}

\* At most one daemon loops (README: "단일 인스턴스 가드"), as long as no two
\* starts were under way at once and no daemon outlived its trap; kill -9 at any
\* point and pids given out again do no harm.
SingleDaemon == Orderly => \A p, q \in Daemons : p = q

\* Under the same conditions the pid of a looping daemon is what a new start
\* finds in the lock file.
LockNamesDaemon == Orderly => \A p \in Daemons : lock = p

\* A start is skipped only if a daemon is running (README: "PID 락이 살아있으면
\* 중복 실행을 건너뜀"), unless the pid in the lock was given out again.
SkipsOnlyDuplicates ==
    [][\A p \in Pids : Refuse(p) /\ "reused" \notin incidents =>
          Daemons # {}]_vars
=============================================================================
