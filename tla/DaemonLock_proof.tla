--------------------------- MODULE DaemonLock_proof ---------------------------
(* What the PID file guarantees for any number of processes, as long as no    *)
(* two starts are under way at once and no daemon outlives its trap.          *)
EXTENDS DaemonLock, TLAPS

USE DaemonAssumption DEF DaemonAssumption

\* One start at a time.
OneStart == \A p, q \in Starting : p = q

\* A start that is past its probe has the field to itself, and the file it has
\* opened is still empty.
Alone ==
    \A p \in Pids :
        /\ pc[p] \in {"truncate", "echo"} => Daemons = {}
        /\ pc[p] = "echo" => lock = Empty

\* A start that has read the pid of a file finds the daemon's.
Warned == \A p \in Pids : pc[p] = "probe" => \A d \in Daemons : old[p] = d

\* The inductive invariant: SingleDaemon follows from LockNamesDaemon, which is
\* kept since a start past its probe meets no daemon.
IInv == TypeOK /\ (Orderly => OneStart /\ Alone /\ Warned /\ LockNamesDaemon)

LEMMA Initially == Init => IInv
BY DEF Init, IInv, TypeOK, OneStart, Alone, Warned, LockNamesDaemon, Starting, Daemons

LEMMA TypeKept == ASSUME TypeOK, [Next]_vars PROVE TypeOK'
<1>1. CASE UNCHANGED vars
  BY <1>1 DEF vars, TypeOK
<1>2. ASSUME NEW p \in Pids, Start(p) \/ Signal(p) \/ Foreign(p)
      PROVE  TypeOK'
  BY <1>2 DEF Start, Signal, Foreign, Goto, Given, TypeOK
<1>3. ASSUME NEW p \in Pids, Enters(p), UNCHANGED incidents
      PROVE  TypeOK'
  BY <1>3 DEF Enters, Check, Read, Refuse, Proceed, Truncate, Echo, Enter, Pid, Goto, TypeOK
<1>4. ASSUME NEW p \in Pids, Cycle(p) \/ Sleep(p) \/ Exit(p) \/ Kill(p), UNCHANGED incidents
      PROVE  TypeOK'
  BY <1>4 DEF Cycle, Sleep, Exit, Kill, Goto, TypeOK
<1> QED BY <1>1, <1>2, <1>3, <1>4 DEF Next

\* What a step of one process has to keep while all is orderly.
Guarded == OneStart /\ Alone /\ Warned /\ LockNamesDaemon

LEMMA Inductive == IInv /\ [Next]_vars => IInv'
<1> SUFFICES ASSUME IInv, [Next]_vars, Orderly' PROVE Guarded'
  BY TypeKept DEF IInv, Guarded
<1>1. TypeOK /\ TypeOK'
  BY TypeKept DEF IInv
<1>2. CASE UNCHANGED vars
  BY <1>2 DEF IInv, Guarded, vars, Orderly, OneStart, Alone, Warned, LockNamesDaemon,
     Starting, Daemons
<1>3. ASSUME NEW p \in Pids, Start(p) \/ Signal(p) \/ Foreign(p)
      PROVE  Guarded'
  <2>1. Orderly /\ Guarded
    BY <1>3 DEF Start, Signal, Foreign, Orderly, IInv, Guarded
  <2> USE DEF Guarded, OneStart, Alone, Warned, LockNamesDaemon, Starting, Daemons,
          TypeOK, Goto
  <2>2. CASE Start(p)
    <3>1. Starting = {}
      BY <2>2 DEF Start, Orderly
    <3> QED BY <1>1, <2>1, <2>2, <3>1 DEF Start, Orderly
  <2>3. CASE Signal(p)
    BY <2>3 DEF Signal, Orderly
  <2>4. CASE Foreign(p)
    BY <1>1, <2>1, <2>4 DEF Foreign, Orderly
  <2> QED BY <1>3, <2>2, <2>3, <2>4
<1>4. ASSUME NEW p \in Pids, UNCHANGED incidents,
             Enters(p) \/ Cycle(p) \/ Sleep(p) \/ Exit(p) \/ Kill(p)
      PROVE  Guarded'
  <2>1. Orderly /\ Guarded
    BY <1>4 DEF Orderly, IInv, Guarded
  <2> USE <1>1, <2>1
      DEF Guarded, Orderly, OneStart, Alone, Warned, LockNamesDaemon, Starting, Daemons,
          TypeOK, Goto
  <2>2. CASE Check(p)
    BY <2>2 DEF Check
  <2>3. CASE Read(p)
    BY <2>3 DEF Read
  <2>4. CASE Refuse(p)
    BY <2>4 DEF Refuse
  <2>5. CASE Proceed(p)
    <3>1. Daemons = {}
      BY <2>5 DEF Proceed, Probe, Alive
    <3> QED BY <2>5, <3>1 DEF Proceed
  <2>6. CASE Truncate(p)
    BY <2>6 DEF Truncate
  <2>7. CASE Echo(p)
    BY <2>7 DEF Echo, Pid
  <2>8. CASE Enter(p)
    BY <2>8 DEF Enter
  <2>9. CASE Cycle(p) \/ Sleep(p)
    BY <2>9 DEF Cycle, Sleep
  <2>10. CASE Exit(p)
    BY <2>10 DEF Exit
  <2>11. CASE Kill(p)
    BY <2>11 DEF Kill
  <2> QED BY <1>4, <2>2, <2>3, <2>4, <2>5, <2>6, <2>7, <2>8, <2>9, <2>10, <2>11 DEF Enters
<1> QED BY <1>2, <1>3, <1>4 DEF Next

LEMMA Invariant == Spec => []IInv
<1> QED BY Initially, Inductive, PTL DEF Spec

\* For any number of processes the pid of a looping daemon is the one in the
\* lock file, while all is orderly.
THEOREM LockIsTheDaemons == Spec => []LockNamesDaemon
<1>1. IInv => LockNamesDaemon
  BY DEF IInv, LockNamesDaemon
<1> QED BY <1>1, Invariant, PTL

\* For any number of processes one daemon loops at most, while all is orderly.
THEOREM OneDaemonOnly == Spec => []SingleDaemon
<1>1. IInv => SingleDaemon
  BY DEF IInv, LockNamesDaemon, SingleDaemon
<1> QED BY <1>1, Invariant, PTL

-----------------------------------------------------------------------------
(* Starts that are skipped; other starts and signals may come as they like. *)

\* A pid that is alive is a daemon's, where a start may look for one.
Known ==
    /\ lock \in Pids /\ Alive(lock) => lock \in Daemons
    /\ \A p \in Pids : pc[p] = "probe" =>
          old[p] \in Pids /\ (Alive(old[p]) => old[p] \in Daemons)

Truthful == TypeOK /\ ("reused" \notin incidents => Known)

LEMMA TruthfulInitially == Init => Truthful
BY DEF Init, Truthful, TypeOK, Known, Alive

LEMMA TruthfulKept == Truthful /\ [Next]_vars => Truthful'
<1> SUFFICES ASSUME Truthful, [Next]_vars, "reused" \notin incidents' PROVE Known'
  BY TypeKept DEF Truthful
<1>1. TypeOK
  BY DEF Truthful
<1>2. CASE UNCHANGED vars
  BY <1>2 DEF Truthful, vars, Known, Alive, Daemons
<1>3. ASSUME NEW p \in Pids, Start(p) \/ Signal(p) \/ Foreign(p)
      PROVE  Known'
  <2>1. Known
    BY <1>3 DEF Start, Signal, Foreign, Truthful
  <2> USE <1>1, <2>1 DEF Known, Alive, Daemons, TypeOK, Goto
  <2>2. CASE Start(p)
    BY <2>2 DEF Start, Given
  <2>3. CASE Signal(p)
    BY <2>3 DEF Signal
  <2>4. CASE Foreign(p)
    BY <2>4 DEF Foreign, Given
  <2> QED BY <1>3, <2>2, <2>3, <2>4
<1>4. ASSUME NEW p \in Pids, UNCHANGED incidents,
             Enters(p) \/ Cycle(p) \/ Sleep(p) \/ Exit(p) \/ Kill(p)
      PROVE  Known'
  <2>1. Known
    BY <1>4 DEF Truthful
  <2> USE <1>1, <2>1 DEF Known, Alive, Daemons, Starting, TypeOK, Goto
  <2>2. CASE Check(p) \/ Read(p)
    BY <2>2 DEF Check, Read
  <2>3. CASE Refuse(p) \/ Proceed(p)
    BY <2>3 DEF Refuse, Proceed
  <2>4. CASE Truncate(p) \/ Echo(p) \/ Enter(p)
    BY <2>4 DEF Truncate, Echo, Enter, Pid
  <2>5. CASE Cycle(p) \/ Sleep(p) \/ Exit(p) \/ Kill(p)
    BY <2>5 DEF Cycle, Sleep, Exit, Kill
  <2> QED BY <1>4, <2>2, <2>3, <2>4, <2>5 DEF Enters
<1> QED BY <1>2, <1>3, <1>4 DEF Next

\* For any number of processes, starts that race and signals included, a start
\* is skipped only if a daemon is running, until a pid is given out again.
THEOREM SkipsForADaemon == Spec => SkipsOnlyDuplicates
<1>1. ASSUME Truthful, NEW p \in Pids, Refuse(p), "reused" \notin incidents
      PROVE  Daemons # {}
  BY <1>1 DEF Truthful, Known, Refuse, Goto, Probe
<1>2. Truthful => [\A p \in Pids : Refuse(p) /\ "reused" \notin incidents =>
                      Daemons # {}]_vars
  BY <1>1
<1>3. Spec => []Truthful
  BY TruthfulInitially, TruthfulKept, PTL DEF Spec
<1> QED BY <1>2, <1>3, PTL DEF SkipsOnlyDuplicates
=============================================================================
