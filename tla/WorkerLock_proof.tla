-------------------------- MODULE WorkerLock_proof --------------------------
(* The lock file gives mutual exclusion, for any number of processes and any *)
(* timing with Beat <= TTL, in the two regimes in which the code's separate  *)
(* stat and unlink do no harm: acquires never overlap (~Overlap), or nobody  *)
(* that got the lock leaves (~Leaves).  Holders keep their heartbeat.        *)
EXTENDS WorkerLock, TLAPS

Safe == ~Stalls /\ (~Overlap \/ ~Leaves)

\* A holder's file is there, carries the mtime the holder gave it and has not
\* aged beyond a heartbeat.
HolderFresh ==
    \A p \in Holders :
        /\ file = Lock(p, beat[p])
        /\ beat[p] <= now /\ now <= beat[p] + Beat

\* The mtime about to be set lies between the last one and the present.
TouchOrdered ==
    \A p \in Procs : pc[p] = "touch" => beat[p] <= read[p] /\ read[p] <= now

\* Nobody removes a stale file while somebody holds the lock.
NoUnlinkWhileHeld ==
    \A p \in Procs : pc[p] = "unlink" => Holders = {}

AcquiresApart == ~Overlap => \A p, q \in Acquiring : p = q

\* When no holder leaves, the file is always a holder's, and nobody who saw
\* it can find it gone or stale.
HeldForEver ==
    ~Leaves =>
        /\ Exists => file.owner \in Holders
        /\ \A p \in Procs : pc[p] = "stat" => Exists
        /\ \A p \in Procs : pc[p] \notin {"unlink", "release"}

IInv ==
    /\ TypeOK
    /\ HolderFresh
    /\ TouchOrdered
    /\ NoUnlinkWhileHeld
    /\ AcquiresApart
    /\ HeldForEver

-----------------------------------------------------------------------------
LEMMA TypeInit == Init => TypeOK
  BY TimingAssumption DEF Init, TypeOK, Lock, MaxTries, MaxAttempts

LEMMA TypeNext == TypeOK /\ [Next]_vars => TypeOK'
<1> SUFFICES ASSUME TypeOK, [Next]_vars PROVE TypeOK'
  OBVIOUS
<1> USE TimingAssumption, RegimeAssumption DEF TypeOK, Goto, Lock
<1>1. CASE Advance
  BY <1>1 DEF Advance
<1>2. ASSUME NEW p \in Procs, Start(p) PROVE TypeOK'
  BY <1>2 DEF Start, MaxTries, MaxAttempts
<1>3. ASSUME NEW p \in Procs, Create(p) PROVE TypeOK'
  BY <1>3 DEF Create
<1>4. ASSUME NEW p \in Procs, OpenExists(p) PROVE TypeOK'
  BY <1>4 DEF OpenExists
<1>5. ASSUME NEW p \in Procs, WriteRecord(p) PROVE TypeOK'
  BY <1>5 DEF WriteRecord
<1>6. ASSUME NEW p \in Procs, StatFresh(p) PROVE TypeOK'
  BY <1>6 DEF StatFresh
<1>7. ASSUME NEW p \in Procs, StatStale(p) PROVE TypeOK'
  BY <1>7 DEF StatStale
<1>8. ASSUME NEW p \in Procs, Unlink(p) PROVE TypeOK'
  BY <1>8 DEF Unlink, LastAttempt, NextAttempt, MaxTries, MaxAttempts
<1>9. ASSUME NEW p \in Procs, WriteFails(p) PROVE TypeOK'
  BY <1>9 DEF WriteFails
<1>10. ASSUME NEW p \in Procs, BeginTouch(p) PROVE TypeOK'
  BY <1>10 DEF BeginTouch, MaxTries, MaxAttempts
<1>11. ASSUME NEW p \in Procs, Touch(p) PROVE TypeOK'
  BY <1>11 DEF Touch, Refreshed, Exists
<1>12. ASSUME NEW p \in Procs, TouchFails(p) PROVE TypeOK'
  BY <1>12 DEF TouchFails, MayRetry, MaxTries, MaxAttempts
<1>13. ASSUME NEW p \in Procs, Finish(p) PROVE TypeOK'
  BY <1>13 DEF Finish
<1>14. ASSUME NEW p \in Procs, Release(p) PROVE TypeOK'
  BY <1>14 DEF Release
<1>15. ASSUME NEW p \in Procs, Crash(p) PROVE TypeOK'
  BY <1>15 DEF Crash
<1>16. CASE UNCHANGED vars
  BY <1>16 DEF vars
<1> QED
  BY <1>1, <1>2, <1>3, <1>4, <1>5, <1>6, <1>7, <1>8, <1>9, <1>10, <1>11,
     <1>12, <1>13, <1>14, <1>15, <1>16 DEF Next, Acquire, Heartbeat

\* Every variable stays in its type, in every regime; in particular neither
\* retry loop of the lock exceeds its number of attempts.
THEOREM TypeCorrect == Spec => []TypeOK
  BY TypeInit, TypeNext, PTL DEF Spec

-----------------------------------------------------------------------------
LEMMA SafeInit == Init => IInv
<1> SUFFICES ASSUME Init PROVE IInv
  OBVIOUS
<1>1. TypeOK
  BY TypeInit
<1>2. Holders = {} /\ Acquiring = {}
  BY DEF Init, Holders, Acquiring
<1>3. HolderFresh /\ TouchOrdered /\ NoUnlinkWhileHeld /\ AcquiresApart
  BY <1>2 DEF Init, HolderFresh, TouchOrdered, NoUnlinkWhileHeld, AcquiresApart
<1>4. HeldForEver
  BY DEF Init, HeldForEver, Exists
<1> QED
  BY <1>1, <1>2, <1>3, <1>4 DEF IInv

\* The file a holder keeps fresh is not stale for anyone who compares it with
\* a clock that is not ahead: a stale verdict means there is no holder.
LEMMA StaleMeansFree ==
  ASSUME IInv, NEW t \in Nat, t <= now, IsStale(t)
  PROVE  Holders = {}
<1> SUFFICES ASSUME NEW p \in Holders PROVE FALSE
  OBVIOUS
<1>1. p \in Procs /\ file = Lock(p, beat[p]) /\ now <= beat[p] + Beat
  BY DEF IInv, HolderFresh, Holders
<1>2. Exists
  BY <1>1, RegimeAssumption DEF Exists, NoFile, Lock
<1> QED
  BY <1>1, <1>2, TimingAssumption DEF IInv, TypeOK, IsStale, Lock

\* At most one process holds the lock.
LEMMA OneHolder ==
  ASSUME IInv, NEW p \in Holders, NEW q \in Holders
  PROVE  p = q
  BY DEF IInv, HolderFresh, Lock

-----------------------------------------------------------------------------
\* A contender that reads a stale age, or finds the file gone, moves to its
\* unlink only when there is no holder.
LEMMA StatStaleSafe ==
  ASSUME IInv, Safe, TypeOK', NEW p \in Procs, StatStale(p)
  PROVE  IInv'
<1> USE DEF StatStale, Goto, IInv, TypeOK
<1>1. PICK t \in read[p]..now : IsStale(t)
  OBVIOUS
<1>2. Holders = {}
  BY <1>1, StaleMeansFree
<1>3. Holders' = {}
  BY <1>2 DEF Holders
<1>4. HolderFresh' /\ NoUnlinkWhileHeld'
  BY <1>3 DEF HolderFresh, NoUnlinkWhileHeld
<1>5. TouchOrdered'
  BY DEF TouchOrdered
<1>6. AcquiresApart'
  BY DEF AcquiresApart, Acquiring
<1>7. Leaves
  BY <1>2, RegimeAssumption DEF HeldForEver, Exists
<1> QED
  BY <1>4, <1>5, <1>6, <1>7 DEF HeldForEver

\* The file gets the mtime the holder read, which is not older than a beat.
LEMMA TouchSafe ==
  ASSUME IInv, Safe, TypeOK', NEW p \in Procs, Touch(p)
  PROVE  IInv'
<1> USE DEF Touch, Refreshed, Goto, IInv, TypeOK
<1>1. p \in Holders /\ Holders' = Holders
  BY DEF Holders
<1>2. Holders = {p}
  BY <1>1, OneHolder
<1>3. HolderFresh'
  <2>1. file = Lock(p, beat[p]) /\ now <= beat[p] + Beat
    BY <1>1 DEF HolderFresh
  <2>2. beat[p] <= read[p]
    BY DEF TouchOrdered
  <2>3. file' = Lock(p, read[p])
    BY <2>1 DEF Lock
  <2>4. read[p] <= now /\ now <= read[p] + Beat
    BY <2>1, <2>2, TimingAssumption DEF TouchOrdered
  <2> QED
    <3> SUFFICES ASSUME NEW q \in Holders'
                 PROVE  /\ file' = Lock(q, beat'[q])
                        /\ beat'[q] <= now' /\ now' <= beat'[q] + Beat
      BY DEF HolderFresh
    <3>1. q = p /\ beat'[p] = read[p]
      BY <1>1, <1>2
    <3> QED
      BY <2>3, <2>4, <3>1
<1>4. TouchOrdered'
  BY DEF TouchOrdered
<1>5. NoUnlinkWhileHeld' /\ AcquiresApart'
  BY <1>1 DEF NoUnlinkWhileHeld, AcquiresApart, Acquiring
<1>6. HeldForEver'
  BY <1>1, RegimeAssumption DEF HeldForEver, Exists, NoFile, Lock
<1> QED
  BY <1>3, <1>4, <1>5, <1>6

LEMMA SafeNext == IInv /\ Safe /\ [Next]_vars => IInv'
<1> SUFFICES ASSUME IInv, Safe, [Next]_vars PROVE IInv'
  OBVIOUS
<1>0. TypeOK'
  BY TypeNext DEF IInv
<1>1. CASE Advance
  <2>1. Holders' = Holders /\ Acquiring' = Acquiring
    BY <1>1 DEF Advance, Holders, Acquiring
  <2>2. HolderFresh'
    BY <1>0, <1>1, <2>1, TimingAssumption
    DEF Advance, Safe, IInv, TypeOK, HolderFresh, Holders, Lock
  <2>3. TouchOrdered'
    BY <1>0, <1>1 DEF Advance, IInv, TypeOK, TouchOrdered
  <2> QED
    BY <1>0, <1>1, <2>1, <2>2, <2>3
    DEF Advance, IInv, NoUnlinkWhileHeld, AcquiresApart, HeldForEver, Exists
<1> USE <1>0, TimingAssumption, RegimeAssumption
    DEF IInv, Safe, TypeOK, Goto, Lock, NoFile, Holders, Acquiring, Exists,
        HolderFresh, TouchOrdered, NoUnlinkWhileHeld, AcquiresApart, HeldForEver
<1>2. ASSUME NEW p \in Procs, Start(p) PROVE IInv'
  BY <1>2 DEF Start
<1>3. ASSUME NEW p \in Procs, Create(p) PROVE IInv'
  BY <1>3 DEF Create, OpenSucceeds
<1>4. ASSUME NEW p \in Procs, OpenExists(p) PROVE IInv'
  BY <1>4 DEF OpenExists
<1>5. ASSUME NEW p \in Procs, WriteRecord(p) PROVE IInv'
  BY <1>5 DEF WriteRecord
<1>6. ASSUME NEW p \in Procs, StatFresh(p) PROVE IInv'
  BY <1>6 DEF StatFresh
<1>7. ASSUME NEW p \in Procs, StatStale(p) PROVE IInv'
  BY <1>7, StatStaleSafe
<1>8. ASSUME NEW p \in Procs, Unlink(p) PROVE IInv'
  BY <1>8 DEF Unlink
<1>9. ASSUME NEW p \in Procs, WriteFails(p) PROVE IInv'
  BY <1>9 DEF WriteFails
<1>10. ASSUME NEW p \in Procs, BeginTouch(p) PROVE IInv'
  <2>1. Holders' = Holders /\ Acquiring' = Acquiring
    BY <1>10 DEF BeginTouch
  <2>2. beat[p] <= now
    BY <1>10 DEF BeginTouch
  <2>3. TouchOrdered'
    BY <1>10, <2>2 DEF BeginTouch
  <2> QED
    BY <1>10, <2>1, <2>3 DEF BeginTouch
<1>11. ASSUME NEW p \in Procs, Touch(p) PROVE IInv'
  BY <1>11, TouchSafe
<1>12. ASSUME NEW p \in Procs, TouchFails(p) PROVE IInv'
  BY <1>12 DEF TouchFails, MayRetry
<1>13. ASSUME NEW p \in Procs, Finish(p) PROVE IInv'
  BY <1>13 DEF Finish
<1>14. ASSUME NEW p \in Procs, Release(p) PROVE IInv'
  BY <1>14 DEF Release
<1>15. ASSUME NEW p \in Procs, Crash(p) PROVE IInv'
  BY <1>15 DEF Crash
<1>16. CASE UNCHANGED vars
  BY <1>16 DEF vars
<1> QED
  BY <1>1, <1>2, <1>3, <1>4, <1>5, <1>6, <1>7, <1>8, <1>9, <1>10, <1>11,
     <1>12, <1>13, <1>14, <1>15, <1>16 DEF Next, Acquire, Heartbeat

LEMMA Invariant == ASSUME Safe PROVE Spec => []IInv
<1>1. IInv /\ [Next]_vars => IInv'
  BY SafeNext
<1> QED
  BY <1>1, SafeInit, PTL DEF Spec

\* In the two safe regimes at most one process runs the worker loop, however
\* many are started, finish, crash and come back.
THEOREM LockExcludes == ASSUME Safe PROVE Spec => []MutualExclusion
<1>1. IInv => MutualExclusion
  BY OneHolder DEF MutualExclusion
<1> QED
  BY <1>1, Invariant, PTL

\* In the two safe regimes the file a live holder created is never removed or
\* replaced by another process.
THEOREM LockKept == ASSUME Safe PROVE Spec => []HolderOwnsFile
<1>1. IInv => HolderOwnsFile
  BY DEF IInv, HolderFresh, HolderOwnsFile, Lock
<1> QED
  BY <1>1, Invariant, PTL

-----------------------------------------------------------------------------
\* Each step enters the abstract lock, leaves it or does not touch it.
LEMMA StepRefines ==
  ASSUME IInv, Safe, [Next]_vars
  PROVE  [Abstract!Next]_Holders
<1> USE RegimeAssumption DEF IInv, TypeOK, Goto, Holders
<1>1. ASSUME NEW p \in Procs, Create(p) PROVE Abstract!Enter(p)
  <2>1. Holders = {}
    BY <1>1 DEF Create, OpenSucceeds, Exists, HolderFresh, Lock, NoFile
  <2> QED
    BY <1>1, <2>1 DEF Create, Abstract!Enter
<1>2. ASSUME NEW p \in Procs, WriteFails(p) \/ Release(p) \/ Crash(p)
      PROVE  Abstract!Leave(p) \/ UNCHANGED Holders
  <2>1. CASE p \in Holders
    <3>1. Holders = {p}
      BY <2>1, OneHolder
    <3>2. Holders' = {}
      BY <1>2, <3>1 DEF WriteFails, Release, Crash
    <3> QED
      BY <3>1, <3>2 DEF Abstract!Leave
  <2>2. CASE p \notin Holders
    BY <1>2, <2>2 DEF WriteFails, Release, Crash
  <2> QED
    BY <2>1, <2>2
<1>3. ASSUME NEW p \in Procs,
             \/ Start(p) \/ OpenExists(p) \/ WriteRecord(p) \/ StatFresh(p)
             \/ StatStale(p) \/ Unlink(p) \/ Heartbeat(p) \/ Finish(p)
      PROVE  UNCHANGED Holders
  BY <1>3 DEF Start, OpenExists, WriteRecord, StatFresh, StatStale, Unlink,
     Heartbeat, BeginTouch, Touch, TouchFails, Finish
<1>4. CASE Advance \/ UNCHANGED vars
  BY <1>4 DEF Advance, vars
<1> QED
  BY <1>1, <1>2, <1>3, <1>4 DEF Next, Acquire, Abstract!Next

\* In the two safe regimes the file protocol implements the abstract lock:
\* holders enter only when there is none, and leave on their own.
THEOREM LockRefines == ASSUME Safe PROVE Spec => ImplementsSingleHolder
<1>1. Init => Abstract!Init
  BY DEF Init, Abstract!Init, Holders
<1>2. IInv /\ [Next]_vars => [Abstract!Next]_Holders
  BY StepRefines
<1> QED
  BY <1>1, <1>2, Invariant, PTL DEF Spec, ImplementsSingleHolder, Abstract!Spec
=============================================================================
