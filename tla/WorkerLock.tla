----------------------------- MODULE WorkerLock -----------------------------
(* The lock file of the worker loop: src/worker/fs-lock.js, with the part of *)
(* src/worker/loop.js that acquires it, refreshes it after every tick and    *)
(* releases it when the loop ends.  Processes share one path and one clock;  *)
(* every file-system call is a step of its own, since the calls are awaited. *)
EXTENDS Naturals

CONSTANTS
    Procs,          \* the processes that may run the worker loop
    TTL,            \* staleTtlMs
    Beat,           \* longest time from one refresh of the lock to the next
    Retries,        \* lockHeartbeatRetries
    Overlap,        \* two processes may be acquiring at the same time
    Leaves,         \* a process that created the lock may finish or crash
    Stalls,         \* a holder may be late with its heartbeat
    MaxClock,       \* bound: the clock stops there
    LastCrash       \* bound: the last time at which a process crashes

\* The heartbeat follows each tick, so two are at most interval + timeout apart;
\* by default the timeout is the interval and the TTL three intervals or more.
ASSUME TimingAssumption ==
    /\ TTL \in Nat /\ Beat \in Nat /\ Retries \in Nat
    /\ MaxClock \in Nat /\ LastCrash \in Nat
    /\ Beat <= TTL

ASSUME RegimeAssumption ==
    /\ Overlap \in BOOLEAN /\ Leaves \in BOOLEAN /\ Stalls \in BOOLEAN
    /\ "none" \notin Procs

VARIABLES
    now,            \* Date.now()
    file,           \* the lock file: its creator and its mtime, or NoFile
    pc,             \* where each process is
    tries,          \* `attempt`, of the retry loop the process is in
    read,           \* the clock as the process last read it
    beat            \* mtime the process last gave the lock

vars == <<now, file, pc, tries, read, beat>>

NoFile == [owner |-> "none", mtime |-> 0]

Lock(p, t) == [owner |-> p, mtime |-> t]

Exists == file # NoFile

\* acquireWorkerLoopLock makes two attempts.
MaxAttempts == 2

MaxTries == IF Retries > MaxAttempts THEN Retries ELSE MaxAttempts

Acquiring == {p \in Procs : pc[p] \in {"open", "stat", "unlink"}}

\* From the creation of the file to its removal: the lock is p's.
Holders == {p \in Procs : pc[p] \in {"write", "loop", "touch", "release"}}

Init ==
    /\ now = 0
    /\ \/ file = NoFile
       \/ Leaves /\ \E p \in Procs : file = Lock(p, 0)   \* left by a crash
    /\ pc = [p \in Procs |-> "off"]
    /\ tries = [p \in Procs |-> 0]
    /\ read = [p \in Procs |-> 0]
    /\ beat = [p \in Procs |-> 0]

Goto(p, label) == pc' = [pc EXCEPT ![p] = label]

-----------------------------------------------------------------------------
(* acquireWorkerLoopLock *)

Start(p) ==
    /\ pc[p] = "off"
    /\ Overlap \/ Acquiring = {}
    /\ Goto(p, "open")
    /\ tries' = [tries EXCEPT ![p] = 1]
    /\ UNCHANGED <<now, file, read, beat>>

OpenTruncates == TRUE                   \* mutant: flag 'w' instead of 'wx'

OpenSucceeds == ~Exists

\* open creates the file ...
Create(p) ==
    /\ pc[p] = "open"
    /\ OpenSucceeds
    /\ file' = Lock(p, now)
    /\ beat' = [beat EXCEPT ![p] = now]
    /\ Goto(p, "write")
    /\ UNCHANGED <<now, tries, read>>

\* ... or fails with EEXIST, and the clock is read before the stat.
OpenExists(p) ==
    /\ pc[p] = "open"
    /\ Exists
    /\ read' = [read EXCEPT ![p] = now]
    /\ Goto(p, "stat")
    /\ UNCHANGED <<now, file, tries, beat>>

\* The record goes to the inode that was opened: another process's file at
\* the same path is not written to.
WriteRecord(p) ==
    /\ pc[p] = "write"
    /\ file' = IF file.owner = p THEN Lock(p, now) ELSE file
    /\ beat' = [beat EXCEPT ![p] = now]
    /\ Goto(p, "loop")
    /\ UNCHANGED <<now, tries, read>>

\* A failed write rejects the acquire and leaves the file behind.
WriteFails(p) ==
    /\ pc[p] = "write"
    /\ Leaves /\ now <= LastCrash
    /\ Goto(p, "off")
    /\ UNCHANGED <<now, file, tries, read, beat>>

StaleAtTTL(t) == ~Exists \/ t >= file.mtime + TTL      \* mutant: >= for >
StaleAtOnce(t) == ~Exists \/ t > file.mtime            \* mutant: TTL lost
StaleIfGone(t) == ~Exists                              \* mutant: age not compared

\* nowMs was read at some moment from the failed open on.  A missing file
\* counts as stale.
IsStale(t) == ~Exists \/ t > file.mtime + TTL

StatFresh(p) ==
    /\ pc[p] = "stat"
    /\ \E t \in read[p]..now : ~IsStale(t)
    /\ Goto(p, "off")                               \* ELOCKED
    /\ UNCHANGED <<now, file, tries, read, beat>>

StatStale(p) ==
    /\ pc[p] = "stat"
    /\ \E t \in read[p]..now : IsStale(t)
    /\ Goto(p, "unlink")
    /\ UNCHANGED <<now, file, tries, read, beat>>

SameAttempt(p) == tries[p]              \* mutant: attempts not counted

LastAttempt(p) == tries[p] >= MaxAttempts
NextAttempt(p) == tries[p] + 1

\* ENOENT is ignored.  After the second attempt: ELOCK_ACQUIRE_FAILED.
Unlink(p) ==
    /\ pc[p] = "unlink"
    /\ file' = NoFile
    /\ \/ /\ ~LastAttempt(p)
          /\ tries' = [tries EXCEPT ![p] = NextAttempt(p)]
          /\ Goto(p, "open")
       \/ /\ LastAttempt(p)
          /\ Goto(p, "off")
          /\ UNCHANGED tries
    /\ UNCHANGED <<now, read, beat>>

-----------------------------------------------------------------------------
(* The loop that holds the lock *)

\* A tick is over: touch() reads the clock ...
BeginTouch(p) ==
    /\ pc[p] = "loop"
    /\ read' = [read EXCEPT ![p] = now]
    /\ tries' = [tries EXCEPT ![p] = 0]
    /\ Goto(p, "touch")
    /\ UNCHANGED <<now, file, beat>>

NotRefreshed(p) == file                 \* mutant: utimes forgotten

Refreshed(p) == [file EXCEPT !.mtime = read[p]]

\* ... and utimes sets it on whatever file is at the path.
Touch(p) ==
    /\ pc[p] = "touch"
    /\ Exists
    /\ file' = Refreshed(p)
    /\ beat' = [beat EXCEPT ![p] = read[p]]
    /\ Goto(p, "loop")
    /\ UNCHANGED <<now, tries, read>>

RetriesForEver(p) == TRUE               \* mutant: the last error is not thrown

MayRetry(p) == tries[p] < Retries

\* utimes fails: ENOENT, or an I/O error.  The last retry ends the loop.
TouchFails(p) ==
    /\ pc[p] = "touch"
    /\ Exists => Leaves
    /\ \/ /\ MayRetry(p)
          /\ tries' = [tries EXCEPT ![p] = @ + 1]
          /\ read' = [read EXCEPT ![p] = now]
          /\ UNCHANGED pc
       \/ /\ ~MayRetry(p)
          /\ Goto(p, "release")
          /\ UNCHANGED <<tries, read>>
    /\ UNCHANGED <<now, file, beat>>

\* maxTicks reached.
Finish(p) ==
    /\ pc[p] = "loop"
    /\ Leaves
    /\ Goto(p, "release")
    /\ UNCHANGED <<now, file, tries, read, beat>>

\* The finally block: unlink whatever is at the path, ignoring ENOENT.
Release(p) ==
    /\ pc[p] = "release"
    /\ file' = NoFile
    /\ Goto(p, "off")
    /\ UNCHANGED <<now, tries, read, beat>>

-----------------------------------------------------------------------------
Crash(p) ==
    /\ pc[p] # "off"
    /\ p \in Holders => Leaves
    /\ now <= LastCrash
    /\ Goto(p, "off")
    /\ UNCHANGED <<now, file, tries, read, beat>>

\* Unless holders stall, none lets Beat pass without refreshing the lock.
Advance ==
    /\ now < MaxClock
    /\ Stalls \/ \A p \in Holders : now < beat[p] + Beat
    /\ now' = now + 1
    /\ UNCHANGED <<file, pc, tries, read, beat>>

Acquire(p) ==
    \/ Create(p) \/ OpenExists(p) \/ WriteRecord(p)
    \/ StatFresh(p) \/ StatStale(p) \/ Unlink(p)

Heartbeat(p) == BeginTouch(p) \/ Touch(p) \/ TouchFails(p)

Next ==
    \/ Advance
    \/ \E p \in Procs :
        \/ Start(p) \/ Acquire(p) \/ WriteFails(p)
        \/ Heartbeat(p) \/ Finish(p) \/ Release(p) \/ Crash(p)

Spec == Init /\ [][Next]_vars

\* Awaited calls return, time passes and the loop is started again whenever it
\* is not running.  Nothing makes a holder finish.
Fairness ==
    /\ WF_vars(Advance)
    /\ \A p \in Procs :
        /\ WF_vars(Start(p)) /\ WF_vars(Acquire(p))
        /\ WF_vars(Heartbeat(p)) /\ WF_vars(Release(p))

FairSpec == Spec /\ Fairness

-----------------------------------------------------------------------------
(* Properties *)

\* The values the variables take.
TypeOK ==
    /\ now \in Nat
    /\ file \in {NoFile} \union [owner : Procs, mtime : Nat]
    /\ pc \in [Procs -> {"off", "open", "write", "stat", "unlink",
                         "loop", "touch", "release"}]
    /\ tries \in [Procs -> 0..MaxTries]
    /\ read \in [Procs -> Nat]
    /\ beat \in [Procs -> Nat]

\* No two processes run the loop at once (acquireWorkerLoopLock's purpose).
MutualExclusion == \A p, q \in Holders : p = q

\* The file a live holder created stays at the path until the holder removes
\* it: no other process's stale check, retry or release takes it away.
HolderOwnsFile == \A p \in Holders : file.owner = p

\* The lock implements the abstract single-holder lock.
Abstract == INSTANCE SingleHolder WITH holders <- Holders

ImplementsSingleHolder == Abstract!Spec

\* A crashed holder's file does not keep the loop from running: it goes stale
\* and a later start takes over.
AlwaysTakenOver == []<>(Holders # {})

\* An acquire ends, with the lock or without: it does not retry for ever.
AcquireEnds == \A p \in Procs : (p \in Acquiring) ~> (p \notin Acquiring)
=============================================================================
