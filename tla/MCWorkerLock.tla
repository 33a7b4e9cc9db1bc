---------------------------- MODULE MCWorkerLock ----------------------------
EXTENDS WorkerLock, TLC

\* Safety runs only: processes are interchangeable.
ProcSymmetry == Permutations(Procs)
=============================================================================
