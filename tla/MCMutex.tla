------------------------------ MODULE MCMutex ------------------------------
(* Instances of Mutex for TLC.  Mutexes differ only by their names, and so *)
(* do threads.                                                             *)
EXTENDS Mutex, TLC

MutexSymmetry == Permutations(Mutexes) \cup Permutations(Threads)
=============================================================================
