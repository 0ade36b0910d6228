---------------------------- MODULE MCScheduler ----------------------------
(* Instances of Scheduler for TLC: the clients of each run.                *)
EXTENDS Scheduler

\* Joins of threads created after the joiner, so that no two threads wait for
\* each other.
YoungerJoins == {p \in (1..MaxThreads) \X (1..MaxThreads) : p[1] < p[2]}

\* Threads 2 and 3 both join thread 4 while main stays.
TwoJoiners ==
  {[preempted |-> TRUE, joins |-> {<<2, 4>>, <<3, 4>>}, mainStays |-> TRUE]}

\* A preempted client in which everybody may join and exit.
AnyJoiners == {[preempted |-> TRUE, joins |-> YoungerJoins, mainStays |-> FALSE]}

\* A cooperative client, and one whose threads compute and never join.
TakingTurns ==
  {[preempted |-> FALSE, joins |-> YoungerJoins, mainStays |-> FALSE],
   [preempted |-> TRUE, joins |-> {}, mainStays |-> FALSE]}
=============================================================================
