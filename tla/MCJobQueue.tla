----------------------------- MODULE MCJobQueue -----------------------------
(* Small instances of JobQueue. *)
EXTENDS JobQueue

CONSTANTS j1, j2, t1, t2, w1, w2

\* One process of two threads.
OneHome == [t \in Threads |-> w1]

\* Two processes of one thread each.
TwoHomes == [t \in Threads |-> IF t = t1 THEN w1 ELSE w2]

\* Expensive kinds are given two attempts (attempts_for).
TwoAttempts == [j \in Jobs |-> 2]

NoFollowUps == [j \in Jobs |-> {}]

\* j1 is a listing whose one video becomes the job j2.
Listing == [j \in Jobs |-> IF j = j1 THEN {j2} ELSE {}]
=============================================================================
