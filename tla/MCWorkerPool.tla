---------------------------- MODULE MCWorkerPool ----------------------------
(* Small instances of WorkerPool. *)
EXTENDS WorkerPool

CONSTANTS e1, e2, c1, youtube, sponsorblock

\* e1 and e2 are comment harvests, c1 is a segment lookup.
Costing == [j \in Jobs |-> IF j = c1 THEN "cheap" ELSE "expensive"]
Routing == [j \in Jobs |-> IF j = c1 THEN sponsorblock ELSE youtube]

ServeOrOnce == {NoLimit, 1}
=============================================================================
