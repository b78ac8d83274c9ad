------------------------------ MODULE MCIntake ------------------------------
(* Small instances of Intake. *)
EXTENDS Intake

CONSTANTS v, c, k1   \* a video, a channel, a key

MCAllowance == [k \in Keys |-> 60]

Sent(via, targets, refresh) == [via |-> via, targets |-> targets, refresh |-> refresh]
MCRequests ==
    {Sent("one", <<v>>, FALSE), Sent("batch", <<v, c>>, FALSE),
     Sent("batch", <<v, BadTarget>>, TRUE), Sent("enqueue", <<v, BadTarget>>, FALSE),
     Sent("enqueue", <<c, v>>, FALSE)}

\* channel+comments is one line of two jobs.
Line(target, jobs) == [target |-> target, jobs |-> jobs]
MCLists == {<<Line(c, 2)>>, <<Line(v, 1), Line(BadTarget, 1)>>, Unreadable}
=============================================================================
