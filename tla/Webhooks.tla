------------------------------- MODULE Webhooks -------------------------------
(***************************************************************************)
(* WebhookSender (webhooks.py): worker processes that sweep the finished   *)
(* jobs that are still owed a callback, post each callback, and settle it  *)
(* in a session of its own.  A receiver may refuse a post, accept it, or   *)
(* accept it too late for its answer to be heard.                          *)
(*                                                                         *)
(* Only jobs with a callback URL are modelled.  What the body says of the  *)
(* job, and its signature, are left out.                                   *)
(***************************************************************************)
EXTENDS Integers, FiniteSets

CONSTANTS Jobs, Senders,
          MaxAttempts,  \* maximum_attempts
          NoJob,        \* what a sender has posted that has posted nothing
          MaxUnheard,   \* bound on acceptances whose answer is lost
          MaxFaults     \* bound on sweeps that die

ASSUME ConstantsOK ==
    /\ IsFiniteSet(Senders) /\ Senders # {}
    /\ NoJob \notin Jobs
    /\ MaxAttempts \in Nat \ {0} /\ MaxUnheard \in Nat /\ MaxFaults \in Nat

VARIABLES ended,      \* the jobs in a terminal state
          attempts,   \* webhook_attempts of each row
          delivered,  \* the rows with a webhook_delivered_at
          pc,         \* "idle", "sweeping", "posted" or "settling"
          pending,    \* of each sender, what its sweep has still to post,
          posted,     \* the job it has just posted,
          heard,      \* whether the answer was a success,
          seen,       \* and the attempts its open settlement has read
          accepted,   \* posts of each job its receiver has accepted (history)
          unheard,    \* those whose answer was lost (history)
          faults

rows == <<ended, attempts, delivered>>
sweeps == <<pc, pending, posted, heard, seen>>
receivers == <<accepted, unheard>>
vars == <<rows, sweeps, receivers, faults>>

-----------------------------------------------------------------------------

Init ==
    /\ ended = {} /\ attempts = [j \in Jobs |-> 0] /\ delivered = {}
    /\ pc = [s \in Senders |-> "idle"] /\ pending = [s \in Senders |-> {}]
    /\ posted = [s \in Senders |-> NoJob] /\ heard = [s \in Senders |-> FALSE]
    /\ seen = [s \in Senders |-> 0]
    /\ accepted = [j \in Jobs |-> 0] /\ unheard = [j \in Jobs |-> 0]
    /\ faults = 0

\* The queue finishes a job.
End(j) ==
    /\ j \notin ended
    /\ ended' = ended \cup {j}
    /\ UNCHANGED <<attempts, delivered, sweeps, receivers, faults>>

\* Mutants of the definitions that follow each: bugs the properties must find.
OwedThoughDelivered == {j \in ended : attempts[j] < MaxAttempts}
OwedIfNeverTried == {j \in ended \ delivered : attempts[j] = 0}
Owed == {j \in ended \ delivered : attempts[j] < MaxAttempts}

\* deliver_pending reads what is owed; a sweep that finds nothing changes nothing.
Sweep(s) ==
    /\ pc[s] = "idle" /\ Owed # {}
    /\ pending' = [pending EXCEPT ![s] = Owed]
    /\ pc' = [pc EXCEPT ![s] = "sweeping"]
    /\ UNCHANGED <<rows, posted, heard, seen, receivers, faults>>

\* _send, up to its answer or its timeout.
Post(s, j) ==
    /\ pc[s] = "sweeping" /\ j \in pending[s]
    /\ pending' = [pending EXCEPT ![s] = @ \ {j}]
    /\ posted' = [posted EXCEPT ![s] = j]
    /\ pc' = [pc EXCEPT ![s] = "posted"]
    /\ UNCHANGED <<rows, seen, faults>>

Accepted(s, j) ==
    /\ Post(s, j)
    /\ accepted' = [accepted EXCEPT ![j] = @ + 1]
    /\ heard' = [heard EXCEPT ![s] = TRUE]
    /\ UNCHANGED unheard

AcceptedUnheard(s, j) ==
    /\ Post(s, j)
    /\ unheard[j] < MaxUnheard
    /\ accepted' = [accepted EXCEPT ![j] = @ + 1]
    /\ unheard' = [unheard EXCEPT ![j] = @ + 1]
    /\ heard' = [heard EXCEPT ![s] = FALSE]

RefusedPost(s, j) ==
    /\ Post(s, j)
    /\ heard' = [heard EXCEPT ![s] = FALSE]
    /\ UNCHANGED receivers

\* _settle reads the row ...
ReadSettle(s) ==
    /\ pc[s] = "posted"
    /\ seen' = [seen EXCEPT ![s] = attempts[posted[s]]]
    /\ pc' = [pc EXCEPT ![s] = "settling"]
    /\ UNCHANGED <<rows, pending, posted, heard, receivers, faults>>

DeliveredBy(s) == IF heard[s] THEN delivered \cup {posted[s]} ELSE delivered

\* ... and commits the columns it has changed: webhook_delivered_at only after
\* a success.
CommitSettle(s) ==
    /\ pc[s] = "settling"
    /\ attempts' = [attempts EXCEPT ![posted[s]] = seen[s] + 1]
    /\ delivered' = DeliveredBy(s)
    /\ pc' = [pc EXCEPT ![s] = "sweeping"]
    /\ posted' = [posted EXCEPT ![s] = NoJob]
    /\ heard' = [heard EXCEPT ![s] = FALSE]
    /\ seen' = [seen EXCEPT ![s] = 0]
    /\ UNCHANGED <<ended, pending, receivers, faults>>

Leave(s) ==
    /\ pc' = [pc EXCEPT ![s] = "idle"] /\ pending' = [pending EXCEPT ![s] = {}]
    /\ posted' = [posted EXCEPT ![s] = NoJob] /\ heard' = [heard EXCEPT ![s] = FALSE]
    /\ seen' = [seen EXCEPT ![s] = 0]

EndSweep(s) ==
    /\ pc[s] = "sweeping" /\ pending[s] = {}
    /\ Leave(s)
    /\ UNCHANGED <<rows, receivers, faults>>

\* The worker is killed, or a database error ends the drain the sweep is part of.
Die(s) ==
    /\ pc[s] # "idle"
    /\ faults < MaxFaults /\ faults' = faults + 1
    /\ Leave(s)
    /\ UNCHANGED <<rows, receivers>>

Progress(s) ==
    \/ Sweep(s) \/ ReadSettle(s) \/ CommitSettle(s) \/ EndSweep(s)
    \/ \E j \in Jobs : Accepted(s, j) \/ AcceptedUnheard(s, j) \/ RefusedPost(s, j)

Next ==
    \/ \E j \in Jobs : End(j)
    \/ \E s \in Senders : Progress(s) \/ Die(s)

Spec == Init /\ [][Next]_vars

\* Drains follow one another, each sweeps, and a post is answered or times out.
FairSpec == Spec /\ \A s \in Senders : WF_vars(Progress(s))

-----------------------------------------------------------------------------

\* The types of the state.
TypeOK ==
    /\ ended \subseteq Jobs /\ attempts \in [Jobs -> Nat] /\ delivered \subseteq ended
    /\ pc \in [Senders -> {"idle", "sweeping", "posted", "settling"}]
    /\ pending \in [Senders -> SUBSET ended]
    /\ posted \in [Senders -> ended \cup {NoJob}]
    /\ heard \in [Senders -> BOOLEAN] /\ seen \in [Senders -> Nat]
    /\ accepted \in [Jobs -> Nat] /\ unheard \in [Jobs -> Nat] /\ faults \in Nat

\* A job marked as delivered was accepted, and its receiver is not called
\* again without a reason: it accepts one callback per process that sweeps, and
\* one more for each answer that was lost and each sweep that died.
DuplicatesHaveAReason ==
    \A j \in Jobs :
        /\ j \in delivered => accepted[j] > unheard[j]
        /\ accepted[j] <= Cardinality(Senders) + unheard[j] + faults

\* Every finished job is announced, or given up after the maximum of attempts, and
\* then never posted again, although processes overwrite each other's count and
\* so take it back below the maximum.
EveryJobIsAnnounced ==
    \A j \in Jobs : j \in ended ~> [](j \in delivered \/ attempts[j] >= MaxAttempts)
=============================================================================
