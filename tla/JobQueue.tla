------------------------------ MODULE JobQueue ------------------------------
(***************************************************************************)
(* The jobs table of tubedepth and everyone who writes to it: clients that *)
(* submit and cancel, worker processes that reap, claim, execute, renew    *)
(* and settle, and the crash of any of them between two steps.             *)
(*                                                                         *)
(* A session of the code commits when its block ends (database.py).  The   *)
(* claim locks the row it picks, so it is one step.  Every other handler   *)
(* reads the row with a plain SELECT, decides, and at its commit writes    *)
(* the columns whose value it changed, so it is two: a step that reads and *)
(* a step that writes.  Anything may commit in between.                    *)
(*                                                                         *)
(* Time is abstract: a lease is "live" until it is "lapsed", a job put off *)
(* by a backoff is not "due" until it is.  claimed_by, the error columns   *)
(* and finished_at are written and never read by this part of the code, so *)
(* they are left out.                                                      *)
(***************************************************************************)
EXTENDS Integers, FiniteSets

CONSTANTS Jobs,        \* identifiers of the rows, those still to be created included
          Workers,     \* worker processes
          Threads,     \* the threads that execute jobs
          Home,        \* Home[t] is the process thread t runs in
          Clients,     \* whoever calls DELETE /jobs/{id} or `tubedepth cancel`
          MaxAttempts, \* MaxAttempts[j] is max_attempts of row j
          FollowUps,   \* FollowUps[j] are the jobs a listing job j queues
          Unknown,     \* jobs of a kind this build has no source for
          NoJob,       \* what an idle thread holds
          Faults,      \* bound on the crashes and database errors of a run
          Punctual     \* whether renewals keep the leases of live jobs live

ASSUME ConstantsOK ==
    /\ Home \in [Threads -> Workers]
    /\ MaxAttempts \in [Jobs -> Nat \ {0}]     \* attempts_for: 2 or 3
    /\ FollowUps \in [Jobs -> SUBSET Jobs]
    /\ \A i, j \in Jobs : i # j => FollowUps[i] \cap FollowUps[j] = {}
    /\ Unknown \subseteq Jobs
    /\ NoJob \notin Jobs
    /\ Faults \in Nat
    /\ Punctual \in BOOLEAN

VARIABLES row,      \* the table
          proc,     \* what each process is doing: see Proc
          reaping,  \* the expired rows a process's open reap has read
          pc,       \* what each thread is doing: see Phase
          holding,  \* the job a thread is executing
          seen,     \* the row a thread's open session has read
          verdict,  \* the state a thread has decided to settle its job with
          beat,     \* the job a thread's heartbeat has read and will renew
          client,   \* a client's open cancellation: the job and the row it read
          tried,    \* how often a job has been let out to the upstream (history)
          faults    \* crashes and database errors so far

vars == <<row, proc, reaping, pc, holding, seen, verdict, beat, client, tried, faults>>

-----------------------------------------------------------------------------

Terminal == {"succeeded", "failed", "cancelled"}
States == {"absent", "queued", "running"} \cup Terminal
Lease == {"none", "live", "lapsed"}

Row == [state : States, attempts : Nat, lease : Lease, due : BOOLEAN,
        cancel : BOOLEAN, result : BOOLEAN]

Undecided == "undecided"

Proc == {"down",      \* not running
         "up",        \* between two drains
         "reaping",   \* at the top of a drain, reap session open
         "draining"}  \* its threads may claim

Phase == {"idle",
          "permit",   \* claimed, waiting for the rate controller
          "requeue",  \* refused a permit; _requeue has read the row
          "collect",  \* in _collect, heartbeat running
          "retry",    \* domain error; _fail_or_retry has read the row
          "check",    \* collected; about to look at the cancellation mark
          "decided",  \* about to open the session of _settle
          "settle",   \* _settle has read the row
          "fanout"}   \* settled a success; follow-ups still to be queued

Absent == [state |-> "absent", attempts |-> 0, lease |-> "none", due |-> FALSE,
           cancel |-> FALSE, result |-> FALSE]

\* A row as Job(...) creates it.
Fresh == [Absent EXCEPT !.state = "queued", !.due = TRUE]

\* What a commit writes: the columns the session changed, over the row as it
\* is by then.
Column(old, new, current) == IF new = old THEN current ELSE new
Written(old, new, current) ==
    [state    |-> Column(old.state, new.state, current.state),
     attempts |-> Column(old.attempts, new.attempts, current.attempts),
     lease    |-> Column(old.lease, new.lease, current.lease),
     due      |-> Column(old.due, new.due, current.due),
     cancel   |-> Column(old.cancel, new.cancel, current.cancel),
     result   |-> Column(old.result, new.result, current.result)]

\* A session that has read nothing.
NoRows == [j \in Jobs |-> Absent]
NoCancel == [job |-> NoJob, row |-> Absent]

\* Mutants of the definitions that follow each: bugs the properties must find.
ExpiredInAnyState == {j \in Jobs : row[j].lease = "lapsed"}
ExpiredUnlessCancelled ==
    {j \in Jobs : row[j].state = "running" /\ row[j].lease = "lapsed" /\ ~row[j].cancel}
Expired == {j \in Jobs : row[j].state = "running" /\ row[j].lease = "lapsed"}
Claimable == {j \in Jobs : row[j].state = "queued" /\ row[j].due}
BusyIgnored(w) == FALSE
Busy(w) == \E t \in Threads : Home[t] = w /\ pc[t] # "idle"

-----------------------------------------------------------------------------

Init ==
    /\ row = [j \in Jobs |-> Absent]
    /\ proc = [w \in Workers |-> "up"]
    /\ reaping = [w \in Workers |-> NoRows]
    /\ pc = [t \in Threads |-> "idle"]
    /\ holding = [t \in Threads |-> NoJob]
    /\ seen = [t \in Threads |-> Absent]
    /\ verdict = [t \in Threads |-> Undecided]
    /\ beat = [t \in Threads |-> NoJob]
    /\ client = [c \in Clients |-> NoCancel]
    /\ tried = [j \in Jobs |-> 0]
    /\ faults = 0

-----------------------------------------------------------------------------
(* Clients and the clock *)

\* A client submits a job that is nobody's follow-up.
Submit(j) ==
    /\ row[j].state = "absent"
    /\ \A i \in Jobs : j \notin FollowUps[i]
    /\ row' = [row EXCEPT ![j] = Fresh]
    /\ UNCHANGED <<proc, reaping, pc, holding, seen, verdict, beat, client, tried, faults>>

\* JobRepository.cancel up to its commit: a finished job is refused.
ReadCancel(c, j) ==
    /\ client[c] = NoCancel
    /\ row[j].state \notin Terminal \cup {"absent"}
    /\ client' = [client EXCEPT ![c] = [job |-> j, row |-> row[j]]]
    /\ UNCHANGED <<row, proc, reaping, pc, holding, seen, verdict, beat, tried, faults>>

CancelledReleasesRunning(old) ==
    [old EXCEPT !.cancel = TRUE, !.lease = "none",
                !.state = IF @ = "queued" THEN "cancelled" ELSE @]

\* The row JobRepository.cancel returns for the row it has read.
Cancelled(old) ==
    IF old.state = "queued"
      THEN [old EXCEPT !.cancel = TRUE, !.state = "cancelled", !.lease = "none"]
      ELSE [old EXCEPT !.cancel = TRUE]

CommitCancel(c) ==
    /\ client[c] # NoCancel
    /\ LET j == client[c].job
           old == client[c].row
       IN  row' = [row EXCEPT ![j] = Written(old, Cancelled(old), row[j])]
    /\ client' = [client EXCEPT ![c] = NoCancel]
    /\ UNCHANGED <<proc, reaping, pc, holding, seen, verdict, beat, tried, faults>>

\* The time a backoff asked for has passed.
ComeDue(j) ==
    /\ row[j].state = "queued" /\ ~row[j].due
    /\ row' = [row EXCEPT ![j].due = TRUE]
    /\ UNCHANGED <<proc, reaping, pc, holding, seen, verdict, beat, client, tried, faults>>

\* A lease runs out.  If renewals are punctual this happens only to a job that
\* no live thread is executing any more.
Lapse(j) ==
    /\ row[j].state = "running" /\ row[j].lease = "live"
    /\ Punctual => \A t \in Threads : holding[t] # j
    /\ row' = [row EXCEPT ![j].lease = "lapsed"]
    /\ UNCHANGED <<proc, reaping, pc, holding, seen, verdict, beat, client, tried, faults>>

-----------------------------------------------------------------------------
(* The process: reap, drain, crash *)

\* drain begins; reap_expired_leases has read the rows whose lease is over.
ReadExpired(w) ==
    /\ proc[w] = "up"
    /\ proc' = [proc EXCEPT ![w] = "reaping"]
    /\ reaping' = [reaping EXCEPT ![w] =
                    [j \in Jobs |-> IF j \in Expired THEN row[j] ELSE Absent]]
    /\ UNCHANGED <<row, pc, holding, seen, verdict, beat, client, tried, faults>>

ReapedUnconditionally(j, old) == [old EXCEPT !.lease = "none", !.state = "queued"]

\* The row reap_expired_leases makes of one whose lease has expired.
Reaped(j, old) ==
    [old EXCEPT !.lease = "none",
                !.state = IF old.attempts >= MaxAttempts[j] THEN "failed" ELSE "queued"]

\* Its commit, after which the pumps start.
CommitReap(w) ==
    /\ proc[w] = "reaping"
    /\ row' = [j \in Jobs |->
                 IF reaping[w][j] # Absent
                   THEN Written(reaping[w][j], Reaped(j, reaping[w][j]), row[j])
                   ELSE row[j]]
    /\ proc' = [proc EXCEPT ![w] = "draining"]
    /\ reaping' = [reaping EXCEPT ![w] = NoRows]
    /\ UNCHANGED <<pc, holding, seen, verdict, beat, client, tried, faults>>

\* Every pump has returned, for want of a job, at the limit, paused or stopped.
EndDrain(w) ==
    /\ proc[w] = "draining" /\ ~Busy(w)
    /\ proc' = [proc EXCEPT ![w] = "up"]
    /\ UNCHANGED <<row, reaping, pc, holding, seen, verdict, beat, client, tried, faults>>

\* The thread's part of ending an execution.
Leave(t) ==
    /\ pc' = [pc EXCEPT ![t] = "idle"]
    /\ holding' = [holding EXCEPT ![t] = NoJob]
    /\ seen' = [seen EXCEPT ![t] = Absent]
    /\ verdict' = [verdict EXCEPT ![t] = Undecided]

\* The process is killed.  What it has committed stays, what it has read is
\* lost, and its heartbeats end with it.
Crash(w) ==
    LET gone == {t \in Threads : Home[t] = w}
    IN  /\ proc[w] # "down" /\ faults < Faults
        /\ proc' = [proc EXCEPT ![w] = "down"]
        /\ reaping' = [reaping EXCEPT ![w] = NoRows]
        /\ pc' = [t \in Threads |-> IF t \in gone THEN "idle" ELSE pc[t]]
        /\ holding' = [t \in Threads |-> IF t \in gone THEN NoJob ELSE holding[t]]
        /\ seen' = [t \in Threads |-> IF t \in gone THEN Absent ELSE seen[t]]
        /\ verdict' = [t \in Threads |-> IF t \in gone THEN Undecided ELSE verdict[t]]
        /\ beat' = [t \in Threads |-> IF t \in gone THEN NoJob ELSE beat[t]]
        /\ faults' = faults + 1
        /\ UNCHANGED <<row, client, tried>>

\* The unit's Restart=always.
Restart(w) ==
    /\ proc[w] = "down"
    /\ proc' = [proc EXCEPT ![w] = "up"]
    /\ UNCHANGED <<row, reaping, pc, holding, seen, verdict, beat, client, tried, faults>>

-----------------------------------------------------------------------------
(* One execution *)

\* JobRepository.claim and the start of _execute: a job of an unknown kind is
\* settled as failed without a permit.
Claim(t, j) ==
    /\ proc[Home[t]] = "draining" /\ pc[t] = "idle"
    /\ j \in Claimable
    /\ row' = [row EXCEPT ![j].state = "running", ![j].lease = "live",
                          ![j].attempts = @ + 1]
    /\ holding' = [holding EXCEPT ![t] = j]
    /\ pc' = [pc EXCEPT ![t] = IF j \in Unknown THEN "decided" ELSE "permit"]
    /\ verdict' = [verdict EXCEPT ![t] = IF j \in Unknown THEN "failed" ELSE Undecided]
    /\ UNCHANGED <<proc, reaping, seen, beat, client, tried, faults>>

\* The controller lets the job out and the heartbeat starts.
Grant(t) ==
    /\ pc[t] = "permit"
    /\ pc' = [pc EXCEPT ![t] = "collect"]
    /\ tried' = [tried EXCEPT ![holding[t]] = @ + 1]
    /\ UNCHANGED <<row, proc, reaping, holding, seen, verdict, beat, client, faults>>

\* The controller does not; _requeue reads the row.
Refuse(t) ==
    /\ pc[t] = "permit"
    /\ pc' = [pc EXCEPT ![t] = "requeue"]
    /\ seen' = [seen EXCEPT ![t] = row[holding[t]]]
    /\ UNCHANGED <<row, proc, reaping, holding, verdict, beat, client, tried, faults>>

RequeuedRefundsTwo(old) ==
    [old EXCEPT !.state = "queued", !.lease = "none", !.attempts = @ - 2]

\* The row _requeue makes: queued again, with the claim's attempt given back.
Requeued(old) ==
    [old EXCEPT !.state = "queued", !.lease = "none",
                !.attempts = IF @ > 0 THEN @ - 1 ELSE 0]

CommitRequeue(t) ==
    /\ pc[t] = "requeue"
    /\ LET j == holding[t]
       IN  row' = [row EXCEPT ![j] = Written(seen[t], Requeued(seen[t]), row[j])]
    /\ Leave(t)
    /\ UNCHANGED <<proc, reaping, beat, client, tried, faults>>

\* The heartbeat reads the row it keeps, and renews only what is running.
ReadBeat(t) ==
    /\ pc[t] = "collect" /\ beat[t] = NoJob
    /\ row[holding[t]].state = "running"
    /\ beat' = [beat EXCEPT ![t] = holding[t]]
    /\ UNCHANGED <<row, proc, reaping, pc, holding, seen, verdict, client, tried, faults>>

\* Its commit, which may come after the collection it was for: the thread is
\* joined for a second and no longer.
CommitBeat(t) ==
    /\ beat[t] # NoJob
    /\ row' = [row EXCEPT ![beat[t]].lease = "live"]
    /\ beat' = [beat EXCEPT ![t] = NoJob]
    /\ UNCHANGED <<proc, reaping, pc, holding, seen, verdict, client, tried, faults>>

\* _collect returns a result.
Collected(t) ==
    /\ pc[t] = "collect"
    /\ pc' = [pc EXCEPT ![t] = "check"]
    /\ UNCHANGED <<row, proc, reaping, holding, seen, verdict, beat, client, tried, faults>>

\* _collect raises a TubedepthError; _fail_or_retry reads the row.
DomainError(t) ==
    /\ pc[t] = "collect"
    /\ pc' = [pc EXCEPT ![t] = "retry"]
    /\ seen' = [seen EXCEPT ![t] = row[holding[t]]]
    /\ UNCHANGED <<row, proc, reaping, holding, verdict, beat, client, tried, faults>>

\* _collect raises anything else.
UnexpectedError(t) ==
    /\ pc[t] = "collect"
    /\ pc' = [pc EXCEPT ![t] = "decided"]
    /\ verdict' = [verdict EXCEPT ![t] = "failed"]
    /\ UNCHANGED <<row, proc, reaping, holding, seen, beat, client, tried, faults>>

RetriedWithRefund(j, old, retryable) ==
    IF old.cancel THEN [old EXCEPT !.state = "cancelled"]
    ELSE IF ~retryable \/ old.attempts >= MaxAttempts[j]
      THEN [old EXCEPT !.state = "failed"]
      ELSE [old EXCEPT !.state = "queued", !.lease = "none", !.due = FALSE,
                       !.attempts = @ - 1]

\* The row _fail_or_retry makes of the one it has read.
FailedOrRetried(j, old, retryable) ==
    IF old.cancel THEN [old EXCEPT !.state = "cancelled"]
    ELSE IF ~retryable \/ old.attempts >= MaxAttempts[j]
      THEN [old EXCEPT !.state = "failed"]
      ELSE [old EXCEPT !.state = "queued", !.lease = "none", !.due = FALSE]

CommitFailOrRetry(t) ==
    /\ pc[t] = "retry"
    /\ \E retryable \in BOOLEAN :
         LET j == holding[t]
         IN  row' = [row EXCEPT ![j] =
                       Written(seen[t], FailedOrRetried(j, seen[t], retryable), row[j])]
    /\ Leave(t)
    /\ UNCHANGED <<proc, reaping, beat, client, tried, faults>>

\* _cancellation_requested, in a session of its own.
CheckCancelled(t) ==
    /\ pc[t] = "check"
    /\ verdict' = [verdict EXCEPT ![t] =
                     IF row[holding[t]].cancel THEN "cancelled" ELSE "succeeded"]
    /\ pc' = [pc EXCEPT ![t] = "decided"]
    /\ UNCHANGED <<row, proc, reaping, holding, seen, beat, client, tried, faults>>

\* _settle, in the next session.
ReadSettle(t) ==
    /\ pc[t] = "decided"
    /\ pc' = [pc EXCEPT ![t] = "settle"]
    /\ seen' = [seen EXCEPT ![t] = row[holding[t]]]
    /\ UNCHANGED <<row, proc, reaping, holding, verdict, beat, client, tried, faults>>

SettledWithoutDigest(old, state) == [old EXCEPT !.state = state]

\* The row _settle makes: the digest comes with a success and with nothing else.
Settled(old, state) == [old EXCEPT !.state = state, !.result = (state = "succeeded")]

CommitSettle(t) ==
    /\ pc[t] = "settle"
    /\ LET j == holding[t]
       IN  /\ row' = [row EXCEPT ![j] =
                        Written(seen[t], Settled(seen[t], verdict[t]), row[j])]
           /\ IF verdict[t] = "succeeded" /\ FollowUps[j] # {}
                THEN /\ pc' = [pc EXCEPT ![t] = "fanout"]
                     /\ seen' = [seen EXCEPT ![t] = Absent]
                     /\ UNCHANGED <<holding, verdict>>
                ELSE Leave(t)
    /\ UNCHANGED <<proc, reaping, beat, client, tried, faults>>

\* _queue_follow_up: one row per video of the listing.
FanOut(t) ==
    /\ pc[t] = "fanout"
    /\ row' = [j \in Jobs |->
                 IF j \in FollowUps[holding[t]] /\ row[j].state = "absent"
                   THEN Fresh ELSE row[j]]
    /\ Leave(t)
    /\ UNCHANGED <<proc, reaping, beat, client, tried, faults>>

\* A session of the execution raises.  The exception leaves _execute and the
\* pump, and the row is as it was; the renewals have ended.
DatabaseError(t) ==
    /\ pc[t] \in {"requeue", "retry", "check", "decided", "settle", "fanout"}
    /\ faults < Faults
    /\ faults' = faults + 1
    /\ Leave(t)
    /\ UNCHANGED <<row, proc, reaping, beat, client, tried>>

-----------------------------------------------------------------------------

ClientStep(c) == CommitCancel(c) \/ \E j \in Jobs : ReadCancel(c, j)
ClockStep(j) == ComeDue(j) \/ Lapse(j)
ProcessStep(w) == ReadExpired(w) \/ CommitReap(w) \/ EndDrain(w) \/ Restart(w)
Collection(t) == Collected(t) \/ DomainError(t) \/ UnexpectedError(t)
ThreadStep(t) ==
    \/ CommitRequeue(t) \/ Collection(t) \/ CommitFailOrRetry(t)
    \/ CheckCancelled(t) \/ ReadSettle(t) \/ CommitSettle(t) \/ FanOut(t)
PermitStep(t) == Grant(t) \/ Refuse(t)
BeatStep(t) == ReadBeat(t) \/ CommitBeat(t)

Next ==
    \/ \E j \in Jobs : Submit(j) \/ ClockStep(j)
    \/ \E c \in Clients : ClientStep(c)
    \/ \E w \in Workers : ProcessStep(w) \/ Crash(w)
    \/ \E t \in Threads :
         \/ PermitStep(t) \/ BeatStep(t) \/ ThreadStep(t) \/ DatabaseError(t)
         \/ \E j \in Jobs : Claim(t, j)

Spec == Init /\ [][Next]_vars

\* Sessions of an execution and of a reap commit, collections return, leases and
\* backoffs end and processes are restarted; a cancellation or a heartbeat need not
\* ever commit.  Every pump tries a claim before it returns, and the route is not
\* refused for ever: hence strong fairness for Claim and Grant.
Fairness ==
    /\ \A j \in Jobs : WF_vars(ClockStep(j))
    /\ \A w \in Workers : WF_vars(ProcessStep(w))
    /\ \A t \in Threads : SF_vars(Grant(t)) /\ WF_vars(ThreadStep(t))
    /\ SF_vars(\E t \in Threads, j \in Jobs : Claim(t, j))

FairSpec == Spec /\ Fairness

-----------------------------------------------------------------------------
(* What the queue promises *)

\* The types of the state.
TypeOK ==
    /\ row \in [Jobs -> Row]
    /\ proc \in [Workers -> Proc]
    /\ reaping \in [Workers -> [Jobs -> Row]]
    /\ pc \in [Threads -> Phase]
    /\ holding \in [Threads -> Jobs \cup {NoJob}]
    /\ seen \in [Threads -> Row]
    /\ verdict \in [Threads -> Terminal \cup {Undecided}]
    /\ beat \in [Threads -> Jobs \cup {NoJob}]
    /\ client \in [Clients -> [job : Jobs \cup {NoJob}, row : Row]]
    /\ tried \in [Jobs -> Nat]
    /\ faults \in Nat

\* Two threads never execute one job, whatever is cancelled, reaped, put back
\* or abandoned meanwhile: the failure the lease and the claim exist to prevent.
Exclusive ==
    \A s, t \in Threads : holding[s] = holding[t] /\ holding[s] # NoJob => s = t

\* A job reaches the upstream only on an attempt it is charged for, and so at
\* most max_attempts times, although refusals hand attempts back and crashes
\* leave them spent.
TriesAreCharged ==
    \A j \in Jobs : tried[j] <= row[j].attempts /\ row[j].attempts <= MaxAttempts[j]

\* A queued job has an attempt left, so the claim never starts one too many:
\* the claim itself does not look at max_attempts.
QueuedHasAttemptLeft ==
    \A j \in Jobs : row[j].state = "queued" => row[j].attempts < MaxAttempts[j]

\* A running job carries a lease.  The reaper asks for lease_expires_at to be
\* set, so a running job without one would stay running for ever after a crash.
RunningCanBeReaped == \A j \in Jobs : row[j].state = "running" => row[j].lease # "none"

\* The follow-ups of a listing exist only once its own result is recorded, and
\* stay consistent with it: no later write takes the result away.
FollowUpsHaveAParent ==
    \A i \in Jobs : \A j \in FollowUps[i] : row[j].state # "absent" => row[i].result

\* The jobs some session has read unfinished and may still write to.
Touched(j) ==
    \/ \E t \in Threads : holding[t] = j
    \/ \E c \in Clients : client[c].job = j
    \/ \E w \in Workers : reaping[w][j].state = "running"

\* A finished job nobody is acting on stays as it finished.
FinishedStays ==
    [][\A j \in Jobs : row[j].state \in Terminal /\ ~Touched(j) =>
         row'[j].state = row[j].state /\ row'[j].result = row[j].result]_vars

\* Every job that is queued is finished in the end, through refusals, retries,
\* crashes and restarts: again and again there is no job that is not.
EveryJobFinishes == []<>(\A j \in Jobs : row[j].state \in Terminal \cup {"absent"})

-----------------------------------------------------------------------------
(* The queue as its users see it *)

Lifecycle == INSTANCE JobLifecycle WITH
    state <- [j \in Jobs |-> row[j].state],
    attempts <- [j \in Jobs |-> row[j].attempts],
    held <- [j \in Jobs |-> \E t \in Threads : holding[t] = j]

\* Whatever sessions interleave and crash, a job lives the life JobLifecycle
\* allows: it is started only from the queue and with an attempt left, an
\* executor ends it once or puts it back with at most its own attempt refunded,
\* and what nobody executes moves only by a reap or a cancellation.
LifecycleIsKept == Lifecycle!Spec
=============================================================================
