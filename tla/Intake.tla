------------------------------- MODULE Intake -------------------------------
(***************************************************************************)
(* How work enters the queue.                                              *)
(*                                                                         *)
(* Requests to the API pass through the key check and then submit one job  *)
(* or a batch (services/keys.py, api/application.py); `tubedepth enqueue`  *)
(* queues targets from the command line, and `tubedepth watch` queues a    *)
(* whole list of lines again and again (cli.py, watchlist.py).  Each does  *)
(* so in one session, with a row flushed for every target and one commit.  *)
(* Meanwhile keys are revoked, the list is edited, the worker runs what is *)
(* queued and artifacts age.                                               *)
(*                                                                         *)
(* A job is its target and whether it is forced; its life in the queue is  *)
(* the subject of JobQueue, and what the cache holds that of Collection.   *)
(***************************************************************************)
EXTENDS Integers, Sequences, FiniteSets

CONSTANTS Targets,     \* what can be collected
          BadTarget,   \* a target its normalizer refuses
          Requests,    \* what clients send: [via, targets, refresh]
          Keys, Allowance,   \* Allowance[k], requests_per_minute
          NoKey,       \* of a request that presents none
          RequireKey,  \* TUBEDEPTH_REQUIRE_API_KEY
          MAXIMUM_BATCH,
          Lists,       \* what the watch list may hold: lines [target, jobs]
          Unreadable,  \* a list with a line that does not parse, or no list
          MaxEach,     \* bound on the jobs of one target that are told apart
          MaxFaults    \* bound on the sessions the database fails

ASSUME IntakeConstantsOK ==
    /\ Requests \subseteq [via : {"one", "batch", "enqueue"}, refresh : BOOLEAN,
                           targets : Seq(Targets \cup {BadTarget})]
    /\ \A r \in Requests : r.via = "one" => Len(r.targets) = 1
    /\ Allowance \in [Keys -> Nat] /\ NoKey \notin Keys
    /\ RequireKey \in BOOLEAN
    /\ {MAXIMUM_BATCH, MaxEach, MaxFaults} \subseteq Nat
    /\ BadTarget \notin Targets
    \* DIRECTIVES: a line is one job, or one for each of its follow-ups.
    /\ Lists \ {Unreadable} \subseteq Seq([target : Targets \cup {BadTarget}, jobs : 1..2])

VARIABLES key,     \* key[k]: the columns revoked and used of its row
          withdrawn, \* the keys a revocation has committed for (history)
          request, \* the request a client is in
          queue,   \* queue[t][forced], how many jobs are queued
          fresh,   \* the targets a fresh artifact is held of
          list,    \* what the watch list holds
          watch,   \* what the watcher is doing
          resident,\* it runs with --every, past its first pass, not told to stop (history)
          faults

intakeVars == <<key, withdrawn, request, queue, fresh, list, watch, resident, faults>>

NoRequest == [via |-> "none", targets |-> <<>>, refresh |-> FALSE]
NewKey == [revoked |-> FALSE, used |-> FALSE]
NoClient == [pc |-> "idle", sent |-> NoRequest, key |-> NoKey, row |-> NewKey, late |-> FALSE,
          n |-> 1, flushed |-> {}, held |-> {}, born |-> {}, status |-> 0]
Off == [pc |-> "off", resident |-> FALSE, first |-> TRUE, plan |-> <<>>, n |-> 1]

IntakeInit ==
    /\ key = [k \in Keys |-> NewKey] /\ withdrawn = {}
    /\ request = NoClient
    /\ queue = [t \in Targets |-> [forced \in BOOLEAN |-> 0]]
    /\ fresh = {}
    /\ list \in Lists
    /\ watch = Off /\ resident = FALSE
    /\ faults = 0

-----------------------------------------------------------------------------
(* The queue and the worker *)

\* The queue with more[t][forced] more jobs in it, as far as the bound lets them count.
Plus(more) ==
    [t \in Targets |-> [forced \in BOOLEAN |->
        LET n == queue[t][forced] + more[t][forced] IN IF n > MaxEach THEN MaxEach ELSE n]]

AnswersFromCache(t, forced) == t \in fresh
\* CollectionService.collect looks into the cache unless the job is forced.
FromCache(t, forced) == ~forced /\ t \in fresh

\* The worker runs a job: from the cache, or by asking the source, which may fail.
Run(t, forced) ==
    /\ queue[t][forced] > 0
    /\ queue' = [queue EXCEPT ![t][forced] = @ - 1]
    /\ fresh' \in IF FromCache(t, forced) THEN {fresh} ELSE {fresh, fresh \cup {t}}
    /\ UNCHANGED <<key, withdrawn, request, list, watch, resident, faults>>

Asks(t) == \E forced \in BOOLEAN : Run(t, forced) /\ ~FromCache(t, forced)

Age(t) ==
    /\ t \in fresh /\ fresh' = fresh \ {t}
    /\ UNCHANGED <<key, withdrawn, request, queue, list, watch, resident, faults>>

-----------------------------------------------------------------------------
(* The key check: require_api_key and ApiKeyService.verify *)

Elsewhere == <<withdrawn, fresh, list, watch, resident>>
\* What a request holds only until it is answered.
Answered(status) ==
    [request EXCEPT !.pc = "over", !.status = status, !.key = NoKey, !.row = NewKey, !.n = 1]

Send(r, k) ==
    /\ request.pc = "idle" /\ (r.via = "enqueue" => k = NoKey)
    /\ request' = [NoClient EXCEPT !.sent = r, !.key = k, !.late = k \in withdrawn,
                                !.pc = IF r.via = "enqueue" THEN "check" ELSE "key"]
    /\ UNCHANGED <<Elsewhere, key, queue, faults>>

NoKeyPresented ==
    /\ request.pc = "key" /\ request.key = NoKey
    /\ request' = IF RequireKey THEN Answered(401) ELSE [request EXCEPT !.pc = "check"]
    /\ UNCHANGED <<Elsewhere, key, queue, faults>>

\* verify reads the row in a session of its own: revoked is as good as unknown.
ReadKey ==
    /\ request.pc = "key" /\ request.key # NoKey
    /\ request' = IF key[request.key].revoked THEN Answered(401)
                  ELSE [request EXCEPT !.pc = "stamp", !.row = key[request.key]]
    /\ UNCHANGED <<Elsewhere, key, queue, faults>>

\* Mutants of the definitions that follow each: bugs the properties must find.
StampedWhole(old, current) == [old EXCEPT !.used = TRUE]
\* The commit writes last_used_at only, over the row as it is by then.
Stamped(old, current) == [current EXCEPT !.used = TRUE]

StampKey ==
    /\ request.pc = "stamp"
    /\ key' = [key EXCEPT ![request.key] = Stamped(request.row, @)]
    /\ request' = [request EXCEPT !.pc = "charge", !.row = NewKey]
    /\ UNCHANGED <<Elsewhere, queue, faults>>

\* The requests the sliding window holds: a service is made for each request.
Recent == 0

\* _charge.
Charge ==
    /\ request.pc = "charge"
    /\ request' = IF Recent >= Allowance[request.key] THEN Answered(429)
                  ELSE [request EXCEPT !.pc = "check", !.key = NoKey]
    /\ UNCHANGED <<Elsewhere, key, queue, faults>>

Revoke(k) ==
    /\ k \notin withdrawn /\ withdrawn' = withdrawn \cup {k}
    /\ key' = [key EXCEPT ![k].revoked = TRUE]
    /\ UNCHANGED <<request, queue, fresh, list, watch, resident, faults>>

-----------------------------------------------------------------------------
(* submit_job, submit_batch and enqueue *)

Size == Len(request.sent.targets)

\* A batch is sized and normalised before anything is queued; enqueue refuses an
\* empty list and normalises as it goes.
Acceptable ==
    /\ Size > 0 /\ (request.sent.via = "batch" => Size <= MAXIMUM_BATCH)
    /\ \/ request.sent.via = "enqueue"
       \/ \A n \in 1..Size : request.sent.targets[n] # BadTarget

Check ==
    /\ request.pc = "check"
    /\ request' = IF Acceptable THEN [request EXCEPT !.pc = "queue"] ELSE Answered(422)
    /\ UNCHANGED <<Elsewhere, key, queue, faults>>

\* The jobs that targets number S of a request are.
JobsOf(S) ==
    [t \in Targets |-> [forced \in BOOLEAN |->
        IF forced # request.sent.refresh THEN 0
        ELSE Cardinality({n \in S : request.sent.targets[n] = t})]]

KeptByThen(S) == S
\* What is left of the rows flushed so far when a session raises: it rolls back.
Kept(S) == {}

Raises(status) ==
    /\ request' = [Answered(status) EXCEPT !.born = Kept(request.flushed), !.flushed = {}]
    /\ queue' = Plus(JobsOf(Kept(request.flushed)))

\* One target: held already, flushed as a row, or refused by its normalizer.
QueueTarget ==
    LET t == request.sent.targets[request.n] IN
    /\ request.pc = "queue" /\ request.n <= Size
    /\ IF t = BadTarget THEN Raises(422)
       ELSE /\ \/ /\ request.sent.via # "enqueue" /\ FromCache(t, request.sent.refresh)
                  /\ request' = IF request.sent.via = "one" THEN Answered(200)
                                ELSE [request EXCEPT !.n = @ + 1, !.held = @ \cup {request.n}]
               \/ /\ request.sent.via = "enqueue" \/ ~FromCache(t, request.sent.refresh)
                  /\ request' = [request EXCEPT !.n = @ + 1, !.flushed = @ \cup {request.n}]
            /\ UNCHANGED queue
    /\ UNCHANGED <<Elsewhere, key, faults>>

\* The database refuses the flush of a row.
FlushFails ==
    /\ request.pc = "queue" /\ request.n <= Size
    /\ faults < MaxFaults /\ faults' = faults + 1
    /\ Raises(500)
    /\ UNCHANGED <<Elsewhere, key>>

\* The answer goes out before the session of the request ends.
Accept ==
    /\ request.pc = "queue" /\ request.n > Size
    /\ request' = [request EXCEPT !.pc = "commit", !.status = 202, !.n = 1]
    /\ UNCHANGED <<Elsewhere, key, queue, faults>>

CommitRequest ==
    /\ request.pc = "commit"
    /\ request' = [request EXCEPT !.pc = "over", !.born = request.flushed, !.flushed = {}]
    /\ queue' = Plus(JobsOf(request.flushed))
    /\ UNCHANGED <<Elsewhere, key, faults>>

\* It is too late for another answer.
CommitFails ==
    /\ request.pc = "commit"
    /\ faults < MaxFaults /\ faults' = faults + 1
    /\ request' = [request EXCEPT !.pc = "lost", !.flushed = {}]
    /\ UNCHANGED <<Elsewhere, key, queue>>

Forget ==
    /\ request.pc \in {"over", "lost"} /\ request' = NoClient
    /\ UNCHANGED <<Elsewhere, key, queue, faults>>

Serve ==
    \/ \E r \in Requests, k \in Keys \cup {NoKey} : Send(r, k)
    \/ NoKeyPresented \/ ReadKey \/ StampKey \/ Charge \/ Check
    \/ QueueTarget \/ FlushFails \/ Accept \/ CommitRequest \/ CommitFails \/ Forget

-----------------------------------------------------------------------------
(* tubedepth watch *)

Besides == <<key, withdrawn, request, fresh>>

StartWatch(every) ==
    /\ watch.pc = "off"
    /\ watch' = [Off EXCEPT !.pc = "read", !.resident = every]
    /\ UNCHANGED <<Besides, queue, list, resident, faults>>

\* The operator saves the list, perhaps half-way through an edit.
Edit(l) ==
    /\ l # list /\ list' = l
    /\ UNCHANGED <<Besides, queue, watch, resident, faults>>

\* A pass that raises ends the watcher the first time, and is logged later.
Failed == IF watch.first \/ ~watch.resident THEN Off
          ELSE [watch EXCEPT !.pc = "wait", !.plan = <<>>, !.n = 1]

\* read_watchlist reads and refuses the whole file; a list of nothing is refused.
ReadList ==
    /\ watch.pc = "read"
    /\ watch' = IF list = Unreadable \/ list = <<>> THEN Failed
                ELSE [watch EXCEPT !.pc = "queue", !.plan = list]
    /\ UNCHANGED <<Besides, queue, list, resident, faults>>

\* _queue_job for each job of a line; a target that does not normalise raises.
QueueLine ==
    /\ watch.pc = "queue" /\ watch.n <= Len(watch.plan)
    /\ watch' = IF watch.plan[watch.n].target = BadTarget THEN Failed
                ELSE [watch EXCEPT !.n = @ + 1]
    /\ UNCHANGED <<Besides, queue, list, resident, faults>>

\* The jobs of a pass: one of each line, which is forced, and one more for a second follow-up.
JobsOfPass ==
    [t \in Targets |-> [forced \in BOOLEAN |->
        Cardinality({n \in DOMAIN watch.plan : /\ watch.plan[n].target = t
                                               /\ forced \/ watch.plan[n].jobs = 2})]]

\* One session, committed after the last line.
CommitPass ==
    /\ watch.pc = "queue" /\ watch.n > Len(watch.plan)
    /\ queue' = Plus(JobsOfPass)
    /\ watch' = IF watch.resident
                  THEN [watch EXCEPT !.pc = "wait", !.first = FALSE, !.plan = <<>>, !.n = 1]
                  ELSE Off
    /\ resident' = watch.resident
    /\ UNCHANGED <<Besides, list, faults>>

PassFails ==
    /\ watch.pc = "queue"
    /\ faults < MaxFaults /\ faults' = faults + 1
    /\ watch' = Failed
    /\ UNCHANGED <<Besides, queue, list, resident>>

Wake ==
    /\ watch.pc = "wait" /\ watch' = [watch EXCEPT !.pc = "read"]
    /\ UNCHANGED <<Besides, queue, list, resident, faults>>

\* A signal, which is noticed between two passes.
StopWatch ==
    /\ watch.pc = "wait" /\ watch' = Off /\ resident' = FALSE
    /\ UNCHANGED <<Besides, queue, list, faults>>

Watch == Wake \/ ReadList \/ QueueLine \/ CommitPass

-----------------------------------------------------------------------------

IntakeNext ==
    \/ Serve \/ \E k \in Keys : Revoke(k)
    \/ \E t \in Targets : Age(t) \/ \E forced \in BOOLEAN : Run(t, forced)
    \/ \E every \in BOOLEAN : StartWatch(every)
    \/ \E l \in Lists : Edit(l)
    \/ Watch \/ PassFails \/ StopWatch

IntakeSpec == IntakeInit /\ [][IntakeNext]_intakeVars

\* The worker claims the oldest job, so each in the end; a resident watcher goes on.
IntakeFairSpec ==
    /\ IntakeSpec
    /\ \A t \in Targets, forced \in BOOLEAN : WF_intakeVars(Run(t, forced))
    /\ WF_intakeVars(Watch)

-----------------------------------------------------------------------------

KeyRows == [revoked : BOOLEAN, used : BOOLEAN]
Steps == {"idle", "key", "stamp", "charge", "check", "queue", "commit", "over", "lost"}
Statuses == {0, 200, 202, 401, 422, 429, 500}
Numbers == SUBSET Nat
SentOrNot == Requests \cup {NoRequest}
KeyOrNot == Keys \cup {NoKey}
Visits ==
    [pc : Steps, sent : SentOrNot, key : KeyOrNot, row : KeyRows, late : BOOLEAN, n : Nat,
     flushed : Numbers, held : Numbers, born : Numbers, status : Statuses]
Plans == (Lists \ {Unreadable}) \cup {<<>>}
Watches ==
    [pc : {"off", "read", "queue", "wait"}, resident : BOOLEAN, first : BOOLEAN,
     plan : Plans, n : Nat]

\* The types of the state.
IntakeTypeOK ==
    /\ key \in [Keys -> KeyRows] /\ withdrawn \subseteq Keys
    /\ request \in Visits
    /\ queue \in [Targets -> [BOOLEAN -> 0..MaxEach]] /\ fresh \subseteq Targets
    /\ list \in Lists
    /\ watch \in Watches /\ resident \in BOOLEAN
    /\ faults \in Nat

\* A batch, an `enqueue` or a single submission queues every target it names that
\* is not held already, or none: bad targets, failing flushes and a commit that
\* fails after the answer has gone out leave no part of it behind, and what is
\* refused or not authenticated queues nothing.
SubmissionIsWhole ==
    /\ request.born = {} \/ request.born \cup request.held = 1..Size
    /\ request.pc = "over" /\ request.status = 202 =>
          request.born \cup request.held = 1..Size
    /\ request.status >= 400 => request.born = {}

\* A request that comes in after its key was revoked is refused, although requests
\* verified around the revocation write to the row of the key after it.
RevokedIsRefused ==
    request.late => request.pc \in {"key", "over"} /\ request.status \in {0, 401}

\* While a line stays in a list that can be read and the watcher is not told to
\* stop, its source is asked again and again: edits and failed passes before,
\* fresh artifacts and other jobs do not keep it from being observed.
LinesKeepBeingObserved ==
    \A t \in Targets :
        <>[](/\ resident /\ list # Unreadable
             /\ \A n \in DOMAIN list : list[n].target # BadTarget
             /\ \E n \in DOMAIN list : list[n].target = t)
          => []<><<Asks(t)>>_intakeVars
=============================================================================
