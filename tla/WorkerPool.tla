----------------------------- MODULE WorkerPool -----------------------------
(***************************************************************************)
(* The scheduling half of worker.py: `serve` going round, `drain` starting *)
(* a pump per unit of concurrency, the pumps' loop with its limit, stop    *)
(* and pause checks, the claim in queue order under the cost reservation,  *)
(* and the permit that a quarantined lane refuses.                         *)
(*                                                                         *)
(* What happens to a row in the database is JobQueue's subject, and what a *)
(* lane allows RateController's; here a job has a status and a place in    *)
(* the order of the claim, and a lane is quarantined or not.  `completed`  *)
(* only feeds the totals and the choice between going round at once and    *)
(* after a poll interval, which time, being abstract here, does not show.  *)
(***************************************************************************)
EXTENDS Integers, FiniteSets, Sequences

CONSTANTS Jobs, Pumps, Lanes,
          Cost,       \* Cost[j], the cost of the source of job j
          LaneOf,     \* LaneOf[j], its lane
          Limits,     \* the limits a worker may be started with: NoLimit is `serve`
          NoLimit,    \* going round, a number is the one drain of `work --once`
          NoJob,      \* what a pump without a job holds
          MaxRetries, \* bound on the retries of a run
          MaxErrors,  \* bound on the pumps that end in a database error
          MaxTurns    \* bound on how often an operator or a lane changes

Costs == {"cheap", "standard", "expensive"}

ASSUME ConstantsOK ==
    /\ IsFiniteSet(Pumps) /\ Pumps # {}
    /\ Cost \in [Jobs -> Costs] /\ LaneOf \in [Jobs -> Lanes]
    /\ NoLimit \notin Nat /\ Limits \subseteq Nat \cup {NoLimit}
    /\ NoJob \notin Jobs
    /\ MaxRetries \in Nat /\ MaxErrors \in Nat /\ MaxTurns \in Nat

VARIABLES status,      \* of each job
          line,        \* unfinished jobs in the order of (scheduled_at, created_at)
          limit,       \* what this worker was started with
          serving,     \* "waiting" between drains, "draining", or "exited"
          pc, holds,   \* of each pump
          reserved, in_flight,
          stop, paused, quarantined,
          started,     \* jobs claimed in this drain (history)
          late,        \* jobs claimed since the stop (history)
          retries, errors, turns

queue == <<status, line>>
pool == <<limit, serving, pc, holds, reserved, in_flight>>
control == <<stop, paused, quarantined, turns>>
counts == <<started, late, retries, errors>>
vars == <<queue, pool, control, counts>>

-----------------------------------------------------------------------------

Status == {"absent", "queued", "running", "backoff", "done"}
Phase == {"out",        \* returned, or not started
          "check",      \* top of the loop
          "reserve", "claim", "unreserve",
          "permit",     \* in _wait_for_permit
          "collect",
          "leave",      \* job put back or failed, cost slot still held
          "settle"}     \* collected, cost slot given back

\* _admissible_kinds_unlocked: max(1, int(concurrency * share)).
Concurrency == Cardinality(Pumps)
AtLeastOne(n) == IF n > 1 THEN n ELSE 1
Cap == [cheap     |-> AtLeastOne(Concurrency),
        standard  |-> AtLeastOne((3 * Concurrency) \div 4),
        expensive |-> AtLeastOne(Concurrency \div 2)]

\* Mutants of the definitions that follow each: bugs the properties must find.
AdmissibleAtCap(j) == in_flight[Cost[j]] <= Cap[Cost[j]]

Admissible(j) == in_flight[Cost[j]] < Cap[Cost[j]]

\* The places in line of the jobs a claim may take.
Candidates == {i \in 1..Len(line) : status[line[i]] = "queued" /\ Admissible(line[i])}

Init ==
    /\ status = [j \in Jobs |-> "absent"] /\ line = <<>>
    /\ limit \in Limits /\ serving = "waiting"
    /\ pc = [p \in Pumps |-> "out"] /\ holds = [p \in Pumps |-> NoJob]
    /\ reserved = 0
    /\ in_flight = [c \in Costs |-> 0]
    /\ stop = FALSE /\ paused = FALSE /\ quarantined = {} /\ turns = 0
    /\ started = 0 /\ late = 0 /\ retries = 0 /\ errors = 0

-----------------------------------------------------------------------------
(* Around the worker *)

Submit(j) ==
    /\ status[j] = "absent"
    /\ status' = [status EXCEPT ![j] = "queued"]
    /\ line' = Append(line, j)
    /\ UNCHANGED <<pool, control, counts>>

\* A backoff is over; the job's new scheduled_at is the latest in line.
ComeDue(j) ==
    /\ status[j] = "backoff"
    /\ status' = [status EXCEPT ![j] = "queued"]
    /\ line' = Append(line, j)
    /\ UNCHANGED <<pool, control, counts>>

\* `tubedepth pause`, `tubedepth resume` and PATCH /v1/control.
SetPaused ==
    /\ turns < MaxTurns /\ turns' = turns + 1
    /\ paused' = ~paused
    /\ UNCHANGED <<queue, pool, stop, quarantined, counts>>

\* A lane is quarantined, or its quarantine is over.
SetQuarantined(l) ==
    /\ turns < MaxTurns /\ turns' = turns + 1
    /\ quarantined' = IF l \in quarantined THEN quarantined \ {l} ELSE quarantined \cup {l}
    /\ UNCHANGED <<queue, pool, stop, paused, counts>>

\* The signal handler sets the event `serve` was given.
Stop ==
    /\ limit = NoLimit
    /\ ~stop /\ stop' = TRUE
    /\ UNCHANGED <<queue, pool, paused, quarantined, turns, counts>>

-----------------------------------------------------------------------------
(* serve and drain *)

\* `serve` waits and drains again; a drain of its own is the whole run.
Afterwards == IF limit = NoLimit THEN "waiting" ELSE "exited"

\* drain reaps what an execution left running; a paused worker goes no further.
StartDrain ==
    /\ serving = "waiting" /\ ~stop
    /\ \E lapsed \in BOOLEAN :
         status' = [j \in Jobs |-> IF lapsed /\ status[j] = "running"
                                     THEN "queued" ELSE status[j]]
    /\ IF paused
         THEN serving' = Afterwards /\ UNCHANGED <<pc, reserved, started>>
         ELSE /\ serving' = "draining"
              /\ pc' = [p \in Pumps |-> "check"]
              /\ reserved' = 0 /\ started' = 0
    /\ UNCHANGED <<line, limit, holds, in_flight, control, late, retries, errors>>

\* The pool's threads have all returned.
EndDrain ==
    /\ serving = "draining" /\ \A p \in Pumps : pc[p] = "out"
    /\ serving' = Afterwards
    /\ UNCHANGED <<queue, limit, pc, holds, reserved, in_flight, control, counts>>

-----------------------------------------------------------------------------
(* One pump *)

Goto(p, phase) == pc' = [pc EXCEPT ![p] = phase]

PausedOnly == paused

Halted == stop \/ paused

Check(p) ==
    /\ pc[p] = "check"
    /\ Goto(p, IF Halted THEN "out" ELSE "reserve")
    /\ UNCHANGED <<queue, limit, serving, holds, reserved, in_flight, control, counts>>

\* reserved is compared with the limit and nothing else, and so kept only then.
Charge == IF limit = NoLimit THEN 0 ELSE 1

FullOfStarted == limit # NoLimit /\ started >= limit

Full == limit # NoLimit /\ reserved >= limit

Reserve(p) ==
    /\ pc[p] = "reserve"
    /\ IF Full THEN Goto(p, "out") /\ UNCHANGED reserved
               ELSE Goto(p, "claim") /\ reserved' = reserved + Charge
    /\ UNCHANGED <<queue, limit, serving, holds, in_flight, control, counts>>

\* _claim, under the lock from the reading of the reservations to the taking,
\* takes the first of them.
Claim(p) ==
    /\ pc[p] = "claim"
    /\ \E i \in Candidates : LET j == line[i] IN
           /\ \A k \in Candidates : i <= k
           /\ status' = [status EXCEPT ![j] = "running"]
           /\ holds' = [holds EXCEPT ![p] = j]
           /\ in_flight' = [in_flight EXCEPT ![Cost[j]] = @ + 1]
    /\ Goto(p, "permit")
    /\ started' = started + Charge
    /\ late' = IF stop THEN late + 1 ELSE late
    /\ UNCHANGED <<line, limit, serving, reserved, control, retries, errors>>

ClaimNothing(p) ==
    /\ pc[p] = "claim" /\ Candidates = {}
    /\ Goto(p, "unreserve")
    /\ UNCHANGED <<queue, limit, serving, holds, reserved, in_flight, control, counts>>

Unreserve(p) ==
    /\ pc[p] = "unreserve"
    /\ reserved' = reserved - Charge
    /\ Goto(p, "out")
    /\ UNCHANGED <<queue, limit, serving, holds, in_flight, control, counts>>

Grant(p) ==
    /\ pc[p] = "permit" /\ LaneOf[holds[p]] \notin quarantined
    /\ Goto(p, "collect")
    /\ UNCHANGED <<queue, limit, serving, holds, reserved, in_flight, control, counts>>

\* _wait_for_permit returns False, at once for a quarantined lane or when the
\* wait is over.  _requeue leaves scheduled_at, and so the place in line, alone.
Refuse(p) ==
    /\ pc[p] = "permit"
    /\ status' = [status EXCEPT ![holds[p]] = "queued"]
    /\ Goto(p, "leave")
    /\ UNCHANGED <<line, limit, serving, holds, reserved, in_flight, control, counts>>

\* A job is in line once.
Place(j) == CHOOSE i \in 1..Len(line) : line[i] = j
Without(j) == [i \in 1..(Len(line) - 1) |-> IF i < Place(j) THEN line[i] ELSE line[i + 1]]

\* _collect raises: _fail_or_retry or _settle, inside the cost slot.
Fail(p) ==
    /\ pc[p] = "collect"
    /\ \E next \in {"done", "backoff"} :
         /\ next = "backoff" => retries < MaxRetries
         /\ status' = [status EXCEPT ![holds[p]] = next]
         /\ retries' = IF next = "backoff" THEN retries + 1 ELSE retries
    /\ line' = Without(holds[p])
    /\ Goto(p, "leave")
    /\ UNCHANGED <<limit, serving, holds, reserved, in_flight, control,
                   started, late, errors>>

GiveBackNothing(p) == in_flight' = in_flight

\* _leave.
GiveBack(p) == in_flight' = [in_flight EXCEPT ![Cost[holds[p]]] = AtLeastOne(@) - 1]

\* _collect returns: the cost slot is given back before the job is settled.
Collected(p) ==
    /\ pc[p] = "collect"
    /\ GiveBack(p)
    /\ Goto(p, "settle")
    /\ UNCHANGED <<queue, limit, serving, holds, reserved, control, counts>>

Leave(p) ==
    /\ pc[p] = "leave"
    /\ GiveBack(p)
    /\ holds' = [holds EXCEPT ![p] = NoJob]
    /\ Goto(p, "check")
    /\ UNCHANGED <<queue, limit, serving, reserved, control, counts>>

Settle(p) ==
    /\ pc[p] = "settle"
    /\ status' = [status EXCEPT ![holds[p]] = "done"]
    /\ line' = Without(holds[p])
    /\ holds' = [holds EXCEPT ![p] = NoJob]
    /\ Goto(p, "check")
    /\ UNCHANGED <<limit, serving, reserved, in_flight, control, counts>>

\* A session raises, that of the pause row or of the claim or one of the execution,
\* and the exception ends the pump; a row it has claimed stays running.  The finally
\* clauses give back the cost slot if it is held, and nothing the reserved count.
DatabaseError(p) ==
    /\ pc[p] \in {"check", "claim", "permit", "collect", "settle"} /\ errors < MaxErrors
    /\ errors' = errors + 1
    /\ IF pc[p] \in {"permit", "collect"} THEN GiveBack(p) ELSE UNCHANGED in_flight
    /\ holds' = [holds EXCEPT ![p] = NoJob]
    /\ Goto(p, "out")
    /\ UNCHANGED <<queue, limit, serving, reserved, control, started, late, retries>>

-----------------------------------------------------------------------------

PumpStep(p) ==
    \/ Check(p) \/ Reserve(p) \/ Claim(p) \/ ClaimNothing(p) \/ Unreserve(p)
    \/ Grant(p) \/ Refuse(p) \/ Fail(p) \/ Collected(p) \/ Leave(p) \/ Settle(p)

ServeStep == StartDrain \/ EndDrain

Next ==
    \/ \E j \in Jobs : Submit(j) \/ ComeDue(j)
    \/ \E l \in Lanes : SetQuarantined(l)
    \/ SetPaused \/ Stop \/ ServeStep
    \/ \E p \in Pumps : PumpStep(p) \/ DatabaseError(p)

Spec == Init /\ [][Next]_vars

\* The threads run, serve goes round until it is stopped, backoffs end, and a
\* job that keeps asking an open lane is let out.
FairSpec ==
    /\ Spec
    /\ WF_vars(ServeStep)
    /\ \A j \in Jobs : WF_vars(ComeDue(j))
    /\ \A p \in Pumps : WF_vars(PumpStep(p)) /\ SF_vars(Grant(p))

-----------------------------------------------------------------------------

\* The types of the state.
TypeOK ==
    /\ status \in [Jobs -> Status]
    /\ line \in Seq(Jobs)
    /\ limit \in Limits /\ serving \in {"waiting", "draining", "exited"}
    /\ pc \in [Pumps -> Phase] /\ holds \in [Pumps -> Jobs \cup {NoJob}]
    /\ reserved \in Nat
    /\ in_flight \in [Costs -> Nat]
    /\ stop \in BOOLEAN /\ paused \in BOOLEAN /\ quarantined \subseteq Lanes
    /\ started \in Nat /\ late \in Nat

\* The pumps between their claim and their _leave, by the cost of their job.
Occupying(c) ==
    {p \in Pumps : pc[p] \in {"permit", "collect", "leave"} /\ Cost[holds[p]] = c}

\* The reservations count exactly the jobs that occupy a slot, and no cost ever
\* occupies more than its share, although refusals, failures and database errors
\* end executions at different points.
SharesAreKept ==
    \A c \in Costs : in_flight[c] = Cardinality(Occupying(c)) /\ in_flight[c] <= Cap[c]

\* A drain with a limit starts no more jobs than the limit, however many pumps
\* look at it at once.
LimitIsKept == limit # NoLimit => started <= limit

\* After the stop each pump starts one more job at most: the one whose check it
\* had already passed.
StopIsPrompt == late <= Concurrency

\* When the last pump gives up for want of a job there is none: a pump that
\* found only jobs of a full cost leaves them to a pump that is still there.
DrainsDry ==
    [][\A p \in Pumps :
         pc[p] = "claim" /\ pc'[p] = "unreserve"
           /\ (\A q \in Pumps \ {p} : pc[q] \in {"out", "unreserve"})
         => \A j \in Jobs : status[j] # "queued"]_vars

\* A queued job is claimed in the end, unless the worker is stopped or paused or
\* some lane is refusing: arrivals after a pump has gone, limits and database
\* errors only delay it.
QueuedIsClaimed ==
    \A j \in Jobs :
      status[j] = "queued" ~>
        status[j] # "queued" \/ stop \/ paused \/ quarantined # {} \/ serving = "exited"
=============================================================================
