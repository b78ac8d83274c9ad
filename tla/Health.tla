-------------------------------- MODULE Health --------------------------------
(***************************************************************************)
(* SourceHealthService (health.py): the row that says whether a kind still *)
(* works, written by every worker thread at the end of its job and read by *)
(* /healthz.                                                               *)
(*                                                                         *)
(* A record loads the row, decides, and commits the columns it changed: a  *)
(* column whose new value equals the loaded one is not in the statement.   *)
(* Nothing orders two records of one kind.  The count of failures matters  *)
(* up to BROKEN_AFTER and saturates there; of last_success_at, whether it  *)
(* is older than stale_after.                                              *)
(***************************************************************************)
EXTENDS Integers

CONSTANTS Threads,
          BROKEN_AFTER,
          MaxRefusals      \* bound on commits the database refuses

ASSUME HealthConstantsOK == BROKEN_AFTER \in Nat \ {0} /\ MaxRefusals \in Nat

VARIABLES health,       \* of source_health
          pc, loaded, outcome,  \* of each thread: the row it read, what it reports
          trend,     \* what the source does at present
          alone,     \* the records that have overlapped no other (history)
          failed,    \* failures since the last success recorded alone (history)
          refusals

healthVars == <<health, pc, loaded, outcome, trend, alone, failed, refusals>>

-----------------------------------------------------------------------------

\* How a collection ends: a target that cannot be served is "target".
Outcomes == {"ok", "target", "limited", "extraction"}
Trends == {"mixed", "failing", "working"}

Possible ==
    CASE trend = "mixed" -> Outcomes
      [] trend = "failing" -> Outcomes \ {"ok"}
      [] trend = "working" -> {"ok", "target"}

\* No row yet; its columns as the constructor sets them.
NoHealth == [there |-> FALSE, success |-> "never", failures |-> 0,
          code |-> "none", blocked |-> FALSE]

Saturated(n) == IF n > BROKEN_AFTER THEN BROKEN_AFTER ELSE n

HealthInit ==
    /\ health = NoHealth
    /\ pc = [t \in Threads |-> "idle"]
    /\ loaded = [t \in Threads |-> NoHealth]
    /\ outcome = [t \in Threads |-> "ok"]
    /\ trend = "mixed"
    /\ alone = {} /\ failed = 0
    /\ refusals = 0

-----------------------------------------------------------------------------

\* The source breaks or recovers; a day passes since its last success.
Turn(new) ==
    /\ new # trend
    /\ trend' = new
    /\ UNCHANGED <<health, pc, loaded, outcome, alone, failed, refusals>>

GrowStale ==
    /\ health.success = "recent"
    /\ health' = [health EXCEPT !.success = "stale"]
    /\ UNCHANGED <<pc, loaded, outcome, trend, alone, failed, refusals>>

-----------------------------------------------------------------------------
(* record *)

\* Mutants of the definitions that follow each: bugs the properties must find.
CountsAll(o) == TRUE

\* A success, or a failure that _counts_against_the_source.
Counts(o) == o # "target"

Reports(t, o) ==
    /\ pc[t] = "idle" /\ o \in Possible /\ Counts(o)
    /\ pc' = [pc EXCEPT ![t] = "loaded"]
    /\ loaded' = [loaded EXCEPT ![t] = health]
    /\ outcome' = [outcome EXCEPT ![t] = o]
    /\ alone' = IF \E k \in Threads : pc[k] = "loaded" THEN {} ELSE {t}
    /\ UNCHANGED <<health, trend, failed, refusals>>

DecidedKeepingFailures(l, o) ==
    IF o = "ok"
      THEN [l EXCEPT !.there = TRUE, !.success = "recent", !.code = "none"]
      ELSE [l EXCEPT !.there = TRUE, !.failures = Saturated(@ + 1),
                     !.code = o, !.blocked = (o = "limited")]

\* The row as the record wants it; a success leaves blocked as it is.
Decided(l, o) ==
    IF o = "ok"
      THEN [l EXCEPT !.there = TRUE, !.success = "recent", !.failures = 0,
                     !.code = "none"]
      ELSE [l EXCEPT !.there = TRUE, !.failures = Saturated(@ + 1),
                     !.code = o, !.blocked = (o = "limited")]

\* The columns of a failure's count and of a success's instant always change.
Changed(l, o) ==
    LET new == Decided(l, o)
    IN {c \in DOMAIN l : l[c] # new[c]}
         \cup (IF o = "ok" THEN {"success"} ELSE {"failures"})

EndRecord(t) ==
    /\ pc' = [pc EXCEPT ![t] = "idle"]
    /\ loaded' = [loaded EXCEPT ![t] = NoHealth]
    /\ alone' = alone \ {t}
    /\ UNCHANGED outcome

Noted(t) ==
    CASE outcome[t] # "ok" -> Saturated(failed + 1)
      [] outcome[t] = "ok" /\ t \in alone -> 0
      [] OTHER -> failed

\* The update of the loaded row, or the insert of the first one.
CommitHealth(t) ==
    /\ pc[t] = "loaded" /\ loaded[t].there = health.there
    /\ LET new == Decided(loaded[t], outcome[t])
           columns == Changed(loaded[t], outcome[t])
       IN health' = [c \in DOMAIN health |-> IF c \in columns THEN new[c] ELSE health[c]]
    /\ failed' = Noted(t)
    /\ EndRecord(t)
    /\ UNCHANGED <<trend, refusals>>

\* Another thread has inserted the first row meanwhile: this insert, and with
\* it the execution that reports, is refused.
CollidingInsert(t) ==
    /\ pc[t] = "loaded" /\ ~loaded[t].there /\ health.there
    /\ EndRecord(t)
    /\ UNCHANGED <<health, trend, failed, refusals>>

Refused(t) ==
    /\ pc[t] = "loaded"
    /\ refusals < MaxRefusals /\ refusals' = refusals + 1
    /\ EndRecord(t)
    /\ UNCHANGED <<health, trend, failed>>

-----------------------------------------------------------------------------
(* _status *)

Status ==
    CASE health.success = "never" /\ health.failures = 0 -> "unknown"
      [] health.failures >= BROKEN_AFTER -> IF health.blocked THEN "blocked" ELSE "broken"
      [] health.failures \in 1..(BROKEN_AFTER - 1) -> "degraded"
      [] OTHER -> IF health.success = "stale" THEN "stale" ELSE "healthy"

-----------------------------------------------------------------------------

Record(t) == CommitHealth(t) \/ CollidingInsert(t)

HealthNext ==
    \/ \E n \in Trends : Turn(n)
    \/ GrowStale
    \/ \E t \in Threads : (\E o \in Outcomes : Reports(t, o)) \/ Record(t) \/ Refused(t)

HealthSpec == HealthInit /\ [][HealthNext]_healthVars

\* The kind keeps being collected, with ends that say something about it, by any
\* of the threads; a record that has loaded commits.
HealthFairSpec ==
    /\ HealthSpec
    /\ WF_healthVars(\E t \in Threads, o \in Outcomes \ {"target"} : Reports(t, o))
    /\ \A t \in Threads : WF_healthVars(Record(t))

-----------------------------------------------------------------------------

\* The types of the state.
HealthTypeOK ==
    /\ health \in [there : BOOLEAN, success : {"never", "recent", "stale"},
                failures : 0..BROKEN_AFTER,
                code : {"none", "limited", "extraction", "target"}, blocked : BOOLEAN]
    /\ pc \in [Threads -> {"idle", "loaded"}]
    /\ outcome \in [Threads -> Outcomes]
    /\ trend \in Trends /\ alone \subseteq Threads
    /\ failed \in 0..BROKEN_AFTER /\ refusals \in Nat

\* A source is called broken only after BROKEN_AFTER failures since its last
\* success, leaving out a success that other threads' records overlapped, which
\* they may undo.
FailuresAreEarned == health.failures <= failed

\* A source that only fails is in the end reported as broken or blocked for good,
\* and one that only serves or meets targets it cannot serve as healthy or
\* stale, although records of several threads overwrite one another.
StatusFollowsTheSource ==
    /\ <>[](trend = "failing") => <>[](Status \in {"broken", "blocked"})
    /\ <>[](trend = "working") => <>[](Status \in {"healthy", "stale"})
=============================================================================
