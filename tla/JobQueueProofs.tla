--------------------------- MODULE JobQueueProofs ---------------------------
(***************************************************************************)
(* Theorems of JobQueue.  The types hold of every deployment; the safety   *)
(* of the queue holds where one worker process serves it, with any number  *)
(* of threads, jobs and clients, whatever the leases do.                   *)
(***************************************************************************)
EXTENDS JobQueue, TLAPS

OneProcess == \A v, w \in Workers : v = w

-----------------------------------------------------------------------------
(* Rows *)

LEMMA FreshIsRow == Fresh \in Row /\ Absent \in Row
BY DEF Fresh, Absent, Row, States, Terminal, Lease

\* A commit writes a column or leaves it.
LEMMA WrittenIsRow ==
    ASSUME NEW old \in Row, NEW new \in Row, NEW current \in Row
    PROVE  Written(old, new, current) \in Row
BY DEF Written, Column, Row

\* The rows the handlers make are rows.
LEMMA CancelledIsRow == ASSUME NEW old \in Row PROVE Cancelled(old) \in Row
BY DEF Cancelled, Row, States, Terminal, Lease

LEMMA ReapedIsRow == ASSUME NEW old \in Row, NEW j \in Jobs PROVE Reaped(j, old) \in Row
BY DEF Reaped, Row, States, Terminal, Lease

LEMMA Refund == ASSUME NEW n \in Nat PROVE (IF n > 0 THEN n - 1 ELSE 0) \in Nat
OBVIOUS

LEMMA RequeuedIsRow == ASSUME NEW old \in Row PROVE Requeued(old) \in Row
<1> DEFINE n == IF old.attempts > 0 THEN old.attempts - 1 ELSE 0
<1>1. n \in Nat
  BY Refund DEF Row
<1>2. Requeued(old) = [old EXCEPT !.state = "queued", !.lease = "none", !.attempts = n]
  BY DEF Requeued
<1> HIDE DEF n
<1> QED
  BY <1>1, <1>2 DEF Row, States, Lease

LEMMA ClockedIsRow ==
    ASSUME NEW old \in Row
    PROVE  /\ [old EXCEPT !.due = TRUE] \in Row
           /\ \A l \in Lease : [old EXCEPT !.lease = l] \in Row
BY DEF Row

LEMMA ClaimedIsRow ==
    ASSUME NEW old \in Row
    PROVE  [old EXCEPT !.state = "running", !.lease = "live", !.attempts = @ + 1] \in Row
<1> DEFINE n == old.attempts + 1
<1>1. n \in Nat
  BY DEF Row
<1> HIDE DEF n
<1>2. [old EXCEPT !.state = "running", !.lease = "live", !.attempts = n] \in Row
  BY <1>1 DEF Row, States, Lease
<1> QED
  BY <1>2 DEF n

LEMMA FailedOrRetriedIsRow ==
    ASSUME NEW old \in Row, NEW j \in Jobs, NEW retryable \in BOOLEAN
    PROVE  FailedOrRetried(j, old, retryable) \in Row
BY DEF FailedOrRetried, Row, States, Terminal, Lease

LEMMA SettledIsRow ==
    ASSUME NEW old \in Row, NEW state \in States PROVE Settled(old, state) \in Row
BY DEF Settled, Row

-----------------------------------------------------------------------------
(* Types *)

\* A thread holds a job exactly while it is busy.
BusyHolds == \A t \in Threads : pc[t] = "idle" <=> holding[t] = NoJob

\* A thread about to settle has decided.
DecidedIsTerminal ==
    \A t \in Threads : pc[t] \in {"decided", "settle"} => verdict[t] \in Terminal

\* TypeOK is not inductive by itself: what a thread reads is a row only because
\* a busy thread holds a job, and _settle writes a state only because its thread
\* has decided on one.
Typed == TypeOK /\ BusyHolds /\ DecidedIsTerminal

LEMMA TypedInit == Init => Typed
BY FreshIsRow
DEF Init, Typed, TypeOK, BusyHolds, DecidedIsTerminal, NoRows, NoCancel, Proc, Phase

LEMMA TypedNext == Typed /\ [Next]_vars => Typed'
<1> SUFFICES ASSUME Typed, [Next]_vars PROVE Typed'
  OBVIOUS
<1> USE ConstantsOK, FreshIsRow DEF Typed, TypeOK, BusyHolds, DecidedIsTerminal
<1>1. ASSUME NEW j \in Jobs, Submit(j) PROVE Typed'
  BY <1>1 DEF Submit
<1>2. ASSUME NEW j \in Jobs, ComeDue(j) PROVE Typed'
  <2>1. [row[j] EXCEPT !.due = TRUE] \in Row
    BY ClockedIsRow
  <2> QED BY <1>2, <2>1 DEF ComeDue
<1>3. ASSUME NEW j \in Jobs, Lapse(j) PROVE Typed'
  <2>1. [row[j] EXCEPT !.lease = "lapsed"] \in Row
    BY ClockedIsRow DEF Lease
  <2> QED BY <1>3, <2>1 DEF Lapse
<1>4. ASSUME NEW c \in Clients, NEW j \in Jobs, ReadCancel(c, j) PROVE Typed'
  BY <1>4 DEF ReadCancel
<1>5. ASSUME NEW c \in Clients, CommitCancel(c) PROVE Typed'
  <2> DEFINE old == client[c].row
  <2>1. CASE client[c].job \in Jobs
    <3>1. Written(old, Cancelled(old), row[client[c].job]) \in Row
      BY <2>1, CancelledIsRow, WrittenIsRow
    <3> QED BY <1>5, <2>1, <3>1 DEF CommitCancel, NoCancel
  <2>2. CASE client[c].job \notin Jobs
    <3>1. row' = row
      BY <1>5, <2>2 DEF CommitCancel
    <3> QED BY <1>5, <3>1 DEF CommitCancel, NoCancel
  <2> QED BY <2>1, <2>2
<1>6. ASSUME NEW w \in Workers, ReadExpired(w) PROVE Typed'
  BY <1>6 DEF ReadExpired, Proc
<1>7. ASSUME NEW w \in Workers, CommitReap(w) PROVE Typed'
  <2>1. \A j \in Jobs : Written(reaping[w][j], Reaped(j, reaping[w][j]), row[j]) \in Row
    BY ReapedIsRow, WrittenIsRow
  <2> QED BY <1>7, <2>1 DEF CommitReap, Proc, NoRows
<1>8. ASSUME NEW w \in Workers, EndDrain(w) \/ Restart(w) PROVE Typed'
  BY <1>8 DEF EndDrain, Restart, Proc
<1>9. ASSUME NEW w \in Workers, Crash(w) PROVE Typed'
  BY <1>9 DEF Crash, Proc, Phase, NoRows
<1>10. ASSUME NEW t \in Threads, NEW j \in Jobs, Claim(t, j) PROVE Typed'
  <2> DEFINE new == [row[j] EXCEPT !.state = "running", !.lease = "live", !.attempts = @ + 1]
  <2>1. new \in Row
    BY ClaimedIsRow
  <2>2. row' = [row EXCEPT ![j] = new]
    BY <1>10 DEF Claim
  <2> HIDE DEF new
  <2>3. row' \in [Jobs -> Row]
    BY <2>1, <2>2
  <2> QED BY <1>10, <2>3 DEF Claim, Phase, Terminal
<1>11. ASSUME NEW t \in Threads, Grant(t) PROVE Typed'
  BY <1>11 DEF Grant, Phase
<1>12. ASSUME NEW t \in Threads, Refuse(t) PROVE Typed'
  <2>1. holding[t] \in Jobs
    BY <1>12 DEF Refuse
  <2> QED BY <1>12, <2>1 DEF Refuse, Phase
<1>13. ASSUME NEW t \in Threads, CommitRequeue(t) PROVE Typed'
  <2>1. Written(seen[t], Requeued(seen[t]), row[holding[t]]) \in Row
    BY <1>13, RequeuedIsRow, WrittenIsRow DEF CommitRequeue
  <2> QED BY <1>13, <2>1 DEF CommitRequeue, Leave, Phase
<1>14. ASSUME NEW t \in Threads, ReadBeat(t) PROVE Typed'
  BY <1>14 DEF ReadBeat
<1>15. ASSUME NEW t \in Threads, CommitBeat(t) PROVE Typed'
  <2>1. beat[t] \in Jobs
    BY <1>15 DEF CommitBeat
  <2>2. [row[beat[t]] EXCEPT !.lease = "live"] \in Row
    BY <2>1, ClockedIsRow DEF Lease
  <2> QED BY <1>15, <2>1, <2>2 DEF CommitBeat
<1>16. ASSUME NEW t \in Threads, Collection(t) PROVE Typed'
  <2>1. CASE DomainError(t)
    <3>1. holding[t] \in Jobs
      BY <2>1 DEF DomainError
    <3> QED BY <2>1, <3>1 DEF DomainError, Phase
  <2>2. CASE Collected(t) \/ UnexpectedError(t)
    BY <2>2 DEF Collected, UnexpectedError, Phase, Terminal
  <2> QED BY <1>16, <2>1, <2>2 DEF Collection
<1>17. ASSUME NEW t \in Threads, CommitFailOrRetry(t) PROVE Typed'
  <2>1. PICK retryable \in BOOLEAN :
          row' = [row EXCEPT ![holding[t]] =
                    Written(seen[t], FailedOrRetried(holding[t], seen[t], retryable),
                            row[holding[t]])]
    BY <1>17 DEF CommitFailOrRetry
  <2>2. holding[t] \in Jobs
    BY <1>17 DEF CommitFailOrRetry
  <2>3. Written(seen[t], FailedOrRetried(holding[t], seen[t], retryable), row[holding[t]])
          \in Row
    BY <2>2, FailedOrRetriedIsRow, WrittenIsRow
  <2> QED BY <1>17, <2>1, <2>3 DEF CommitFailOrRetry, Leave, Phase
<1>18. ASSUME NEW t \in Threads, CheckCancelled(t) PROVE Typed'
  BY <1>18 DEF CheckCancelled, Phase, Terminal
<1>19. ASSUME NEW t \in Threads, ReadSettle(t) PROVE Typed'
  <2>1. holding[t] \in Jobs
    BY <1>19 DEF ReadSettle
  <2> QED BY <1>19, <2>1 DEF ReadSettle, Phase
<1>20. ASSUME NEW t \in Threads, CommitSettle(t) PROVE Typed'
  <2>1. holding[t] \in Jobs /\ verdict[t] \in States
    BY <1>20 DEF CommitSettle, States
  <2>2. Written(seen[t], Settled(seen[t], verdict[t]), row[holding[t]]) \in Row
    BY <2>1, SettledIsRow, WrittenIsRow
  <2>3. row' \in [Jobs -> Row]
    BY <1>20, <2>2 DEF CommitSettle
  <2>4. CASE Leave(t)
    BY <1>20, <2>3, <2>4 DEF CommitSettle, Leave, Phase
  <2>5. CASE /\ pc' = [pc EXCEPT ![t] = "fanout"]
             /\ seen' = [seen EXCEPT ![t] = Absent]
             /\ UNCHANGED <<holding, verdict>>
    BY <1>20, <2>3, <2>5 DEF CommitSettle, Phase
  <2> QED BY <1>20, <2>4, <2>5 DEF CommitSettle
<1>21. ASSUME NEW t \in Threads, FanOut(t) PROVE Typed'
  BY <1>21 DEF FanOut, Leave, Phase
<1>22. ASSUME NEW t \in Threads, DatabaseError(t) PROVE Typed'
  BY <1>22 DEF DatabaseError, Leave, Phase
<1>23. CASE UNCHANGED vars
  BY <1>23 DEF vars
<1> QED
  BY <1>1, <1>2, <1>3, <1>4, <1>5, <1>6, <1>7, <1>8, <1>9, <1>10, <1>11, <1>12, <1>13,
     <1>14, <1>15, <1>16, <1>17, <1>18, <1>19, <1>20, <1>21, <1>22, <1>23
  DEF Next, ClockStep, ClientStep, ProcessStep, PermitStep, BeatStep, ThreadStep

\* Every reachable state is well typed, in every deployment: any number of
\* processes, threads, jobs and clients.
THEOREM Typing == Spec => []TypeOK
<1>1. Typed => TypeOK
  BY DEF Typed
<1> QED
  BY <1>1, TypedInit, TypedNext, PTL DEF Spec

-----------------------------------------------------------------------------
(* The inductive invariant *)

\* A thread is busy only while its process drains.
BusyInDrain == \A t \in Threads : pc[t] # "idle" => proc[Home[t]] = "draining"

\* No client, reaper or heartbeat puts a job back while it is held.
HeldIsNotQueued ==
    \A t \in Threads : pc[t] # "idle" => row[holding[t]].state \notin {"absent", "queued"}

\* What the session that is to put a job back has read shows the job as taken,
\* so its commit writes the state, and with the attempts it has by now.
SeenIsHeld ==
    \A t \in Threads :
      pc[t] \in {"requeue", "retry"} =>
        /\ seen[t].state \notin {"absent", "queued"}
        /\ seen[t].attempts = row[holding[t]].attempts

\* The same of an open reap.
ReapingIsCurrent ==
    \A w \in Workers : \A j \in Jobs :
      reaping[w][j] # Absent =>
        /\ proc[w] = "reaping"
        /\ reaping[w][j].state = "running"
        /\ reaping[w][j].attempts = row[j].attempts
        /\ row[j].state # "absent"

\* A job that waits for its permit still has the attempt its claim charged.
AttemptInHand ==
    \A t \in Threads :
      pc[t] \in {"permit", "requeue"} => tried[holding[t]] < row[holding[t]].attempts

\* A row that does not exist yet has been charged nothing and tried nothing.
AbsentIsUntried ==
    \A j \in Jobs : row[j].state = "absent" => row[j].attempts = 0 /\ tried[j] = 0

Safe ==
    /\ BusyInDrain
    /\ HeldIsNotQueued
    /\ Exclusive
    /\ SeenIsHeld
    /\ ReapingIsCurrent
    /\ AttemptInHand
    /\ AbsentIsUntried
    /\ TriesAreCharged
    /\ QueuedHasAttemptLeft
    /\ RunningCanBeReaped

Invariant == Typed /\ Safe

-----------------------------------------------------------------------------
(* Steps that neither take a job nor put one back *)

\* A change of a row that leaves its attempts alone and moves its state only
\* into a terminal one.
Quiet(old, new) ==
    /\ new.attempts = old.attempts
    /\ new.state = old.state \/ new.state \in Terminal
    /\ new.lease = "none" => new.lease = old.lease \/ new.state \in Terminal

\* Every row changes quietly or is created.
QuietRows ==
    \A j \in Jobs : \/ Quiet(row[j], row'[j])
                    \/ row[j].state = "absent" /\ row'[j] = Fresh

\* A thread stays where it is, leaves, or goes on past the permit with its job.
QuietThread(t) ==
    \/ pc'[t] = pc[t] /\ holding'[t] = holding[t] /\ seen'[t] = seen[t]
    \/ pc'[t] = "idle" /\ holding'[t] = NoJob
    \/ /\ pc[t] # "idle" /\ holding'[t] = holding[t]
       /\ pc'[t] \in {"collect", "check", "decided", "settle", "fanout"}

\* Such a step preserves everything.
LEMMA QuietStep ==
    ASSUME Invariant, Typed', QuietRows, \A t \in Threads : QuietThread(t),
           UNCHANGED <<proc, reaping, tried>>
    PROVE  Safe'
<1> USE ConstantsOK DEF Invariant, Typed, Safe
<1>1. BusyInDrain'
  BY DEF BusyInDrain, QuietThread
<1>2. \A t \in Threads :
        pc'[t] # "idle" => pc[t] # "idle" /\ holding'[t] = holding[t] /\ holding[t] \in Jobs
  BY DEF QuietThread, TypeOK, BusyHolds
<1>3. \A j \in Jobs : row[j].state # "absent" => Quiet(row[j], row'[j])
  BY DEF QuietRows
<1>4. HeldIsNotQueued'
  BY <1>2, <1>3 DEF HeldIsNotQueued, Quiet, Terminal
<1>5. Exclusive'
  BY <1>2 DEF Exclusive, BusyHolds
<1>6. SeenIsHeld'
  BY <1>2, <1>3 DEF SeenIsHeld, HeldIsNotQueued, Quiet, QuietThread
<1>7. ReapingIsCurrent'
  BY <1>3 DEF ReapingIsCurrent, Quiet, Terminal
<1>8. AttemptInHand'
  BY <1>2, <1>3 DEF AttemptInHand, HeldIsNotQueued, Quiet, QuietThread
<1>9. AbsentIsUntried'
  BY DEF AbsentIsUntried, QuietRows, Quiet, Fresh, Absent, Terminal
<1>10. TriesAreCharged'
  BY DEF TriesAreCharged, AbsentIsUntried, QuietRows, Quiet, Fresh, Absent, TypeOK, Row
<1>11. QueuedHasAttemptLeft'
  <2> SUFFICES ASSUME NEW j \in Jobs, row'[j].state = "queued"
               PROVE  row'[j].attempts < MaxAttempts[j]
    BY DEF QueuedHasAttemptLeft
  <2>1. CASE Quiet(row[j], row'[j])
    BY <2>1 DEF QueuedHasAttemptLeft, Quiet, Terminal
  <2>2. CASE row'[j] = Fresh
    <3>1. row'[j].attempts = 0
      BY <2>2 DEF Fresh, Absent
    <3> QED BY <3>1
  <2> QED BY <2>1, <2>2 DEF QuietRows
<1>12. RunningCanBeReaped'
  BY DEF RunningCanBeReaped, QuietRows, Quiet, Fresh, Absent, Terminal
<1> QED
  BY <1>1, <1>4, <1>5, <1>6, <1>7, <1>8, <1>9, <1>10, <1>11, <1>12

\* What the commit of a cancellation, of a settlement or of a failure does to a row.
LEMMA QuietCancel ==
    ASSUME NEW old \in Row, NEW current \in Row
    PROVE  Quiet(current, Written(old, Cancelled(old), current))
BY DEF Quiet, Written, Column, Cancelled, Row, Terminal

LEMMA QuietSettle ==
    ASSUME NEW old \in Row, NEW current \in Row, NEW state \in Terminal
    PROVE  Quiet(current, Written(old, Settled(old, state), current))
BY DEF Quiet, Written, Column, Settled, Row, Terminal

LEMMA QuietFailure ==
    ASSUME NEW old \in Row, NEW current \in Row, NEW state \in Terminal
    PROVE  Quiet(current, Written(old, [old EXCEPT !.state = state], current))
BY DEF Quiet, Written, Column, Row, Terminal

LEMMA QuietSame == \A r \in Row : Quiet(r, r)
BY DEF Quiet

\* The steps that are quiet, each with the rows and the thread it changes.
LEMMA SafeQuiet ==
    ASSUME Invariant, Typed',
           \/ \E j \in Jobs : Submit(j) \/ ClockStep(j)
           \/ \E c \in Clients : ClientStep(c)
           \/ \E t \in Threads :
                \/ BeatStep(t) \/ Collected(t) \/ UnexpectedError(t) \/ CheckCancelled(t)
                \/ ReadSettle(t) \/ CommitSettle(t) \/ FanOut(t) \/ DatabaseError(t)
    PROVE  Safe'
<1> USE QuietSame DEF Invariant, Typed, TypeOK
<1>1. ASSUME NEW j \in Jobs, Submit(j) PROVE Safe'
  <2>1. QuietRows
    BY <1>1 DEF Submit, QuietRows
  <2> QED BY <1>1, <2>1, QuietStep DEF Submit, QuietThread
<1>2. ASSUME NEW j \in Jobs, ComeDue(j) PROVE Safe'
  <2>1. Quiet(row[j], [row[j] EXCEPT !.due = TRUE])
    BY DEF Quiet, Row
  <2>2. QuietRows
    BY <1>2, <2>1 DEF ComeDue, QuietRows
  <2> QED BY <1>2, <2>2, QuietStep DEF ComeDue, QuietThread
<1>3. ASSUME NEW j \in Jobs, Lapse(j) PROVE Safe'
  <2>1. Quiet(row[j], [row[j] EXCEPT !.lease = "lapsed"])
    BY DEF Quiet, Row
  <2>2. QuietRows
    BY <1>3, <2>1 DEF Lapse, QuietRows
  <2> QED BY <1>3, <2>2, QuietStep DEF Lapse, QuietThread
<1>4. ASSUME NEW c \in Clients, NEW j \in Jobs, ReadCancel(c, j) PROVE Safe'
  <2>1. QuietRows
    BY <1>4 DEF ReadCancel, QuietRows
  <2> QED BY <1>4, <2>1, QuietStep DEF ReadCancel, QuietThread
<1>5. ASSUME NEW c \in Clients, CommitCancel(c) PROVE Safe'
  <2>1. QuietRows
    BY <1>5, QuietCancel DEF CommitCancel, QuietRows
  <2> QED BY <1>5, <2>1, QuietStep DEF CommitCancel, QuietThread
<1>6. ASSUME NEW t \in Threads, ReadBeat(t) PROVE Safe'
  <2>1. QuietRows
    BY <1>6 DEF ReadBeat, QuietRows
  <2> QED BY <1>6, <2>1, QuietStep DEF ReadBeat, QuietThread
<1>7. ASSUME NEW t \in Threads, CommitBeat(t) PROVE Safe'
  <2>1. \A r \in Row : Quiet(r, [r EXCEPT !.lease = "live"])
    BY DEF Quiet, Row
  <2>2. QuietRows
    BY <1>7, <2>1 DEF CommitBeat, QuietRows
  <2> QED BY <1>7, <2>2, QuietStep DEF CommitBeat, QuietThread
<1>8. ASSUME NEW t \in Threads,
             Collected(t) \/ UnexpectedError(t) \/ CheckCancelled(t) \/ ReadSettle(t)
      PROVE  Safe'
  <2>1. UNCHANGED <<row, proc, reaping, tried>>
    BY <1>8 DEF Collected, UnexpectedError, CheckCancelled, ReadSettle
  <2>2. QuietRows
    BY <2>1 DEF QuietRows
  <2>3. \A s \in Threads : QuietThread(s)
    BY <1>8 DEF Collected, UnexpectedError, CheckCancelled, ReadSettle, QuietThread
  <2> QED BY <2>1, <2>2, <2>3, QuietStep
<1>9. ASSUME NEW t \in Threads, CommitSettle(t) PROVE Safe'
  <2>1. verdict[t] \in Terminal
    BY <1>9 DEF CommitSettle, DecidedIsTerminal
  <2>2. QuietRows
    BY <1>9, <2>1, QuietSettle DEF CommitSettle, QuietRows
  <2>3. \A s \in Threads : QuietThread(s)
    BY <1>9 DEF CommitSettle, Leave, QuietThread
  <2> QED BY <1>9, <2>2, <2>3, QuietStep DEF CommitSettle
<1>10. ASSUME NEW t \in Threads, FanOut(t) PROVE Safe'
  <2>1. QuietRows
    BY <1>10 DEF FanOut, QuietRows
  <2>2. \A s \in Threads : QuietThread(s)
    BY <1>10 DEF FanOut, Leave, QuietThread
  <2> QED BY <1>10, <2>1, <2>2, QuietStep DEF FanOut
<1>11. ASSUME NEW t \in Threads, DatabaseError(t) PROVE Safe'
  <2>1. QuietRows
    BY <1>11 DEF DatabaseError, QuietRows
  <2>2. \A s \in Threads : QuietThread(s)
    BY <1>11 DEF DatabaseError, Leave, QuietThread
  <2> QED BY <1>11, <2>1, <2>2, QuietStep DEF DatabaseError
<1> QED
  BY <1>1, <1>2, <1>3, <1>4, <1>5, <1>6, <1>7, <1>8, <1>9, <1>10, <1>11
  DEF ClockStep, ClientStep, BeatStep

-----------------------------------------------------------------------------
(* Steps that take a job or put one back *)

\* Refuse and DomainError open the session that may put the job back, Grant lets
\* it out: only that thread is disturbed, and nobody else holds the job.
LEMMA SafePermit ==
    ASSUME Invariant, Typed', NEW t \in Threads, PermitStep(t) \/ DomainError(t)
    PROVE  Safe'
<1> USE ConstantsOK DEF Invariant, Typed, Safe
<1>1. pc[t] \in {"permit", "collect"} /\ holding[t] \in Jobs /\ pc'[t] # "idle"
  BY DEF PermitStep, Grant, Refuse, DomainError, TypeOK, BusyHolds
<1>2. UNCHANGED <<row, proc, reaping, holding>>
  BY DEF PermitStep, Grant, Refuse, DomainError
<1>3. \A s \in Threads \ {t} : pc'[s] = pc[s] /\ seen'[s] = seen[s]
  BY DEF PermitStep, Grant, Refuse, DomainError, TypeOK
<1>4. \A s \in Threads \ {t} : holding[s] # holding[t]
  BY <1>1 DEF Exclusive
<1>5. \A j \in Jobs : tried'[j] = IF j = holding[t] /\ Grant(t) THEN tried[j] + 1 ELSE tried[j]
  BY <1>1 DEF PermitStep, Grant, Refuse, DomainError, TypeOK
<1>6. BusyInDrain' /\ HeldIsNotQueued'
  BY <1>1, <1>2, <1>3 DEF BusyInDrain, HeldIsNotQueued
<1>7. Exclusive' /\ ReapingIsCurrent' /\ QueuedHasAttemptLeft' /\ RunningCanBeReaped'
  BY <1>2 DEF Exclusive, ReapingIsCurrent, QueuedHasAttemptLeft, RunningCanBeReaped
<1>8. SeenIsHeld'
  <2>1. CASE Grant(t)
    BY <1>2, <1>3, <2>1 DEF Grant, SeenIsHeld, TypeOK
  <2>2. CASE Refuse(t) \/ DomainError(t)
    <3>1. seen'[t] = row[holding[t]] /\ row[holding[t]].state \notin {"absent", "queued"}
      BY <1>1, <2>2 DEF Refuse, DomainError, TypeOK, HeldIsNotQueued
    <3> QED BY <1>2, <1>3, <3>1 DEF SeenIsHeld
  <2> QED BY <2>1, <2>2 DEF PermitStep
<1>9. AttemptInHand'
  <2> SUFFICES ASSUME NEW s \in Threads, pc'[s] \in {"permit", "requeue"}
               PROVE  tried'[holding[s]] < row[holding[s]].attempts
    BY <1>2 DEF AttemptInHand
  <2>1. CASE s = t
    <3>1. Refuse(t)
      BY <2>1 DEF PermitStep, Grant, Refuse, DomainError, TypeOK
    <3> QED BY <2>1, <3>1 DEF Refuse, AttemptInHand
  <2>2. CASE s # t
    <3>1. holding[s] \in Jobs /\ pc[s] \in {"permit", "requeue"}
      BY <1>3, <2>2 DEF TypeOK, BusyHolds
    <3> QED BY <1>4, <1>5, <2>2, <3>1 DEF AttemptInHand
  <2> QED BY <2>1, <2>2
<1>10. AbsentIsUntried'
  BY <1>1, <1>2, <1>5 DEF AbsentIsUntried, HeldIsNotQueued
<1>11. TriesAreCharged'
  <2>1. Grant(t) => tried[holding[t]] < row[holding[t]].attempts
    BY DEF Grant, AttemptInHand
  <2> QED BY <1>1, <1>2, <1>5, <2>1 DEF TriesAreCharged, TypeOK, Row
<1> QED
  BY <1>6, <1>7, <1>8, <1>9, <1>10, <1>11

\* A claim takes a queued job, which nobody holds, while no reap is open.
LEMMA SafeClaim ==
    ASSUME OneProcess, Invariant, Typed', NEW t \in Threads, NEW j \in Jobs, Claim(t, j)
    PROVE  Safe'
<1> USE ConstantsOK DEF Invariant, Typed, Safe
<1> DEFINE new == [row[j] EXCEPT !.state = "running", !.lease = "live", !.attempts = @ + 1]
<1>1. /\ row' = [row EXCEPT ![j] = new]
      /\ UNCHANGED <<proc, reaping, seen, tried>>
      /\ pc' = [pc EXCEPT ![t] = IF j \in Unknown THEN "decided" ELSE "permit"]
      /\ holding' = [holding EXCEPT ![t] = j]
      /\ pc[t] = "idle" /\ proc[Home[t]] = "draining" /\ row[j].state = "queued"
  BY DEF Claim, Claimable
<1>2. new.state = "running" /\ new.lease = "live" /\ new.attempts = row[j].attempts + 1
  BY DEF TypeOK, Row
<1>3. row'[j] = new /\ \A i \in Jobs \ {j} : row'[i] = row[i]
  BY <1>1 DEF TypeOK
<1> HIDE DEF new
<1>4. pc'[t] \in {"decided", "permit"} /\ \A s \in Threads \ {t} : pc'[s] = pc[s]
  BY <1>1 DEF TypeOK
<1>5. holding'[t] = j /\ \A s \in Threads \ {t} : holding'[s] = holding[s]
  BY <1>1 DEF TypeOK
<1>6. \A s \in Threads : holding[s] # j
  BY <1>1 DEF HeldIsNotQueued, BusyHolds
<1>7. \A s \in Threads \ {t} : pc[s] # "idle" => holding[s] \in Jobs /\ row'[holding[s]] = row[holding[s]]
  BY <1>3, <1>6 DEF TypeOK, BusyHolds
<1>8. BusyInDrain'
  BY <1>1, <1>4 DEF BusyInDrain
<1>9. HeldIsNotQueued'
  BY <1>2, <1>3, <1>4, <1>5, <1>7 DEF HeldIsNotQueued
<1>10. Exclusive'
  BY <1>5, <1>6 DEF Exclusive
<1>11. SeenIsHeld'
  BY <1>1, <1>4, <1>5, <1>7 DEF SeenIsHeld
<1>12. ReapingIsCurrent'
  <2>1. \A w \in Workers, i \in Jobs : reaping[w][i] = Absent
    BY <1>1 DEF OneProcess, ReapingIsCurrent
  <2> QED BY <1>1, <2>1 DEF ReapingIsCurrent
<1>13. AttemptInHand'
  <2>1. tried[j] < new.attempts
    BY <1>2 DEF TriesAreCharged, TypeOK, Row
  <2> QED BY <1>1, <1>3, <1>4, <1>5, <1>7, <2>1 DEF AttemptInHand
<1>14. AbsentIsUntried'
  BY <1>1, <1>2, <1>3 DEF AbsentIsUntried
<1>15. TriesAreCharged'
  <2>1. row[j].attempts < MaxAttempts[j] /\ tried[j] <= row[j].attempts
    BY <1>1 DEF QueuedHasAttemptLeft, TriesAreCharged
  <2>2. tried[j] <= new.attempts /\ new.attempts <= MaxAttempts[j]
    BY <1>2, <2>1 DEF TypeOK, Row
  <2> QED BY <1>1, <1>3, <2>2 DEF TriesAreCharged
<1>16. QueuedHasAttemptLeft' /\ RunningCanBeReaped'
  BY <1>2, <1>3 DEF QueuedHasAttemptLeft, RunningCanBeReaped
<1> QED
  BY <1>8, <1>9, <1>10, <1>11, <1>12, <1>13, <1>14, <1>15, <1>16

\* A thread that puts its job back: nobody else holds it and no reap is open, so
\* it is safe that the row is queued again with an attempt left.
LEMMA SafePutBack ==
    ASSUME OneProcess, Invariant, Typed', NEW t \in Threads, NEW new \in Row,
           pc[t] # "idle", Leave(t), UNCHANGED <<proc, reaping, tried>>,
           row' = [row EXCEPT ![holding[t]] = new],
           new.state = "queued",
           tried[holding[t]] <= new.attempts, new.attempts < MaxAttempts[holding[t]]
    PROVE  Safe'
<1> USE ConstantsOK DEF Invariant, Typed, Safe
<1> DEFINE j == holding[t]
<1>1. j \in Jobs /\ row[j].state # "absent"
  BY DEF TypeOK, BusyHolds, HeldIsNotQueued
<1>2. row'[j] = new /\ \A i \in Jobs \ {j} : row'[i] = row[i]
  BY <1>1 DEF TypeOK
<1>3. \A s \in Threads : pc'[s] # "idle" =>
        /\ s # t /\ pc'[s] = pc[s] /\ holding'[s] = holding[s] /\ seen'[s] = seen[s]
        /\ holding[s] \in Jobs \ {j}
  BY <1>1 DEF Leave, TypeOK, BusyHolds, Exclusive
<1>4. \A w \in Workers, i \in Jobs : reaping[w][i] = Absent
  BY DEF OneProcess, ReapingIsCurrent, BusyInDrain
<1> HIDE DEF j
<1>5. BusyInDrain' /\ HeldIsNotQueued' /\ SeenIsHeld' /\ AttemptInHand'
  BY <1>2, <1>3 DEF BusyInDrain, HeldIsNotQueued, SeenIsHeld, AttemptInHand
<1>6. Exclusive'
  BY <1>3 DEF Exclusive, BusyHolds
<1>7. ReapingIsCurrent'
  BY <1>4 DEF ReapingIsCurrent
<1>8. AbsentIsUntried' /\ RunningCanBeReaped'
  BY <1>2 DEF AbsentIsUntried, RunningCanBeReaped
<1>9. tried[j] <= new.attempts /\ new.attempts < MaxAttempts[j]
  BY DEF j
<1>10. TriesAreCharged'
  <2>1. MaxAttempts[j] \in Nat /\ new.attempts \in Nat
    BY <1>1 DEF Row
  <2>2. new.attempts <= MaxAttempts[j]
    BY <1>9, <2>1
  <2> QED BY <1>2, <1>9, <2>2 DEF TriesAreCharged
<1>11. QueuedHasAttemptLeft'
  BY <1>2, <1>9 DEF QueuedHasAttemptLeft
<1> QED
  BY <1>5, <1>6, <1>7, <1>8, <1>10, <1>11

LEMMA SafeRequeue ==
    ASSUME OneProcess, Invariant, Typed', NEW t \in Threads, CommitRequeue(t)
    PROVE  Safe'
<1> USE ConstantsOK DEF Invariant, Typed, Safe
<1> DEFINE j == holding[t]
           n == row[j].attempts
           new == Written(seen[t], Requeued(seen[t]), row[j])
<1>1. j \in Jobs /\ seen[t] \in Row /\ row[j] \in Row
  BY DEF CommitRequeue, TypeOK, BusyHolds
<1>2. seen[t].state # "queued" /\ seen[t].attempts = n /\ tried[j] < n /\ n <= MaxAttempts[j]
  BY <1>1 DEF CommitRequeue, SeenIsHeld, AttemptInHand, TriesAreCharged
<1>3. n \in Nat /\ n > 0 /\ tried[j] \in Nat /\ MaxAttempts[j] \in Nat
  BY <1>1, <1>2 DEF TypeOK, Row
<1>4. new \in Row
  BY <1>1, RequeuedIsRow, WrittenIsRow
<1>5. Requeued(seen[t]).state = "queued" /\ Requeued(seen[t]).attempts = n - 1
  BY <1>1, <1>2, <1>3 DEF Requeued, Row
<1>6. new.state = "queued" /\ new.attempts = n - 1
  BY <1>2, <1>3, <1>5 DEF Written, Column
<1>7. tried[j] <= n - 1 /\ n - 1 < MaxAttempts[j]
  BY <1>2, <1>3
<1>8. /\ pc[t] # "idle" /\ Leave(t) /\ UNCHANGED <<proc, reaping, tried>>
      /\ row' = [row EXCEPT ![holding[t]] = new]
  BY DEF CommitRequeue
<1> HIDE DEF new
<1> QED
  BY <1>4, <1>6, <1>7, <1>8, SafePutBack

LEMMA SafeFailOrRetry ==
    ASSUME OneProcess, Invariant, Typed', NEW t \in Threads, CommitFailOrRetry(t)
    PROVE  Safe'
<1> USE ConstantsOK DEF Invariant, Typed, Safe
<1>1. PICK retryable \in BOOLEAN :
        row' = [row EXCEPT ![holding[t]] =
                  Written(seen[t], FailedOrRetried(holding[t], seen[t], retryable),
                          row[holding[t]])]
  BY DEF CommitFailOrRetry
<1> DEFINE j == holding[t]
           made == FailedOrRetried(j, seen[t], retryable)
           new == Written(seen[t], made, row[j])
<1>2. j \in Jobs /\ seen[t] \in Row /\ row[j] \in Row
  BY DEF CommitFailOrRetry, TypeOK, BusyHolds
<1>3. new \in Row
  BY <1>2, FailedOrRetriedIsRow, WrittenIsRow
<1>4. /\ pc[t] # "idle" /\ Leave(t) /\ UNCHANGED <<proc, reaping, tried>>
      /\ row' = [row EXCEPT ![holding[t]] = new]
  BY <1>1 DEF CommitFailOrRetry
<1>5. CASE seen[t].cancel \/ ~retryable \/ seen[t].attempts >= MaxAttempts[j]
  <2>1. \E state \in Terminal : made = [seen[t] EXCEPT !.state = state]
    BY <1>5 DEF FailedOrRetried, Terminal
  <2>2. Quiet(row[j], new)
    BY <1>2, <2>1, QuietFailure
  <2> HIDE DEF new
  <2>3. QuietRows
    BY <1>2, <1>4, <2>2, QuietSame DEF QuietRows, TypeOK
  <2>4. \A s \in Threads : QuietThread(s)
    BY <1>4 DEF Leave, QuietThread, TypeOK
  <2> QED BY <1>4, <2>3, <2>4, QuietStep
<1>6. CASE ~(seen[t].cancel \/ ~retryable \/ seen[t].attempts >= MaxAttempts[j])
  <2>1. made = [seen[t] EXCEPT !.state = "queued", !.lease = "none", !.due = FALSE]
    BY <1>6 DEF FailedOrRetried
  <2>2. made.state = "queued" /\ made.attempts = seen[t].attempts
    BY <1>2, <2>1 DEF Row
  <2>3. seen[t].state # "queued" /\ seen[t].attempts = row[j].attempts
    BY <1>2 DEF CommitFailOrRetry, SeenIsHeld
  <2>4. new.state = "queued" /\ new.attempts = row[j].attempts
    BY <2>2, <2>3 DEF Written, Column
  <2>5. tried[j] <= row[j].attempts /\ row[j].attempts < MaxAttempts[j]
    BY <1>2, <1>6, <2>3 DEF TriesAreCharged, TypeOK, Row
  <2> HIDE DEF new
  <2> QED BY <1>3, <1>4, <2>4, <2>5, SafePutBack
<1> QED
  BY <1>5, <1>6

\* The process's own steps find its threads idle, its crash sends them home.
LEMMA SafeProcess ==
    ASSUME OneProcess, Invariant, Typed', NEW w \in Workers, ProcessStep(w) \/ Crash(w)
    PROVE  Safe'
<1> USE ConstantsOK DEF Invariant, Typed, Safe
<1>1. \A t \in Threads : Home[t] = w
  BY DEF OneProcess
<1>2. CASE ReadExpired(w)
  <2>1. \A t \in Threads : pc[t] = "idle"
    BY <1>1, <1>2 DEF ReadExpired, BusyInDrain
  <2>2. UNCHANGED <<row, pc, holding, seen, tried>>
    BY <1>2 DEF ReadExpired
  <2>3. \A v \in Workers, j \in Jobs :
          /\ proc'[v] = "reaping"
          /\ reaping'[v][j] # Absent => reaping'[v][j] = row[j] /\ row[j].state = "running"
    BY <1>2 DEF ReadExpired, Expired, OneProcess, TypeOK
  <2>4. ReapingIsCurrent'
    BY <2>2, <2>3 DEF ReapingIsCurrent
  <2> QED BY <2>1, <2>2, <2>4 DEF BusyInDrain, HeldIsNotQueued, Exclusive, SeenIsHeld,
          AttemptInHand, AbsentIsUntried, TriesAreCharged, QueuedHasAttemptLeft,
          RunningCanBeReaped
<1>3. CASE CommitReap(w)
  <2>1. \A t \in Threads : pc[t] = "idle"
    BY <1>1, <1>3 DEF CommitReap, BusyInDrain
  <2>2. UNCHANGED <<pc, holding, seen, tried>>
    BY <1>3 DEF CommitReap
  <2>3. \A v \in Workers, j \in Jobs : reaping'[v][j] = Absent
    BY <1>3 DEF CommitReap, OneProcess, NoRows, TypeOK
  <2>4. ASSUME NEW j \in Jobs
        PROVE  /\ row'[j].attempts = row[j].attempts
               /\ \/ row'[j] = row[j]
                  \/ row[j].state # "absent" /\ row'[j].state = "failed"
                  \/ /\ row[j].state # "absent" /\ row'[j].state = "queued"
                     /\ row[j].attempts < MaxAttempts[j]
    <3> DEFINE old == reaping[w][j]
               made == Reaped(j, old)
    <3>1. row'[j] = IF old # Absent THEN Written(old, made, row[j]) ELSE row[j]
      BY <1>3 DEF CommitReap
    <3>2. CASE old # Absent
      <4>1. old.state = "running" /\ old.attempts = row[j].attempts /\ row[j].state # "absent"
        BY <3>2 DEF ReapingIsCurrent
      <4>2. old \in Row /\ row[j] \in Row
        BY DEF TypeOK
      <4>3. /\ made.attempts = old.attempts
            /\ made.state = IF old.attempts >= MaxAttempts[j] THEN "failed" ELSE "queued"
        BY <4>2 DEF Reaped, Row
      <4> HIDE DEF made, old
      <4>4. row'[j].attempts = row[j].attempts /\ row'[j].state = made.state
        BY <3>1, <3>2, <4>1, <4>3 DEF Written, Column
      <4> QED BY <4>1, <4>2, <4>3, <4>4 DEF Row
    <3> QED BY <3>1, <3>2
  <2>5. HeldIsNotQueued' /\ SeenIsHeld' /\ AttemptInHand' /\ BusyInDrain' /\ Exclusive'
    BY <2>1, <2>2 DEF HeldIsNotQueued, SeenIsHeld, AttemptInHand, BusyInDrain, Exclusive
  <2>6. ReapingIsCurrent'
    BY <2>3 DEF ReapingIsCurrent
  <2>7. TriesAreCharged' /\ AbsentIsUntried'
    BY <2>2, <2>4 DEF TriesAreCharged, AbsentIsUntried
  <2>8. QueuedHasAttemptLeft' /\ RunningCanBeReaped'
    BY <2>4 DEF QueuedHasAttemptLeft, RunningCanBeReaped
  <2> QED BY <2>5, <2>6, <2>7, <2>8
<1>4. CASE EndDrain(w) \/ Restart(w)
  <2>1. \A t \in Threads : pc[t] = "idle"
    BY <1>1, <1>4 DEF EndDrain, Restart, Busy, BusyInDrain
  <2>2. UNCHANGED <<row, reaping, pc, holding, seen, tried>>
    BY <1>4 DEF EndDrain, Restart
  <2>3. \A v \in Workers, j \in Jobs : reaping[v][j] = Absent
    BY <1>4 DEF EndDrain, Restart, OneProcess, ReapingIsCurrent
  <2> QED BY <2>1, <2>2, <2>3 DEF BusyInDrain, HeldIsNotQueued, Exclusive, SeenIsHeld,
          ReapingIsCurrent, AttemptInHand, AbsentIsUntried, TriesAreCharged,
          QueuedHasAttemptLeft, RunningCanBeReaped
<1>5. CASE Crash(w)
  <2>1. \A t \in Threads : pc'[t] = "idle" /\ holding'[t] = NoJob
    BY <1>1, <1>5 DEF Crash
  <2>2. UNCHANGED <<row, tried>>
    BY <1>5 DEF Crash
  <2>3. \A v \in Workers, j \in Jobs : reaping'[v][j] = Absent
    BY <1>5 DEF Crash, OneProcess, NoRows, TypeOK
  <2> QED BY <2>1, <2>2, <2>3 DEF BusyInDrain, HeldIsNotQueued, Exclusive, SeenIsHeld,
          ReapingIsCurrent, AttemptInHand, AbsentIsUntried, TriesAreCharged,
          QueuedHasAttemptLeft, RunningCanBeReaped
<1> QED
  BY <1>2, <1>3, <1>4, <1>5 DEF ProcessStep

-----------------------------------------------------------------------------
(* The invariant is inductive *)

LEMMA SafeInit == Init => Invariant
<1> SUFFICES ASSUME Init PROVE Invariant
  OBVIOUS
<1> USE ConstantsOK
<1>1. Typed
  BY TypedInit
<1>2. \A t \in Threads : pc[t] = "idle" /\ holding[t] = NoJob
  BY DEF Init
<1>3. \A j \in Jobs : row[j] = Absent /\ tried[j] = 0
  BY DEF Init
<1>4. \A w \in Workers, j \in Jobs : reaping[w][j] = Absent
  BY DEF Init, NoRows
<1>5. Absent.state = "absent" /\ Absent.attempts = 0
  BY DEF Absent
<1> QED
  BY <1>1, <1>2, <1>3, <1>4, <1>5
  DEF Invariant, Safe, BusyInDrain, HeldIsNotQueued, Exclusive, SeenIsHeld, ReapingIsCurrent,
      AttemptInHand, AbsentIsUntried, TriesAreCharged, QueuedHasAttemptLeft, RunningCanBeReaped

LEMMA SafeNext == OneProcess /\ Invariant /\ [Next]_vars => Invariant'
<1> SUFFICES ASSUME OneProcess, Invariant, [Next]_vars PROVE Invariant'
  OBVIOUS
<1>1. Typed'
  BY TypedNext DEF Invariant
<1>2. CASE UNCHANGED vars
  BY <1>1, <1>2
  DEF vars, Invariant, Safe, BusyInDrain, HeldIsNotQueued, Exclusive, SeenIsHeld,
      ReapingIsCurrent, AttemptInHand, AbsentIsUntried, TriesAreCharged,
      QueuedHasAttemptLeft, RunningCanBeReaped
<1>3. CASE Next
  BY <1>1, <1>3, SafeQuiet, SafePermit, SafeClaim, SafeRequeue, SafeFailOrRetry, SafeProcess
  DEF Next, ThreadStep, Collection, Invariant
<1> QED
  BY <1>2, <1>3

-----------------------------------------------------------------------------
(* The theorems *)

LEMMA AlwaysInvariant == ASSUME OneProcess PROVE Spec => []Invariant
<1>1. Invariant /\ [Next]_vars => Invariant'
  BY SafeNext
<1> QED
  BY <1>1, SafeInit, PTL DEF Spec

\* One process, any number of threads: no two of them ever execute one job,
\* even where leases lapse early, heartbeats commit late and clients cancel on
\* stale rows.
THEOREM ExclusiveWithOneProcess == ASSUME OneProcess PROVE Spec => []Exclusive
<1>1. Invariant => Exclusive
  BY DEF Invariant, Safe
<1> QED
  BY <1>1, AlwaysInvariant, PTL

\* One process: every trip to the upstream is paid for with an attempt, and a
\* row never has more of them than max_attempts.
THEOREM TriesAreChargedWithOneProcess == ASSUME OneProcess PROVE Spec => []TriesAreCharged
<1>1. Invariant => TriesAreCharged
  BY DEF Invariant, Safe
<1> QED
  BY <1>1, AlwaysInvariant, PTL

\* One process: whatever puts a job back leaves it an attempt.
THEOREM QueuedHasAttemptLeftWithOneProcess ==
    ASSUME OneProcess PROVE Spec => []QueuedHasAttemptLeft
<1>1. Invariant => QueuedHasAttemptLeft
  BY DEF Invariant, Safe
<1> QED
  BY <1>1, AlwaysInvariant, PTL

\* One process: no running job is out of the reaper's reach.
THEOREM RunningCanBeReapedWithOneProcess ==
    ASSUME OneProcess PROVE Spec => []RunningCanBeReaped
<1>1. Invariant => RunningCanBeReaped
  BY DEF Invariant, Safe
<1> QED
  BY <1>1, AlwaysInvariant, PTL

-----------------------------------------------------------------------------
(* The history of a row *)

\* Until its thread settles a job, the row is open: taken, or cancelled late.
HeldIsOpen ==
    \A t \in Threads :
      pc[t] \notin {"idle", "fanout"} =>
        row[holding[t]].state \in {"running", "cancelled"} /\ ~row[holding[t]].result

\* So is what an open session of that thread has read.
SeenIsOpen ==
    \A t \in Threads :
      pc[t] \in {"requeue", "retry", "settle"} =>
        seen[t].state \in {"running", "cancelled"} /\ ~seen[t].result

\* And a row that a reap is about to write.
ReapedIsOpen ==
    \A w \in Workers, j \in Jobs :
      reaping[w][j] # Absent =>
        row[j].state \in {"running", "cancelled"} /\ ~row[j].result

\* A thread queues follow-ups of a job whose result is recorded.
FanOutHasResult == \A t \in Threads : pc[t] = "fanout" => row[holding[t]].result

\* A row with a result is finished, so nobody claims it, reaps it or settles it.
ResultIsFinal == \A j \in Jobs : row[j].result => row[j].state \in Terminal

\* A cancellation has read a row that exists.
CancelledExists ==
    \A c \in Clients : client[c].job \in Jobs => row[client[c].job].state # "absent"

History ==
    /\ HeldIsOpen
    /\ SeenIsOpen
    /\ ReapedIsOpen
    /\ FanOutHasResult
    /\ ResultIsFinal
    /\ CancelledExists
    /\ FollowUpsHaveAParent

\* What a step does to a row it does not move between queue and executor.
Passes(j) ==
    /\ row'[j].state = row[j].state /\ row'[j].attempts = row[j].attempts
    /\ row'[j].result = row[j].result

IsCancelled(j) ==
    /\ row[j].state # "absent" /\ row'[j].state = "cancelled"
    /\ row'[j].attempts = row[j].attempts /\ row'[j].result = row[j].result

IsCreated(j) ==
    /\ row[j].state = "absent" /\ row'[j] = Fresh
    /\ \A i \in Jobs : j \in FollowUps[i] => row[i].result

\* And to a thread, a reap and a cancellation.
GoesOn(t) ==
    \/ pc'[t] = pc[t] /\ holding'[t] = holding[t] /\ seen'[t] = seen[t]
    \/ pc'[t] = "idle"
    \/ /\ pc[t] \notin {"idle", "fanout"} /\ pc'[t] # "fanout" /\ holding'[t] = holding[t]
       /\ pc'[t] \in {"requeue", "retry", "settle"} => seen'[t] = row[holding[t]]

ReapGoesOn(w, j) ==
    \/ reaping'[w][j] = Absent \/ reaping'[w][j] = reaping[w][j]
    \/ row[j].state = "running"

CancelGoesOn(c) ==
    \/ client'[c] = client[c] \/ client'[c] = NoCancel
    \/ client'[c].job \in Jobs => row[client'[c].job].state # "absent"

LEMMA HistoryGoesOn ==
    ASSUME Invariant, History,
           \A j \in Jobs : Passes(j) \/ IsCancelled(j) \/ IsCreated(j),
           \A t \in Threads : GoesOn(t),
           \A w \in Workers, j \in Jobs : ReapGoesOn(w, j),
           \A c \in Clients : CancelGoesOn(c)
    PROVE  History'
<1> USE ConstantsOK DEF Invariant, Typed, History
<1>1. \A t \in Threads : pc[t] # "idle" => holding[t] \in Jobs /\ row[holding[t]].state # "absent"
  BY DEF TypeOK, BusyHolds, Safe, HeldIsNotQueued
<1>2. \A j \in Jobs : row[j].state # "absent" =>
        /\ row'[j].state \in {row[j].state, "cancelled"} /\ row'[j].result = row[j].result
  BY DEF Passes, IsCancelled, IsCreated
<1>3. HeldIsOpen' /\ FanOutHasResult'
  BY <1>1, <1>2 DEF HeldIsOpen, FanOutHasResult, GoesOn
<1>4. SeenIsOpen'
  BY <1>1 DEF SeenIsOpen, HeldIsOpen, GoesOn
<1>5. ReapedIsOpen'
  <2>1. ASSUME NEW w \in Workers, NEW j \in Jobs, reaping'[w][j] # Absent
        PROVE  row[j].state \in {"running", "cancelled"} /\ ~row[j].result
    BY <2>1 DEF ReapedIsOpen, ReapGoesOn, ResultIsFinal, Terminal
  <2> QED BY <1>2, <2>1 DEF ReapedIsOpen
<1>6. ResultIsFinal'
  <2> SUFFICES ASSUME NEW j \in Jobs, row'[j].result PROVE row'[j].state \in Terminal
    BY DEF ResultIsFinal
  <2>1. ~IsCreated(j)
    BY DEF IsCreated, Fresh, Absent
  <2> QED BY <2>1 DEF ResultIsFinal, Passes, IsCancelled, Terminal
<1>7. CancelledExists'
  <2>1. \A c \in Clients : client'[c].job \in Jobs => row[client'[c].job].state # "absent"
    BY DEF CancelledExists, CancelGoesOn, NoCancel
  <2> QED BY <1>2, <2>1 DEF CancelledExists
<1>8. FollowUpsHaveAParent'
  <2> SUFFICES ASSUME NEW i \in Jobs, NEW j \in FollowUps[i], row'[j].state # "absent"
               PROVE  row'[i].result
    BY DEF FollowUpsHaveAParent
  <2>1. row[i].result
    BY DEF FollowUpsHaveAParent, Passes, IsCancelled, IsCreated
  <2>2. row[i].state # "absent"
    BY <2>1 DEF ResultIsFinal, Terminal
  <2> QED BY <1>2, <2>1, <2>2
<1> QED
  BY <1>3, <1>4, <1>5, <1>6, <1>7, <1>8

\* While a thread is busy the one process has no reap open.
LEMMA NoReapWhileBusy ==
    ASSUME OneProcess, Invariant, NEW t \in Threads, pc[t] # "idle"
    PROVE  \A w \in Workers, j \in Jobs : reaping[w][j] = Absent
BY ConstantsOK DEF OneProcess, Invariant, Safe, ReapingIsCurrent, BusyInDrain

\* A thread that lets go of its job in the commit that ends it or puts it back.
LEMMA HistoryLetsGo ==
    ASSUME OneProcess, Invariant, History, NEW t \in Threads, NEW new \in Row,
           pc[t] \notin {"idle", "fanout"}, Leave(t), UNCHANGED <<reaping, client>>,
           row' = [row EXCEPT ![holding[t]] = new],
           new.state # "absent", new.result => new.state \in Terminal
    PROVE  History'
<1> USE ConstantsOK DEF Invariant, Typed, History
<1> DEFINE j == holding[t]
<1>1. j \in Jobs /\ row[j].state # "absent" /\ ~row[j].result
  BY DEF TypeOK, BusyHolds, HeldIsOpen
<1>2. row'[j] = new /\ \A i \in Jobs \ {j} : row'[i] = row[i]
  BY <1>1 DEF TypeOK
<1>3. \A s \in Threads : pc'[s] # "idle" =>
        /\ pc'[s] = pc[s] /\ holding'[s] = holding[s] /\ seen'[s] = seen[s]
        /\ holding[s] \in Jobs \ {j}
  BY <1>1 DEF Leave, TypeOK, BusyHolds, Safe, Exclusive
<1>4. \A w \in Workers, i \in Jobs : reaping'[w][i] = Absent
  BY NoReapWhileBusy
<1> HIDE DEF j
<1>5. HeldIsOpen' /\ SeenIsOpen' /\ FanOutHasResult'
  BY <1>2, <1>3 DEF HeldIsOpen, SeenIsOpen, FanOutHasResult
<1>6. ReapedIsOpen' /\ ResultIsFinal' /\ CancelledExists'
  BY <1>2, <1>4 DEF ReapedIsOpen, ResultIsFinal, CancelledExists
<1>7. FollowUpsHaveAParent'
  BY <1>1, <1>2 DEF FollowUpsHaveAParent
<1> QED
  BY <1>5, <1>6, <1>7

\* What the commits of the other sessions make of a row.
LEMMA CancelWrites ==
    ASSUME NEW old \in Row, NEW current \in Row
    PROVE  LET new == Written(old, Cancelled(old), current) IN
           /\ new.attempts = current.attempts /\ new.result = current.result
           /\ new.state = current.state \/ new.state = "cancelled"
BY DEF Written, Column, Cancelled, Row

\* The steps that move no row between the queue and an executor, each as what
\* it does to the rows, the threads and the open sessions.
LEMMA HistoryQuiet ==
    ASSUME Invariant, Typed', History,
           \/ \E j \in Jobs : Submit(j) \/ ClockStep(j)
           \/ \E c \in Clients : ClientStep(c)
           \/ \E w \in Workers : ReadExpired(w) \/ EndDrain(w) \/ Restart(w) \/ Crash(w)
           \/ \E t \in Threads :
                \/ PermitStep(t) \/ BeatStep(t) \/ Collection(t) \/ CheckCancelled(t)
                \/ ReadSettle(t) \/ FanOut(t) \/ DatabaseError(t)
    PROVE  /\ History'
           /\ \A j \in Jobs : Passes(j) \/ IsCancelled(j) \/ IsCreated(j)
<1> USE ConstantsOK DEF Invariant, Typed, TypeOK
<1> DEFINE Rows == \A j \in Jobs : Passes(j) \/ IsCancelled(j) \/ IsCreated(j)
           Others == /\ \A t \in Threads : GoesOn(t)
                     /\ \A w \in Workers, j \in Jobs : ReapGoesOn(w, j)
                     /\ \A c \in Clients : CancelGoesOn(c)
<1>0. ASSUME Rows, Others PROVE History' /\ Rows
  BY <1>0, HistoryGoesOn
<1>1. ASSUME row' = row PROVE Rows
  BY <1>1 DEF Passes
<1>2. ASSUME UNCHANGED <<pc, holding, seen, reaping, client>> PROVE Others
  BY <1>2 DEF GoesOn, ReapGoesOn, CancelGoesOn
<1>3. ASSUME NEW j \in Jobs, Submit(j) PROVE Rows /\ Others
  <2>1. Rows
    BY <1>3 DEF Submit, Passes, IsCreated
  <2> QED BY <1>2, <1>3, <2>1 DEF Submit
<1>4. ASSUME NEW j \in Jobs, ClockStep(j) PROVE Rows /\ Others
  <2>1. \A r \in Row : \A new \in {[r EXCEPT !.due = TRUE], [r EXCEPT !.lease = "lapsed"]} :
          new.state = r.state /\ new.attempts = r.attempts /\ new.result = r.result
    BY DEF Row
  <2>2. Rows
    <3> SUFFICES ASSUME NEW i \in Jobs PROVE Passes(i)
      OBVIOUS
    <3>1. \/ row'[i] = row[i]
          \/ row'[i] \in {[row[i] EXCEPT !.due = TRUE], [row[i] EXCEPT !.lease = "lapsed"]}
      BY <1>4 DEF ClockStep, ComeDue, Lapse
    <3> QED BY <2>1, <3>1 DEF Passes
  <2> QED BY <1>2, <1>4, <2>2 DEF ClockStep, ComeDue, Lapse
<1>5. ASSUME NEW c \in Clients, NEW j \in Jobs, ReadCancel(c, j) PROVE Rows /\ Others
  BY <1>1, <1>5 DEF ReadCancel, GoesOn, ReapGoesOn, CancelGoesOn, Terminal
<1>6. ASSUME NEW c \in Clients, CommitCancel(c) PROVE Rows /\ Others
  <2>1. Rows
    <3> SUFFICES ASSUME NEW j \in Jobs PROVE Passes(j) \/ IsCancelled(j)
      OBVIOUS
    <3>1. CASE client[c].job = j
      <4>1. row[j].state # "absent"
        BY <3>1 DEF History, CancelledExists
      <4>2. row'[j] = Written(client[c].row, Cancelled(client[c].row), row[j])
        BY <1>6, <3>1 DEF CommitCancel
      <4>3. client[c].row \in Row /\ row[j] \in Row
        OBVIOUS
      <4> QED BY <4>1, <4>2, <4>3, CancelWrites DEF Passes, IsCancelled
    <3>2. CASE client[c].job # j
      BY <1>6, <3>2 DEF CommitCancel, Passes
    <3> QED BY <3>1, <3>2
  <2>2. Others
    BY <1>6 DEF CommitCancel, GoesOn, ReapGoesOn, CancelGoesOn
  <2> QED BY <2>1, <2>2
<1>7. ASSUME NEW w \in Workers, ReadExpired(w) PROVE Rows /\ Others
  BY <1>1, <1>7 DEF ReadExpired, Expired, GoesOn, ReapGoesOn, CancelGoesOn
<1>8. ASSUME NEW w \in Workers, EndDrain(w) \/ Restart(w) PROVE Rows /\ Others
  BY <1>1, <1>2, <1>8 DEF EndDrain, Restart
<1>9. ASSUME NEW w \in Workers, Crash(w) PROVE Rows /\ Others
  BY <1>1, <1>9 DEF Crash, NoRows, GoesOn, ReapGoesOn, CancelGoesOn
<1>10. ASSUME NEW t \in Threads, BeatStep(t) PROVE Rows /\ Others
  <2>1. ASSUME NEW r \in Row, NEW new, new = [r EXCEPT !.lease = "live"]
        PROVE  new.state = r.state /\ new.attempts = r.attempts /\ new.result = r.result
    BY <2>1 DEF Row
  <2>2. Rows
    <3> SUFFICES ASSUME NEW i \in Jobs PROVE Passes(i)
      OBVIOUS
    <3>1. row'[i] = row[i] \/ row'[i] = [row[i] EXCEPT !.lease = "live"]
      BY <1>10 DEF BeatStep, ReadBeat, CommitBeat
    <3> QED BY <2>1, <3>1 DEF Passes
  <2> QED BY <1>2, <1>10, <2>2 DEF BeatStep, ReadBeat, CommitBeat
<1>11. ASSUME NEW t \in Threads,
              PermitStep(t) \/ Collection(t) \/ CheckCancelled(t) \/ ReadSettle(t)
       PROVE  Rows /\ Others
  <2>1. UNCHANGED <<row, reaping, client, holding>>
    BY <1>11 DEF PermitStep, Grant, Refuse, Collection, Collected, DomainError,
       UnexpectedError, CheckCancelled, ReadSettle
  <2>2. GoesOn(t)
    BY <1>11 DEF PermitStep, Grant, Refuse, Collection, Collected, DomainError,
       UnexpectedError, CheckCancelled, ReadSettle, GoesOn
  <2>3. \A s \in Threads \ {t} : pc'[s] = pc[s] /\ seen'[s] = seen[s]
    BY <1>11 DEF PermitStep, Grant, Refuse, Collection, Collected, DomainError,
       UnexpectedError, CheckCancelled, ReadSettle
  <2> QED BY <1>1, <2>1, <2>2, <2>3 DEF GoesOn, ReapGoesOn, CancelGoesOn
<1>12. ASSUME NEW t \in Threads, FanOut(t) \/ DatabaseError(t) PROVE Rows /\ Others
  <2>1. Leave(t) /\ UNCHANGED <<reaping, client>>
    BY <1>12 DEF FanOut, DatabaseError
  <2>2. Others
    BY <2>1 DEF Leave, GoesOn, ReapGoesOn, CancelGoesOn
  <2>3. CASE DatabaseError(t)
    BY <1>1, <2>2, <2>3 DEF DatabaseError
  <2>4. CASE FanOut(t)
    <3>1. row[holding[t]].result /\ holding[t] \in Jobs
      BY <2>4 DEF FanOut, History, FanOutHasResult, BusyHolds
    <3>2. \A i, j \in Jobs : j \in FollowUps[i] /\ j \in FollowUps[holding[t]] => i = holding[t]
      BY <3>1
    <3> QED BY <2>2, <2>4, <3>1, <3>2 DEF FanOut, Passes, IsCreated
  <2> QED BY <1>12, <2>3, <2>4
<1> HIDE DEF Rows, Others
<1>13. Rows /\ Others
  BY <1>3, <1>4, <1>5, <1>6, <1>7, <1>8, <1>9, <1>10, <1>11, <1>12 DEF ClientStep
<1>14. History' /\ Rows
  BY <1>0, <1>13
<1> QED
  BY <1>14 DEF Rows

LEMMA HistoryClaim ==
    ASSUME OneProcess, Invariant, History, NEW t \in Threads, NEW j \in Jobs, Claim(t, j)
    PROVE  History'
<1> USE ConstantsOK DEF Invariant, Typed, TypeOK, History
<1> DEFINE new == [row[j] EXCEPT !.state = "running", !.lease = "live", !.attempts = @ + 1]
<1>1. /\ row' = [row EXCEPT ![j] = new]
      /\ UNCHANGED <<reaping, seen, client>>
      /\ pc' = [pc EXCEPT ![t] = IF j \in Unknown THEN "decided" ELSE "permit"]
      /\ holding' = [holding EXCEPT ![t] = j]
      /\ pc[t] = "idle" /\ proc[Home[t]] = "draining" /\ row[j].state = "queued"
  BY DEF Claim, Claimable
<1>2. new.state = "running" /\ new.result = row[j].result /\ ~row[j].result
  <2>1. ~row[j].result
    BY <1>1 DEF ResultIsFinal, Terminal
  <2>2. new.state = "running" /\ new.result = row[j].result
    BY DEF Row
  <2> QED BY <2>1, <2>2
<1>3. row'[j] = new /\ \A i \in Jobs \ {j} : row'[i] = row[i]
  BY <1>1
<1> HIDE DEF new
<1>4. \A s \in Threads : holding[s] # j
  BY <1>1 DEF BusyHolds, Safe, HeldIsNotQueued
<1>5. \A s \in Threads \ {t} : pc'[s] = pc[s] /\ holding'[s] = holding[s]
  BY <1>1
<1>6. pc'[t] \in {"decided", "permit"} /\ holding'[t] = j
  BY <1>1
<1>7. HeldIsOpen' /\ SeenIsOpen' /\ FanOutHasResult'
  <2>1. \A s \in Threads \ {t} : pc[s] # "idle" => holding[s] \in Jobs \ {j}
    BY <1>4 DEF BusyHolds
  <2> QED BY <1>1, <1>2, <1>3, <1>5, <1>6, <2>1 DEF HeldIsOpen, SeenIsOpen, FanOutHasResult
<1>8. ReapedIsOpen'
  <2>1. \A w \in Workers, i \in Jobs : reaping[w][i] = Absent
    BY <1>1 DEF OneProcess, Safe, ReapingIsCurrent
  <2> QED BY <1>1, <2>1 DEF ReapedIsOpen
<1>9. ResultIsFinal' /\ CancelledExists' /\ FollowUpsHaveAParent'
  BY <1>1, <1>2, <1>3 DEF ResultIsFinal, CancelledExists, FollowUpsHaveAParent
<1> QED
  BY <1>7, <1>8, <1>9

\* The row a refusal makes, whatever has been written since it was read.
LEMMA RequeueWrites ==
    ASSUME NEW old \in Row, NEW current \in Row, old.state # "queued",
           old.attempts = current.attempts, current.attempts > 0
    PROVE  LET new == Written(old, Requeued(old), current) IN
           /\ new.state = "queued" /\ new.attempts = current.attempts - 1
           /\ new.result = current.result
<1>1. old.attempts \in Nat
  BY DEF Row
<1>2. /\ Requeued(old).state = "queued" /\ Requeued(old).result = old.result
      /\ Requeued(old).attempts = old.attempts - 1
  BY <1>1 DEF Requeued, Row
<1> QED
  BY <1>1, <1>2 DEF Written, Column

\* The row a failure makes: its end, or a retry on what is left of its attempts.
LEMMA FailureWrites ==
    ASSUME NEW j \in Jobs, NEW old \in Row, NEW current \in Row, NEW retryable \in BOOLEAN,
           old.state # "queued"
    PROVE  LET new == Written(old, FailedOrRetried(j, old, retryable), current) IN
           /\ new.attempts = current.attempts /\ new.result = current.result
           /\ new.state \in {current.state, "cancelled", "failed", "queued"}
BY DEF Written, Column, FailedOrRetried, Row

\* The row a settlement makes of one that has no result yet.
LEMMA SettlementWrites ==
    ASSUME NEW old \in Row, NEW current \in Row, NEW state \in Terminal,
           ~old.result, ~current.result, old.state # "succeeded"
    PROVE  LET new == Written(old, Settled(old, state), current) IN
           /\ new.attempts = current.attempts
           /\ new.result <=> state = "succeeded"
           /\ new.state \in {current.state, state}
           /\ state = "succeeded" => new.state = "succeeded"
BY DEF Written, Column, Settled, Row

LEMMA HistoryRequeue ==
    ASSUME OneProcess, Invariant, History, NEW t \in Threads, CommitRequeue(t)
    PROVE  /\ History'
           /\ row'[holding[t]].state = "queued"
           /\ row'[holding[t]].attempts = row[holding[t]].attempts - 1
           /\ row[holding[t]].attempts > 0
<1> USE ConstantsOK DEF Invariant, Typed, TypeOK, History
<1> DEFINE j == holding[t]
           new == Written(seen[t], Requeued(seen[t]), row[j])
<1>1. j \in Jobs /\ seen[t] \in Row /\ row[j] \in Row
  BY DEF CommitRequeue, BusyHolds
<1>2. /\ seen[t].state # "queued" /\ seen[t].attempts = row[j].attempts
      /\ row[j].attempts > 0 /\ ~row[j].result
  <2>1. pc[t] = "requeue"
    BY DEF CommitRequeue
  <2>2. seen[t].state # "queued" /\ seen[t].attempts = row[j].attempts
    BY <2>1 DEF Safe, SeenIsHeld
  <2>3. tried[j] < row[j].attempts /\ tried[j] \in Nat /\ row[j].attempts \in Nat
    BY <1>1, <2>1 DEF Safe, AttemptInHand, Row
  <2>4. ~row[j].result
    BY <2>1 DEF HeldIsOpen
  <2> QED BY <2>2, <2>3, <2>4
<1>3. new \in Row
  BY <1>1, RequeuedIsRow, WrittenIsRow
<1>4. new.state = "queued" /\ new.attempts = row[j].attempts - 1 /\ new.result = row[j].result
  BY <1>1, <1>2, RequeueWrites
<1>5. /\ pc[t] \notin {"idle", "fanout"} /\ Leave(t) /\ UNCHANGED <<reaping, client>>
      /\ row' = [row EXCEPT ![holding[t]] = new]
  BY DEF CommitRequeue
<1> HIDE DEF new
<1>6. History'
  BY <1>2, <1>3, <1>4, <1>5, HistoryLetsGo
<1> QED
  BY <1>1, <1>2, <1>4, <1>5, <1>6

LEMMA HistoryFailure ==
    ASSUME OneProcess, Invariant, History, NEW t \in Threads, CommitFailOrRetry(t)
    PROVE  /\ History'
           /\ row'[holding[t]].attempts = row[holding[t]].attempts
           /\ row'[holding[t]].state \in
                {row[holding[t]].state, "cancelled", "failed", "queued"}
<1> USE ConstantsOK DEF Invariant, Typed, TypeOK, History
<1>1. PICK retryable \in BOOLEAN :
        row' = [row EXCEPT ![holding[t]] =
                  Written(seen[t], FailedOrRetried(holding[t], seen[t], retryable),
                          row[holding[t]])]
  BY DEF CommitFailOrRetry
<1> DEFINE j == holding[t]
           new == Written(seen[t], FailedOrRetried(j, seen[t], retryable), row[j])
<1>2. j \in Jobs /\ seen[t] \in Row /\ row[j] \in Row
  BY DEF CommitFailOrRetry, BusyHolds
<1>3. seen[t].state # "queued" /\ ~row[j].result /\ row[j].state # "absent"
  BY <1>2 DEF CommitFailOrRetry, Safe, SeenIsHeld, HeldIsOpen
<1>4. new \in Row
  BY <1>2, FailedOrRetriedIsRow, WrittenIsRow
<1>5. /\ new.attempts = row[j].attempts /\ new.result = row[j].result
      /\ new.state \in {row[j].state, "cancelled", "failed", "queued"}
  BY <1>2, <1>3, FailureWrites
<1>6. /\ pc[t] \notin {"idle", "fanout"} /\ Leave(t) /\ UNCHANGED <<reaping, client>>
      /\ row' = [row EXCEPT ![holding[t]] = new]
  BY <1>1 DEF CommitFailOrRetry
<1> HIDE DEF new
<1>7. History'
  BY <1>3, <1>4, <1>5, <1>6, HistoryLetsGo
<1> QED
  BY <1>2, <1>5, <1>6, <1>7

LEMMA HistorySettle ==
    ASSUME OneProcess, Invariant, Typed', History, NEW t \in Threads, CommitSettle(t)
    PROVE  /\ History'
           /\ row'[holding[t]].attempts = row[holding[t]].attempts
           /\ row'[holding[t]].state \in {row[holding[t]].state} \cup Terminal
           /\ verdict[t] = "succeeded" => row'[holding[t]].state = "succeeded"
<1> USE ConstantsOK DEF Invariant, Typed, TypeOK, History
<1> DEFINE j == holding[t]
           new == Written(seen[t], Settled(seen[t], verdict[t]), row[j])
<1>1. j \in Jobs /\ seen[t] \in Row /\ row[j] \in Row /\ verdict[t] \in Terminal
  BY DEF CommitSettle, BusyHolds, DecidedIsTerminal
<1>2. /\ ~seen[t].result /\ ~row[j].result /\ seen[t].state # "succeeded"
      /\ row[j].state # "absent"
  BY <1>1 DEF CommitSettle, SeenIsOpen, HeldIsOpen
<1>3. new \in Row
  BY <1>1, SettledIsRow, WrittenIsRow DEF States
<1>4. /\ new.attempts = row[j].attempts
      /\ new.result <=> verdict[t] = "succeeded"
      /\ new.state \in {row[j].state, verdict[t]}
      /\ verdict[t] = "succeeded" => new.state = "succeeded"
  BY <1>1, <1>2, SettlementWrites
<1>5. /\ pc[t] \notin {"idle", "fanout"} /\ UNCHANGED <<reaping, client>>
      /\ row' = [row EXCEPT ![holding[t]] = new]
  BY DEF CommitSettle
<1> HIDE DEF new
<1>6. row'[j] = new /\ \A i \in Jobs \ {j} : row'[i] = row[i]
  BY <1>1, <1>5
<1>7. CASE Leave(t)
  <2>1. new.state # "absent" /\ (new.result => new.state \in Terminal)
    BY <1>1, <1>2, <1>4 DEF Terminal
  <2>2. History'
    BY <1>3, <1>5, <1>7, <2>1, HistoryLetsGo
  <2> QED BY <1>1, <1>4, <1>6, <2>2
<1>8. CASE /\ verdict[t] = "succeeded" /\ pc' = [pc EXCEPT ![t] = "fanout"]
           /\ seen' = [seen EXCEPT ![t] = Absent]
           /\ UNCHANGED <<holding, verdict>>
  <2>1. \A s \in Threads \ {t} : pc'[s] = pc[s] /\ seen'[s] = seen[s]
    BY <1>8
  <2>2. \A s \in Threads \ {t} : pc[s] # "idle" => holding[s] \in Jobs \ {j}
    BY <1>1 DEF BusyHolds, Safe, Exclusive
  <2>3. new.result /\ new.state = "succeeded" /\ pc'[t] = "fanout"
    BY <1>4, <1>8
  <2> HIDE DEF j
  <2>4. holding[t] = j /\ holding' = holding
    BY <1>8 DEF j
  <2>5. HeldIsOpen' /\ SeenIsOpen' /\ FanOutHasResult'
    <3>1. HeldIsOpen'
      BY <1>6, <2>1, <2>2, <2>3, <2>4 DEF HeldIsOpen
    <3>2. SeenIsOpen'
      BY <1>6, <2>1, <2>2, <2>3, <2>4 DEF SeenIsOpen
    <3>3. FanOutHasResult'
      BY <1>6, <2>1, <2>2, <2>3, <2>4 DEF FanOutHasResult
    <3> QED BY <3>1, <3>2, <3>3
  <2>6. ReapedIsOpen'
    BY <1>5, NoReapWhileBusy DEF ReapedIsOpen
  <2>7. ResultIsFinal' /\ CancelledExists'
    BY <1>5, <1>6, <2>3 DEF ResultIsFinal, CancelledExists, Terminal
  <2>8. FollowUpsHaveAParent'
    <3>1. j \in Jobs /\ row[j].state # "absent"
      BY <1>1, <1>2 DEF j
    <3>2. \A i \in Jobs : row'[i].state # "absent" => row[i].state # "absent"
      BY <1>6, <3>1
    <3>3. \A i \in Jobs : row[i].result => row'[i].result
      BY <1>6, <2>3
    <3> QED BY <3>2, <3>3 DEF FollowUpsHaveAParent
  <2> QED BY <1>1, <1>4, <1>6, <2>4, <2>5, <2>6, <2>7, <2>8
<1> QED
  BY <1>7, <1>8 DEF CommitSettle

\* A reap writes what it has read to be running: the row is queued again while
\* it has attempts left and given up when it has none.
LEMMA ReapWrites ==
    ASSUME NEW j \in Jobs, NEW old \in Row, NEW current \in Row,
           old.state = "running", old.attempts = current.attempts
    PROVE  LET new == Written(old, Reaped(j, old), current) IN
           /\ new.attempts = current.attempts /\ new.result = current.result
           /\ new.state = IF current.attempts >= MaxAttempts[j] THEN "failed" ELSE "queued"
BY DEF Written, Column, Reaped, Row

LEMMA HistoryReap ==
    ASSUME OneProcess, Invariant, Typed', History, NEW w \in Workers, CommitReap(w)
    PROVE  /\ History'
           /\ \A t \in Threads : holding[t] = NoJob
           /\ \A j \in Jobs :
                \/ row'[j] = row[j]
                \/ /\ row[j].state \in {"running", "cancelled"}
                   /\ row'[j].attempts = row[j].attempts
                   /\ row'[j].state = IF row[j].attempts >= MaxAttempts[j]
                                        THEN "failed" ELSE "queued"
<1> USE ConstantsOK DEF Invariant, Typed, TypeOK, History
<1>1. \A t \in Threads : pc[t] = "idle" /\ holding[t] = NoJob
  BY DEF CommitReap, OneProcess, Safe, BusyInDrain, BusyHolds
<1>2. UNCHANGED <<pc, holding, seen, client>>
  BY DEF CommitReap
<1>3. \A v \in Workers, j \in Jobs : reaping'[v][j] = Absent
  BY DEF CommitReap, OneProcess, NoRows
<1>4. ASSUME NEW j \in Jobs
      PROVE  \/ row'[j] = row[j]
             \/ /\ row[j].state \in {"running", "cancelled"} /\ ~row[j].result
                /\ row'[j].attempts = row[j].attempts /\ row'[j].result = row[j].result
                /\ row'[j].state = IF row[j].attempts >= MaxAttempts[j]
                                     THEN "failed" ELSE "queued"
  <2> DEFINE old == reaping[w][j]
  <2>1. row'[j] = IF old # Absent THEN Written(old, Reaped(j, old), row[j]) ELSE row[j]
    BY DEF CommitReap
  <2>2. CASE old # Absent
    <3>1. /\ old \in Row /\ row[j] \in Row
          /\ old.state = "running" /\ old.attempts = row[j].attempts
      BY <2>2 DEF Safe, ReapingIsCurrent
    <3>2. row[j].state \in {"running", "cancelled"} /\ ~row[j].result
      BY <2>2 DEF ReapedIsOpen
    <3> HIDE DEF old
    <3> QED BY <2>1, <2>2, <3>1, <3>2, ReapWrites
  <2> QED BY <2>1, <2>2
<1>5. HeldIsOpen' /\ SeenIsOpen' /\ FanOutHasResult'
  BY <1>1, <1>2 DEF HeldIsOpen, SeenIsOpen, FanOutHasResult
<1>6. ReapedIsOpen'
  BY <1>3 DEF ReapedIsOpen
<1>7. \A j \in Jobs : /\ row'[j].result => row'[j] = row[j]
                      /\ row[j].result => row'[j].result
                      /\ row'[j].state = "absent" <=> row[j].state = "absent"
  BY <1>4
<1>8. ResultIsFinal' /\ CancelledExists' /\ FollowUpsHaveAParent'
  BY <1>2, <1>7 DEF ResultIsFinal, CancelledExists, FollowUpsHaveAParent
<1> QED
  BY <1>1, <1>4, <1>5, <1>6, <1>8

LEMMA HistoryInit == Init => History
<1> SUFFICES ASSUME Init PROVE History
  OBVIOUS
<1> USE ConstantsOK
<1>1. /\ \A t \in Threads : pc[t] = "idle"
      /\ \A j \in Jobs : row[j] = Absent
      /\ \A w \in Workers, j \in Jobs : reaping[w][j] = Absent
      /\ \A c \in Clients : client[c].job = NoJob
  BY DEF Init, NoRows, NoCancel
<1>2. Absent.state = "absent" /\ ~Absent.result
  BY DEF Absent
<1> QED
  BY <1>1, <1>2
  DEF History, HeldIsOpen, SeenIsOpen, ReapedIsOpen, FanOutHasResult, ResultIsFinal,
      CancelledExists, FollowUpsHaveAParent

\* Every step but a stutter, sorted by what it does to a row.
Quiescent ==
    \/ \E j \in Jobs : Submit(j) \/ ClockStep(j)
    \/ \E c \in Clients : ClientStep(c)
    \/ \E w \in Workers : ReadExpired(w) \/ EndDrain(w) \/ Restart(w) \/ Crash(w)
    \/ \E t \in Threads :
         \/ PermitStep(t) \/ BeatStep(t) \/ Collection(t) \/ CheckCancelled(t)
         \/ ReadSettle(t) \/ FanOut(t) \/ DatabaseError(t)

LEMMA StepsOfNext ==
    ASSUME Next
    PROVE  \/ Quiescent
           \/ \E w \in Workers : CommitReap(w)
           \/ \E t \in Threads :
                \/ CommitRequeue(t) \/ CommitFailOrRetry(t) \/ CommitSettle(t)
                \/ \E j \in Jobs : Claim(t, j)
BY DEF Next, Quiescent, ProcessStep, ThreadStep

LEMMA HistoryNext ==
    ASSUME OneProcess, Invariant, History, [Next]_vars
    PROVE  History'
<1>1. Typed'
  BY TypedNext DEF Invariant
<1>2. CASE UNCHANGED vars
  BY <1>2
  DEF vars, History, HeldIsOpen, SeenIsOpen, ReapedIsOpen, FanOutHasResult, ResultIsFinal,
      CancelledExists, FollowUpsHaveAParent
<1>3. CASE Quiescent
  BY <1>1, <1>3, HistoryQuiet DEF Quiescent
<1>4. CASE Next /\ ~Quiescent
  BY <1>1, <1>4, StepsOfNext, HistoryReap, HistoryRequeue, HistoryFailure, HistorySettle,
     HistoryClaim
<1> QED
  BY <1>2, <1>3, <1>4

LEMMA AlwaysHistory ==
    ASSUME OneProcess PROVE Spec => [](Invariant /\ History)
<1>1. Invariant /\ [Next]_vars => Invariant'
  BY SafeNext
<1>2. Invariant /\ History /\ [Next]_vars => History'
  BY HistoryNext
<1> QED
  BY <1>1, <1>2, SafeInit, HistoryInit, PTL DEF Spec

\* One process: no late reap, retry or settlement ever takes the result from a
\* listing whose follow-ups are queued.
THEOREM FollowUpsHaveAParentWithOneProcess ==
    ASSUME OneProcess PROVE Spec => []FollowUpsHaveAParent
<1>1. Invariant /\ History => FollowUpsHaveAParent
  BY DEF History
<1> QED
  BY <1>1, AlwaysHistory, PTL

-----------------------------------------------------------------------------
(* Finished jobs *)

\* What a reap means to write it has read to be running.
ReapingIsRunning ==
    \A w \in Workers, j \in Jobs :
      reaping[w][j] # Absent => reaping[w][j].state = "running"

LEMMA ReapingInit == Init => ReapingIsRunning
BY DEF Init, ReapingIsRunning, NoRows

LEMMA ReapingNext ==
    ASSUME TypeOK, ReapingIsRunning, [Next]_vars
    PROVE  ReapingIsRunning'
<1> USE DEF ReapingIsRunning
<1>1. CASE UNCHANGED reaping
  BY <1>1
<1>2. ASSUME NEW w \in Workers, ReadExpired(w) PROVE ReapingIsRunning'
  BY <1>2 DEF ReadExpired, Expired, TypeOK
<1>3. ASSUME NEW w \in Workers, CommitReap(w) \/ Crash(w) PROVE ReapingIsRunning'
  BY <1>3 DEF CommitReap, Crash, NoRows, TypeOK
<1>4. CASE UNCHANGED vars
  BY <1>4 DEF vars
<1>5. CASE Next /\ ~UNCHANGED reaping
  <2>1. \E w \in Workers : ReadExpired(w) \/ CommitReap(w) \/ Crash(w)
    BY <1>5
    DEF Next, Submit, ClockStep, ComeDue, Lapse, ClientStep, ReadCancel, CommitCancel,
        ProcessStep, EndDrain, Restart, PermitStep, Grant, Refuse, BeatStep, ReadBeat,
        CommitBeat, ThreadStep, CommitRequeue, Collection, Collected, DomainError,
        UnexpectedError, CommitFailOrRetry, CheckCancelled, ReadSettle, CommitSettle,
        FanOut, DatabaseError, Claim
  <2> QED BY <1>2, <1>3, <2>1
<1> QED
  BY <1>1, <1>4, <1>5

\* What a step leaves of a finished row.
Stays(j) == row'[j].state = row[j].state /\ row'[j].result = row[j].result

LEMMA ClockStays == ASSUME Typed, NEW i \in Jobs, ClockStep(i) PROVE \A j \in Jobs : Stays(j)
<1> USE DEF Typed, TypeOK
<1>1. \A r \in Row : \A new \in {[r EXCEPT !.due = TRUE], [r EXCEPT !.lease = "lapsed"]} :
        new.state = r.state /\ new.result = r.result
  BY DEF Row
<1>2. \A j \in Jobs : \/ row'[j] = row[j]
                      \/ row'[j] \in {[row[j] EXCEPT !.due = TRUE],
                                      [row[j] EXCEPT !.lease = "lapsed"]}
  BY DEF ClockStep, ComeDue, Lapse
<1> QED
  BY <1>1, <1>2 DEF Stays

LEMMA BeatStays == ASSUME Typed, NEW t \in Threads, BeatStep(t) PROVE \A j \in Jobs : Stays(j)
<1> USE DEF Typed, TypeOK
<1>1. \A r \in Row : LET new == [r EXCEPT !.lease = "live"] IN
        new.state = r.state /\ new.result = r.result
  BY DEF Row
<1>2. \A j \in Jobs : row'[j] = row[j] \/ row'[j] = [row[j] EXCEPT !.lease = "live"]
  BY DEF BeatStep, ReadBeat, CommitBeat
<1> QED
  BY <1>1, <1>2 DEF Stays

LEMMA FinishedStep ==
    ASSUME Typed, ReapingIsRunning, Next,
           NEW j \in Jobs, row[j].state \in Terminal, ~Touched(j)
    PROVE  Stays(j)
<1> USE ConstantsOK DEF Typed, TypeOK
<1>1. /\ \A t \in Threads : holding[t] # j
      /\ \A c \in Clients : client[c].job # j
      /\ \A w \in Workers : reaping[w][j].state # "running"
  BY DEF Touched
<1>2. row[j].state \notin {"absent", "queued"}
  BY DEF Terminal
<1>3. CASE row' = row
  BY <1>3 DEF Stays
<1>4. CASE \E i \in Jobs : ClockStep(i)
  BY <1>4, ClockStays
<1>5. CASE \E t \in Threads : BeatStep(t)
  BY <1>5, BeatStays
<1>6. CASE \E i \in Jobs : Submit(i)
  BY <1>2, <1>6 DEF Submit, Stays
<1>7. CASE \E c \in Clients : CommitCancel(c)
  BY <1>1, <1>7 DEF CommitCancel, Stays
<1>8. CASE \E w \in Workers : CommitReap(w)
  <2>1. PICK w \in Workers : CommitReap(w)
    BY <1>8
  <2>2. row'[j] = row[j]
    BY <1>1, <2>1 DEF CommitReap, ReapingIsRunning
  <2> QED BY <2>2 DEF Stays
<1>9. CASE \E t \in Threads, i \in Jobs : Claim(t, i)
  <2>1. PICK t \in Threads, i \in Jobs : Claim(t, i)
    BY <1>9
  <2>2. i # j
    BY <1>2, <2>1 DEF Claim, Claimable
  <2>3. row'[j] = row[j]
    BY <2>1, <2>2 DEF Claim
  <2> QED BY <2>3 DEF Stays
<1>10. CASE \E t \in Threads : CommitRequeue(t) \/ CommitFailOrRetry(t) \/ CommitSettle(t)
  <2>1. PICK t \in Threads : CommitRequeue(t) \/ CommitFailOrRetry(t) \/ CommitSettle(t)
    BY <1>10
  <2>2. row'[j] = row[j]
    BY <1>1, <2>1 DEF CommitRequeue, CommitFailOrRetry, CommitSettle
  <2> QED BY <2>2 DEF Stays
<1>11. CASE \E t \in Threads : FanOut(t)
  BY <1>2, <1>11 DEF FanOut, Stays
<1> QED
  BY <1>3, <1>4, <1>5, <1>6, <1>7, <1>8, <1>9, <1>10, <1>11
  DEF Next, ClientStep, ReadCancel, ProcessStep, ReadExpired, EndDrain, Restart, Crash,
      PermitStep, Grant, Refuse, ThreadStep, Collection, Collected, DomainError,
      UnexpectedError, CheckCancelled, ReadSettle, DatabaseError

\* Any number of processes: a job that is finished and that no thread, no open
\* cancellation and no open reap is acting on keeps its state and its result.
THEOREM FinishedStaysAlways == Spec => FinishedStays
<1>1. ASSUME Typed, ReapingIsRunning, [Next]_vars
      PROVE  [\A j \in Jobs : row[j].state \in Terminal /\ ~Touched(j) =>
                row'[j].state = row[j].state /\ row'[j].result = row[j].result]_vars
  BY <1>1, FinishedStep DEF Stays
<1>2. Typed /\ ReapingIsRunning /\ [Next]_vars => Typed' /\ ReapingIsRunning'
  BY TypedNext, ReapingNext DEF Typed
<1> QED
  BY <1>1, <1>2, TypedInit, ReapingInit, PTL DEF Spec, FinishedStays

-----------------------------------------------------------------------------
(* The queue implements the life of a job *)

Held(j) == \E t \in Threads : holding[t] = j

\* The moves of JobLifecycle, each from what a step does to the row and to the
\* hold on it.
LEMMA MoveStays ==
    ASSUME NEW j \in Jobs, Passes(j), Held(j)' <=> Held(j)
    PROVE  Lifecycle!Move(j)
BY Zenon DEF Passes, Held, Lifecycle!Move, Lifecycle!Became

LEMMA MoveLetGo ==
    ASSUME NEW j \in Jobs, Held(j), ~Held(j)',
           row'[j].state = row[j].state, row'[j].attempts = row[j].attempts
    PROVE  Lifecycle!Move(j)
BY Zenon DEF Held, Lifecycle!Move, Lifecycle!LetGo, Lifecycle!Became

LEMMA MoveAppears ==
    ASSUME NEW j \in Jobs, IsCreated(j), ~Held(j)'
    PROVE  Lifecycle!Move(j)
<1>1. row[j].state = "absent" /\ row'[j].state = "queued" /\ row'[j].attempts = 0
  BY DEF IsCreated, Fresh, Absent
<1> QED
  BY <1>1, Zenon DEF Held, Lifecycle!Move, Lifecycle!Appears, Lifecycle!Became

LEMMA MoveCancelled ==
    ASSUME NEW j \in Jobs, IsCancelled(j), Held(j)' <=> Held(j)
    PROVE  Lifecycle!Move(j)
BY Zenon DEF IsCancelled, Held, Lifecycle!Move, Lifecycle!Cancelled, Lifecycle!Became

LEMMA MoveEnds ==
    ASSUME NEW j \in Jobs, Held(j), row'[j].state \in Terminal,
           row'[j].attempts = row[j].attempts
    PROVE  Lifecycle!Move(j)
<1>1. PICK s \in Lifecycle!Ended : row'[j].state = s
  BY DEF Lifecycle!Ended, Terminal
<1>2. \E h \in BOOLEAN : Held(j)' <=> h
  BY DEF Held
<1>3. PICK h \in BOOLEAN : Held(j)' <=> h
  BY <1>2
<1>4. Lifecycle!Ends(j)
  BY <1>1, <1>3, Zenon DEF Held, Lifecycle!Ends, Lifecycle!Became
<1> QED
  BY <1>4 DEF Lifecycle!Move

LEMMA MovePutBack ==
    ASSUME NEW j \in Jobs, Held(j), ~Held(j)', row'[j].state = "queued",
           NEW n \in Nat, row'[j].attempts = n, n \in {row[j].attempts, row[j].attempts - 1}
    PROVE  Lifecycle!Move(j)
<1>1. n >= 0
  OBVIOUS
<1>2. Lifecycle!PutBack(j)
  BY <1>1, Zenon DEF Held, Lifecycle!PutBack, Lifecycle!Became
<1> QED
  BY <1>2 DEF Lifecycle!Move

LEMMA MoveStarts ==
    ASSUME NEW j \in Jobs, ~Held(j), Held(j)', row[j].state = "queued",
           row[j].attempts < MaxAttempts[j],
           row'[j].state = "running", row'[j].attempts = row[j].attempts + 1
    PROVE  Lifecycle!Move(j)
<1>1. Lifecycle!Starts(j)
  BY Zenon DEF Held, Lifecycle!Starts, Lifecycle!Became
<1> QED
  BY <1>1 DEF Lifecycle!Move

LEMMA MoveReaped ==
    ASSUME NEW j \in Jobs, ~Held(j), ~Held(j)', row[j].state \in {"running", "cancelled"},
           row'[j].attempts = row[j].attempts,
           \/ row[j].attempts < MaxAttempts[j] /\ row'[j].state = "queued"
           \/ row[j].attempts = MaxAttempts[j] /\ row'[j].state = "failed"
    PROVE  Lifecycle!Move(j)
<1>1. Lifecycle!Reaped(j)
  BY Zenon DEF Held, Lifecycle!Reaped, Lifecycle!Became
<1> QED
  BY <1>1 DEF Lifecycle!Move

\* What moves no row between the queue and an executor lets go of a job at most.
LEMMA QuietMoves ==
    ASSUME OneProcess, Invariant, Typed', History, Quiescent, NEW j \in Jobs
    PROVE  Lifecycle!Move(j)
<1> USE ConstantsOK DEF Invariant, Typed, TypeOK
<1>1. Passes(j) \/ IsCancelled(j) \/ IsCreated(j)
  BY HistoryQuiet DEF Quiescent
<1>2. row[j].state = "absent" => ~Held(j)
  BY DEF Held, BusyHolds, Safe, HeldIsNotQueued
<1>3. CASE holding' = holding
  <2>1. Held(j)' <=> Held(j)
    BY <1>3 DEF Held
  <2>2. IsCreated(j) => ~Held(j)'
    BY <1>2, <2>1 DEF IsCreated
  <2> QED BY <1>1, <2>1, <2>2, MoveStays, MoveCancelled, MoveAppears
<1>4. CASE \/ \E w \in Workers : Crash(w)
           \/ \E t \in Threads : FanOut(t) \/ DatabaseError(t)
  <2>1. Held(j)' => Held(j)
    BY <1>4 DEF Crash, FanOut, DatabaseError, Leave, Held
  <2>2. row'[j] = row[j] \/ row[j].state = "absent"
    BY <1>4 DEF Crash, FanOut, DatabaseError
  <2>3. Passes(j) \/ IsCreated(j)
    BY <1>1, <2>2 DEF Passes, IsCancelled
  <2>4. CASE Passes(j)
    <3>1. CASE Held(j)' <=> Held(j)
      BY <2>4, <3>1, MoveStays
    <3>2. CASE Held(j) /\ ~Held(j)'
      BY <2>4, <3>2, MoveLetGo DEF Passes
    <3> QED BY <2>1, <3>1, <3>2
  <2>5. CASE IsCreated(j)
    <3>1. ~Held(j)'
      BY <1>2, <2>1, <2>5 DEF IsCreated
    <3> QED BY <2>5, <3>1, MoveAppears
  <2> QED BY <2>3, <2>4, <2>5
<1> QED
  BY <1>3, <1>4
  DEF Quiescent, Submit, ClockStep, ComeDue, Lapse, ClientStep, ReadCancel, CommitCancel,
      ReadExpired, EndDrain, Restart, PermitStep, Grant, Refuse, BeatStep, ReadBeat,
      CommitBeat, Collection, Collected, DomainError, UnexpectedError, CheckCancelled,
      ReadSettle

\* A reap finds nobody holding a job.
LEMMA ReapMoves ==
    ASSUME OneProcess, Invariant, Typed', History, NEW w \in Workers, CommitReap(w),
           NEW j \in Jobs
    PROVE  Lifecycle!Move(j)
<1> USE ConstantsOK DEF Invariant, Typed, TypeOK
<1>1. ~Held(j) /\ ~Held(j)'
  <2>1. \A t \in Threads : holding[t] = NoJob
    BY HistoryReap
  <2> QED BY <2>1 DEF CommitReap, Held
<1>2. CASE row'[j] = row[j]
  BY <1>1, <1>2, MoveStays DEF Passes
<1>3. CASE /\ row[j].state \in {"running", "cancelled"}
           /\ row'[j].attempts = row[j].attempts
           /\ row'[j].state = IF row[j].attempts >= MaxAttempts[j] THEN "failed" ELSE "queued"
  <2>1. row[j].attempts <= MaxAttempts[j]
    BY DEF Safe, TriesAreCharged
  <2>2. row[j].attempts \in Nat /\ MaxAttempts[j] \in Nat
    BY DEF Row
  <2>3. \/ row[j].attempts < MaxAttempts[j] /\ row'[j].state = "queued"
        \/ row[j].attempts = MaxAttempts[j] /\ row'[j].state = "failed"
    <3>1. CASE row[j].attempts >= MaxAttempts[j]
      <4>1. row[j].attempts = MaxAttempts[j]
        <5>1. \A m, n \in Nat : m <= n /\ m >= n => m = n
          OBVIOUS
        <5> QED BY <2>1, <2>2, <3>1, <5>1, Zenon
      <4> QED BY <1>3, <3>1, <4>1
    <3>2. CASE ~(row[j].attempts >= MaxAttempts[j])
      <4>1. row[j].attempts < MaxAttempts[j]
        BY <2>2, <3>2
      <4> QED BY <1>3, <3>2, <4>1
    <3> QED BY <3>1, <3>2
  <2> QED BY <1>1, <1>3, <2>3, MoveReaped
<1> QED
  BY <1>2, <1>3, HistoryReap

\* A claim starts a job that nobody held.
LEMMA ClaimMoves ==
    ASSUME Invariant, Typed', NEW t \in Threads, NEW i \in Jobs, Claim(t, i), NEW j \in Jobs
    PROVE  Lifecycle!Move(j)
<1> USE ConstantsOK DEF Invariant, Typed, TypeOK
<1>1. row[i].state = "queued" /\ row[i].attempts < MaxAttempts[i]
  BY DEF Claim, Claimable, Safe, QueuedHasAttemptLeft
<1>2. ~Held(i)
  BY <1>1 DEF Held, BusyHolds, Safe, HeldIsNotQueued
<1>3. holding' = [holding EXCEPT ![t] = i] /\ holding[t] = NoJob
  BY DEF Claim, BusyHolds
<1>4. CASE j = i
  <2> DEFINE new == [row[i] EXCEPT !.state = "running", !.lease = "live", !.attempts = @ + 1]
  <2>1. new.state = "running" /\ new.attempts = row[i].attempts + 1
    BY DEF Row
  <2>2. row' = [row EXCEPT ![i] = new]
    BY DEF Claim
  <2> HIDE DEF new
  <2>3. row'[j].state = "running" /\ row'[j].attempts = row[j].attempts + 1
    BY <1>4, <2>1, <2>2
  <2>4. Held(j)'
    BY <1>3, <1>4 DEF Held
  <2> QED BY <1>1, <1>2, <1>4, <2>3, <2>4, MoveStarts
<1>5. CASE j # i
  <2>1. Held(j)' <=> Held(j)
    BY <1>3, <1>5 DEF Held
  <2>2. Passes(j)
    BY <1>5 DEF Claim, Passes
  <2> QED BY <2>1, <2>2, MoveStays
<1> QED
  BY <1>4, <1>5

\* A thread that ends or puts back its job leaves the others as they are.
LEMMA SettlementMoves ==
    ASSUME OneProcess, Invariant, Typed', History, NEW t \in Threads,
           CommitRequeue(t) \/ CommitFailOrRetry(t) \/ CommitSettle(t), NEW j \in Jobs
    PROVE  Lifecycle!Move(j)
<1> USE ConstantsOK DEF Invariant, Typed, TypeOK
<1>1. holding[t] \in Jobs
  BY DEF CommitRequeue, CommitFailOrRetry, CommitSettle, BusyHolds
<1>2. \A s \in Threads \ {t} : holding[s] # holding[t] /\ holding'[s] = holding[s]
  BY <1>1 DEF CommitRequeue, CommitFailOrRetry, CommitSettle, Leave, Safe, Exclusive
<1>3. holding'[t] \in {holding[t], NoJob}
  BY DEF CommitRequeue, CommitFailOrRetry, CommitSettle, Leave
<1>4. CASE j # holding[t]
  <2>1. Held(j)' <=> Held(j)
    BY <1>2, <1>3, <1>4 DEF Held
  <2>2. Passes(j)
    BY <1>4 DEF CommitRequeue, CommitFailOrRetry, CommitSettle, Passes
  <2> QED BY <2>1, <2>2, MoveStays
<1>5. CASE j = holding[t] /\ holding'[t] = NoJob
  <2>1. Held(j) /\ ~Held(j)'
    BY <1>1, <1>2, <1>5 DEF Held
  <2>2. row[j].attempts \in Nat /\ row[j].result \in BOOLEAN
    BY DEF Row
  <2>3. CASE CommitRequeue(t)
    <3>1. /\ row'[j].state = "queued" /\ row'[j].attempts = row[j].attempts - 1
          /\ row[j].attempts > 0
      BY <1>5, <2>3, HistoryRequeue
    <3>2. row[j].attempts - 1 \in Nat
      BY <2>2, <3>1
    <3> QED BY <2>1, <3>1, <3>2, MovePutBack
  <2>4. CASE CommitFailOrRetry(t) \/ CommitSettle(t)
    <3>1. /\ row'[j].attempts = row[j].attempts
          /\ row'[j].state \in {row[j].state, "queued"} \cup Terminal
      BY <1>5, <2>4, HistoryFailure, HistorySettle DEF Terminal
    <3>2. CASE row'[j].state = row[j].state
      BY <2>1, <3>1, <3>2, MoveLetGo
    <3>3. CASE row'[j].state = "queued"
      BY <2>1, <2>2, <3>1, <3>3, MovePutBack
    <3>4. CASE row'[j].state \in Terminal
      BY <2>1, <3>1, <3>4, MoveEnds
    <3> QED BY <3>1, <3>2, <3>3, <3>4
  <2> QED BY <2>3, <2>4
<1>6. CASE j = holding[t] /\ holding'[t] = holding[t]
  <2>1. CommitSettle(t)
    BY <1>1, <1>6 DEF CommitRequeue, CommitFailOrRetry, Leave
  <2>2. Held(j) /\ Held(j)'
    BY <1>6 DEF Held
  <2>3. /\ row'[j].attempts = row[j].attempts /\ row'[j].state \in Terminal
    <3>1. verdict[t] = "succeeded"
      BY <1>1, <1>6, <2>1 DEF CommitSettle, Leave
    <3> QED BY <1>6, <2>1, <3>1, HistorySettle DEF Terminal
  <2> QED BY <2>2, <2>3, MoveEnds
<1> QED
  BY <1>3, <1>4, <1>5, <1>6

\* In the initial state no job exists, and nobody executes one.
LEMMA LifecycleInit == Init => Lifecycle!Init
<1> SUFFICES ASSUME Init PROVE Lifecycle!Init
  OBVIOUS
<1>1. \A j \in Jobs : row[j].state = "absent" /\ row[j].attempts = 0
  BY DEF Init, Absent
<1>2. \A j \in Jobs : (\E t \in Threads : holding[t] = j) = FALSE
  BY ConstantsOK DEF Init
<1> QED
  BY <1>1, <1>2, Zenon DEF Lifecycle!Init

LEMMA LifecycleNext ==
    ASSUME OneProcess, Invariant, History, [Next]_vars
    PROVE  [Lifecycle!Next]_(Lifecycle!vars)
<1>1. Typed'
  BY TypedNext DEF Invariant
<1>2. CASE UNCHANGED vars
  BY <1>2 DEF vars, Lifecycle!vars
<1>3. CASE Next
  <2>1. \A j \in Jobs : Lifecycle!Move(j)
    BY <1>1, <1>3, StepsOfNext, QuietMoves, ReapMoves, ClaimMoves, SettlementMoves
  <2> QED BY <2>1 DEF Lifecycle!Next
<1> QED
  BY <1>2, <1>3

\* One process: whatever sessions interleave, lapse and crash, a job lives the
\* life its users are promised.  A start is charged and takes the job from the
\* queue, an executor ends it or puts it back with at most its attempt refunded,
\* and a reap takes only what nobody executes.
THEOREM LifecycleIsKeptWithOneProcess == ASSUME OneProcess PROVE Spec => LifecycleIsKept
<1>1. Invariant /\ History /\ [Next]_vars => [Lifecycle!Next]_(Lifecycle!vars)
  BY LifecycleNext
<1> QED
  BY <1>1, AlwaysHistory, LifecycleInit, PTL DEF Spec, Lifecycle!Spec, LifecycleIsKept
=============================================================================
