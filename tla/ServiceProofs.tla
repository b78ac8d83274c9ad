---------------------------- MODULE ServiceProofs ---------------------------
(***************************************************************************)
(* Theorems of three components that the service wraps around the job      *)
(* queue: the health a source is given (Health), the key check and the     *)
(* submissions (Intake), and the artifacts and their readers (Collection). *)
(* They share no state, and each keeps its parameters: any number of       *)
(* threads, keys, targets, workers, rows, versions and pages.              *)
(***************************************************************************)
EXTENDS Collection, Intake, Health, FiniteSetTheorems, SequenceTheorems, TLAPS

-----------------------------------------------------------------------------
(* The types of Health *)

HealthRows == [there : BOOLEAN, success : {"never", "recent", "stale"},
               failures : 0..BROKEN_AFTER,
               code : {"none", "limited", "extraction", "target"},
               blocked : BOOLEAN]

LoadedAreHealthRows == loaded \in [Threads -> HealthRows]

HealthTyped == HealthTypeOK /\ LoadedAreHealthRows

LEMMA SaturatedInRange ==
    ASSUME NEW n \in 0..BROKEN_AFTER
    PROVE  /\ Saturated(n + 1) \in 0..BROKEN_AFTER
           /\ \A m \in 0..BROKEN_AFTER : n <= m => Saturated(n + 1) <= Saturated(m + 1)
BY HealthConstantsOK DEF Saturated

LEMMA NoHealthIsRow == NoHealth \in HealthRows
BY HealthConstantsOK DEF NoHealth, HealthRows

LEMMA DecidedIsHealthRow ==
    ASSUME NEW l \in HealthRows, NEW o \in Outcomes
    PROVE  Decided(l, o) \in HealthRows
<1> DEFINE n == Saturated(l.failures + 1)
<1>1. n \in 0..BROKEN_AFTER
  BY SaturatedInRange DEF HealthRows
<1> HIDE DEF n
<1>2. CASE o = "ok"
  <2>1. Decided(l, o) = [l EXCEPT !.there = TRUE, !.success = "recent",
                                  !.failures = 0, !.code = "none"]
    BY <1>2 DEF Decided
  <2>2. 0 \in 0..BROKEN_AFTER
    BY HealthConstantsOK
  <2> QED BY <2>1, <2>2 DEF HealthRows
<1>3. CASE o # "ok"
  <2>1. Decided(l, o) = [l EXCEPT !.there = TRUE, !.failures = n,
                                  !.code = o, !.blocked = (o = "limited")]
    BY <1>3 DEF Decided, n
  <2> QED BY <1>1, <1>3, <2>1 DEF HealthRows, Outcomes
<1> QED BY <1>2, <1>3

\* What Commit makes of the row, column by column.
Merged(columns, new) == [c \in DOMAIN health |-> IF c \in columns THEN new[c] ELSE health[c]]

LEMMA MergedIsHealthRow ==
    ASSUME health \in HealthRows, NEW columns, NEW new \in HealthRows
    PROVE  /\ Merged(columns, new) \in HealthRows
           /\ Merged(columns, new).failures =
                IF "failures" \in columns THEN new.failures ELSE health.failures
BY DEF Merged, HealthRows

LEMMA HealthTypedInit == HealthInit => HealthTyped
BY NoHealthIsRow, HealthConstantsOK DEF HealthInit, HealthTyped, HealthTypeOK, LoadedAreHealthRows, Outcomes, Trends, HealthRows

LEMMA RecordKeepsTypes ==
    ASSUME HealthTyped, NEW t \in Threads, EndRecord(t)
    PROVE  /\ pc' \in [Threads -> {"idle", "loaded"}]
           /\ outcome' \in [Threads -> Outcomes]
           /\ alone' \subseteq Threads
           /\ loaded' \in [Threads -> HealthRows]
BY NoHealthIsRow DEF EndRecord, HealthTyped, HealthTypeOK, LoadedAreHealthRows

LEMMA HealthTypedNext == HealthTyped /\ [HealthNext]_healthVars => HealthTyped'
<1> SUFFICES ASSUME HealthTyped, [HealthNext]_healthVars PROVE HealthTyped'
  OBVIOUS
<1> USE HealthConstantsOK DEF HealthTyped, HealthTypeOK, LoadedAreHealthRows
<1>1. ASSUME NEW n \in Trends, Turn(n) PROVE HealthTyped'
  BY <1>1 DEF Turn
<1>2. CASE GrowStale
  <2>1. health \in HealthRows
    BY DEF HealthRows
  <2>2. [health EXCEPT !.success = "stale"] \in HealthRows
    BY <2>1 DEF HealthRows
  <2> QED BY <1>2, <2>2 DEF GrowStale, HealthRows
<1>3. ASSUME NEW t \in Threads, NEW o \in Outcomes, Reports(t, o) PROVE HealthTyped'
  <2>1. health \in HealthRows
    BY DEF HealthRows
  <2> QED BY <1>3, <2>1 DEF Reports
<1>4. ASSUME NEW t \in Threads, CommitHealth(t) PROVE HealthTyped'
  <2> DEFINE new == Decided(loaded[t], outcome[t])
  <2> DEFINE columns == Changed(loaded[t], outcome[t])
  <2>1. new \in HealthRows /\ health \in HealthRows
    BY DecidedIsHealthRow DEF HealthRows
  <2>2. health' = Merged(columns, new)
    BY <1>4 DEF CommitHealth, Merged
  <2>3. health' \in HealthRows
    BY <2>1, <2>2, MergedIsHealthRow
  <2>4. failed' \in 0..BROKEN_AFTER
    BY <1>4, SaturatedInRange DEF CommitHealth, Noted
  <2> QED BY <1>4, <2>3, <2>4, RecordKeepsTypes DEF CommitHealth, HealthRows
<1>5. ASSUME NEW t \in Threads, CollidingInsert(t) PROVE HealthTyped'
  BY <1>5, RecordKeepsTypes DEF CollidingInsert
<1>6. ASSUME NEW t \in Threads, Refused(t) PROVE HealthTyped'
  BY <1>6, RecordKeepsTypes DEF Refused
<1>7. CASE UNCHANGED healthVars
  BY <1>7 DEF healthVars
<1> QED BY <1>1, <1>2, <1>3, <1>4, <1>5, <1>6, <1>7 DEF HealthNext, Record

\* Every reachable state of health.py's row and of the records is well typed: the
\* count stays between zero and the threshold through stale writes.
THEOREM HealthTyping == HealthSpec => []HealthTypeOK
<1>1. HealthSpec => []HealthTyped
  BY HealthTypedInit, HealthTypedNext, PTL DEF HealthSpec
<1>2. HealthTyped => HealthTypeOK
  BY DEF HealthTyped
<1> QED BY <1>1, <1>2, PTL

-----------------------------------------------------------------------------
(* Failures are earned *)

\* What a record has loaded is earned too, for it may be written back.
LoadedIsEarned == \A t \in Threads : pc[t] = "loaded" => loaded[t].failures <= failed

\* A record that has overlapped no other is the only one, and has the present
\* count: its success leaves nothing behind that could undo it.
AloneIsCurrent ==
    \A t \in alone :
        /\ pc[t] = "loaded"
        /\ loaded[t].failures = health.failures
        /\ \A k \in Threads \ {t} : pc[k] # "loaded"

Earned == HealthTyped /\ FailuresAreEarned /\ LoadedIsEarned /\ AloneIsCurrent

LEMMA EarnedInit == HealthInit => Earned
BY HealthTypedInit, HealthConstantsOK
DEF HealthInit, Earned, FailuresAreEarned, LoadedIsEarned, AloneIsCurrent, NoHealth

LEMMA RecordKeepsAlone ==
    ASSUME Earned, NEW t \in Threads, pc[t] = "loaded", EndRecord(t)
    PROVE  alone' = {} /\ \A k \in Threads : pc'[k] = "loaded" => pc[k] = "loaded" /\ k # t /\ loaded'[k] = loaded[k]
BY DEF Earned, AloneIsCurrent, EndRecord, HealthTyped, HealthTypeOK, LoadedAreHealthRows

LEMMA EarnedNext == Earned /\ [HealthNext]_healthVars => Earned'
<1> SUFFICES ASSUME Earned, [HealthNext]_healthVars PROVE Earned'
  OBVIOUS
<1>0. HealthTyped'
  BY HealthTypedNext DEF Earned
<1> USE HealthConstantsOK DEF Earned, FailuresAreEarned, LoadedIsEarned, AloneIsCurrent
<1>t. /\ health \in HealthRows /\ failed \in 0..BROKEN_AFTER
      /\ loaded \in [Threads -> HealthRows] /\ pc \in [Threads -> {"idle", "loaded"}]
      /\ outcome \in [Threads -> Outcomes] /\ alone \subseteq Threads
  BY DEF HealthTyped, HealthTypeOK, LoadedAreHealthRows, HealthRows
<1>1. ASSUME NEW n \in Trends, Turn(n) PROVE Earned'
  BY <1>0, <1>1 DEF Turn
<1>2. CASE GrowStale
  <2>1. health'.failures = health.failures
    BY <1>2, <1>t DEF GrowStale, HealthRows
  <2> QED BY <1>0, <1>2, <2>1 DEF GrowStale
<1>3. ASSUME NEW t \in Threads, NEW o \in Outcomes, Reports(t, o) PROVE Earned'
  BY <1>0, <1>t, <1>3 DEF Reports
<1>4. ASSUME NEW t \in Threads, CommitHealth(t) PROVE Earned'
  <2> DEFINE l == loaded[t]
             new == Decided(l, outcome[t])
             columns == Changed(l, outcome[t])
  <2>1. l \in HealthRows /\ new \in HealthRows /\ outcome[t] \in Outcomes
    BY <1>t, DecidedIsHealthRow
  <2>2. health'.failures = IF "failures" \in columns THEN new.failures ELSE health.failures
    <3>1. health' = Merged(columns, new)
      BY <1>4 DEF CommitHealth, Merged
    <3> QED BY <1>t, <2>1, <3>1, MergedIsHealthRow
  <2>3. pc[t] = "loaded" /\ EndRecord(t) /\ failed' = Noted(t)
    BY <1>4 DEF CommitHealth
  <2>4. alone' = {} /\ \A k \in Threads :
          pc'[k] = "loaded" => pc[k] = "loaded" /\ k # t /\ loaded'[k] = loaded[k]
    BY <2>3, RecordKeepsAlone
  <2>5. CASE outcome[t] # "ok"
    <3>1. "failures" \in columns /\ new.failures = Saturated(l.failures + 1)
      BY <2>1, <2>5 DEF Changed, Decided, HealthRows
    <3>2. failed' = Saturated(failed + 1) /\ failed <= failed'
      BY <1>t, <2>3, <2>5 DEF Noted, Saturated
    <3>3. l.failures <= failed
      BY <2>3
    <3>4. health'.failures <= failed'
      <4>1. l.failures \in 0..BROKEN_AFTER
        BY <2>1 DEF HealthRows
      <4>2. Saturated(l.failures + 1) <= Saturated(failed + 1)
        BY <1>t, <3>3, <4>1, SaturatedInRange
      <4> QED BY <2>2, <3>1, <3>2, <4>2
    <3>5. ASSUME NEW k \in Threads, pc'[k] = "loaded" PROVE loaded'[k].failures <= failed'
      BY <1>t, <2>4, <3>2, <3>5, <1>0 DEF HealthRows, HealthTyped, HealthTypeOK
    <3> QED BY <1>0, <2>4, <3>4, <3>5
  <2>6. CASE outcome[t] = "ok" /\ t \in alone
    <3>1. new.failures = 0 /\ l.failures = health.failures
      BY <2>1, <2>6 DEF Decided, HealthRows
    <3>2. health'.failures = 0
      <4>1. CASE "failures" \in columns
        BY <2>2, <3>1, <4>1
      <4>2. CASE "failures" \notin columns
        BY <2>1, <2>2, <3>1, <4>2 DEF Changed, HealthRows
      <4> QED BY <4>1, <4>2
    <3>3. failed' = 0
      BY <2>3, <2>6 DEF Noted
    <3>4. \A k \in Threads : pc'[k] # "loaded"
      BY <2>4, <2>6
    <3> QED BY <1>0, <2>4, <3>2, <3>3, <3>4
  <2>7. CASE outcome[t] = "ok" /\ t \notin alone
    <3>1. failed' = failed
      BY <2>3, <2>7 DEF Noted
    <3>2. new.failures = 0
      BY <2>1, <2>7 DEF Decided, HealthRows
    <3>3. health'.failures <= failed'
      BY <1>t, <2>2, <3>1, <3>2
    <3> QED BY <1>0, <2>4, <3>1, <3>3
  <2> QED BY <2>5, <2>6, <2>7
<1>5. ASSUME NEW t \in Threads, CollidingInsert(t) PROVE Earned'
  <2>1. pc[t] = "loaded" /\ EndRecord(t) /\ health' = health /\ failed' = failed
    BY <1>5 DEF CollidingInsert
  <2> QED BY <1>0, <2>1, RecordKeepsAlone
<1>6. ASSUME NEW t \in Threads, Refused(t) PROVE Earned'
  <2>1. pc[t] = "loaded" /\ EndRecord(t) /\ health' = health /\ failed' = failed
    BY <1>6 DEF Refused
  <2> QED BY <1>0, <2>1, RecordKeepsAlone
<1>7. CASE UNCHANGED healthVars
  BY <1>0, <1>7 DEF healthVars
<1> QED BY <1>1, <1>2, <1>3, <1>4, <1>5, <1>6, <1>7 DEF HealthNext, Record

\* However many threads write over one another's columns, the count of failures
\* never exceeds the failures since the last success recorded alone.
THEOREM FailuresAreEarnedByAny == HealthSpec => []FailuresAreEarned
<1>1. HealthSpec => []Earned
  BY EarnedInit, EarnedNext, PTL DEF HealthSpec
<1>2. Earned => FailuresAreEarned
  BY DEF Earned
<1> QED BY <1>1, <1>2, PTL

-----------------------------------------------------------------------------
(* Records of Intake *)

LEMMA IntakeValues ==
    /\ \A s \in {"idle", "key", "stamp", "charge", "check", "queue", "commit", "over", "lost"} :
          s \in Steps
    /\ \A s \in {0, 200, 202, 401, 422, 429, 500} : s \in Statuses
    /\ NoKey \in KeyOrNot /\ NewKey \in KeyRows /\ NoRequest \in SentOrNot
    /\ {} \in Numbers
BY DEF Steps, Statuses, KeyOrNot, SentOrNot, NewKey, KeyRows, Numbers

LEMMA NoClientIsVisit ==
    /\ NoClient \in Visits
    /\ NoClient.n = 1 /\ NoClient.status = 0
    /\ NoClient.flushed = {} /\ NoClient.held = {} /\ NoClient.born = {}
BY IntakeValues DEF NoClient, Visits

\* An answered request keeps what it was and what it flushed.
LEMMA AnsweredIsVisit ==
    ASSUME request \in Visits, NEW s \in Statuses
    PROVE  /\ Answered(s) \in Visits
           /\ Answered(s).pc = "over" /\ Answered(s).status = s /\ Answered(s).n = 1
           /\ Answered(s).late = request.late /\ Answered(s).sent = request.sent
           /\ Answered(s).flushed = request.flushed /\ Answered(s).held = request.held
           /\ Answered(s).born = request.born
<1>1. NoKey \in KeyOrNot /\ NewKey \in KeyRows /\ "over" \in Steps
  BY IntakeValues
<1>2. Answered(s) \in Visits
  BY <1>1 DEF Answered, Visits
<1> QED BY <1>2 DEF Answered, Visits

\* The step that a request goes on to, and what it keeps.
LEMMA GoingOnIsVisit ==
    ASSUME request \in Visits, NEW s \in Steps,
           NEW r, \/ r = [request EXCEPT !.pc = s]
                  \/ r = [request EXCEPT !.pc = s, !.key = NoKey]
                  \/ \E k \in KeyRows : r = [request EXCEPT !.pc = s, !.row = k]
    PROVE  /\ r \in Visits /\ r.pc = s /\ r.status = request.status /\ r.n = request.n
           /\ r.late = request.late /\ r.sent = request.sent
           /\ r.flushed = request.flushed /\ r.held = request.held /\ r.born = request.born
           /\ r.key \in {request.key, NoKey}
<1>1. NoKey \in KeyOrNot
  BY IntakeValues
<1>2. CASE r = [request EXCEPT !.pc = s]
  BY <1>2 DEF Visits
<1>3. CASE r = [request EXCEPT !.pc = s, !.key = NoKey]
  BY <1>1, <1>3 DEF Visits
<1>4. CASE \E k \in KeyRows : r = [request EXCEPT !.pc = s, !.row = k]
  BY <1>4 DEF Visits
<1> QED BY <1>2, <1>3, <1>4

LEMMA SizeIsNat ==
    ASSUME IntakeTypeOK
    PROVE  /\ request.sent.targets \in Seq(Targets \cup {BadTarget})
           /\ Size \in Nat
<1>1. request.sent.targets \in Seq(Targets \cup {BadTarget})
  <2>1. request.sent \in Requests \cup {NoRequest}
    BY DEF IntakeTypeOK, Visits, SentOrNot
  <2>2. CASE request.sent \in Requests
    BY <2>2, IntakeConstantsOK
  <2>3. CASE request.sent = NoRequest
    BY <2>3, EmptySeq DEF NoRequest
  <2> QED BY <2>1, <2>2, <2>3
<1> QED BY <1>1, LenProperties DEF Size

\* While a request queues, what it has flushed and what is held are the targets
\* before the one it is at, and while it commits they are all of them.
Covered ==
    /\ request.pc = "queue" =>
          request.n \in 1..(Size + 1) /\ request.flushed \cup request.held = 1..(request.n - 1)
    /\ request.pc = "commit" => request.flushed \cup request.held = 1..Size
    /\ request.pc \notin {"queue", "commit"} => request.flushed = {}
    /\ request.pc \notin {"queue", "commit", "over", "lost"} =>
          request.held = {} /\ request.n = 1

\* Nothing is born before a commit, and no refusal comes after one.
BornInTheEnd ==
    /\ request.pc # "over" => request.born = {}
    /\ request.pc \notin {"commit", "over", "lost"} => request.status = 0
    /\ request.pc = "commit" => request.status = 202

\* Only a request with a key is verified.
KeyIsPresented == request.pc \in {"stamp", "charge"} => request.key \in Keys

\* The bytes of a withdrawn key say so, and a request that comes late has one.
WithdrawnIsRevoked == \A k \in withdrawn : key[k].revoked
LateHasWithdrawnKey ==
    request.late /\ request.pc = "key" => request.key \in withdrawn

Taken ==
    /\ IntakeTypeOK /\ Covered /\ BornInTheEnd /\ KeyIsPresented
    /\ WithdrawnIsRevoked /\ LateHasWithdrawnKey
    /\ SubmissionIsWhole /\ RevokedIsRefused

-----------------------------------------------------------------------------
(* What enters the queue *)

LEMMA PlusInRange ==
    ASSUME IntakeTypeOK, NEW more \in [Targets -> [BOOLEAN -> Nat]]
    PROVE  Plus(more) \in [Targets -> [BOOLEAN -> 0..MaxEach]]
<1>1. MaxEach \in Nat
  BY IntakeConstantsOK
<1>2. ASSUME NEW t \in Targets, NEW forced \in BOOLEAN
      PROVE  /\ queue[t][forced] \in 0..MaxEach
             /\ more[t][forced] \in Nat
  BY DEF IntakeTypeOK
<1> QED BY <1>1, <1>2 DEF Plus

LEMMA JobsAreCounted ==
    ASSUME IntakeTypeOK, NEW S \in SUBSET (1..Size)
    PROVE  JobsOf(S) \in [Targets -> [BOOLEAN -> Nat]]
<1>1. IsFiniteSet(1..Size)
  BY SizeIsNat, FS_Interval
<1>2. ASSUME NEW t \in Targets
      PROVE  Cardinality({n \in S : request.sent.targets[n] = t}) \in Nat
  <2>1. {n \in S : request.sent.targets[n] = t} \subseteq 1..Size
    OBVIOUS
  <2> QED BY <1>1, <2>1, FS_Subset, FS_CardinalityType
<1> QED BY <1>2 DEF JobsOf

LEMMA PassIsCounted ==
    ASSUME IntakeTypeOK
    PROVE  JobsOfPass \in [Targets -> [BOOLEAN -> Nat]]
<1>1. Len(watch.plan) \in Nat /\ DOMAIN watch.plan = 1..Len(watch.plan)
  <2>1. watch.plan \in Plans
    BY DEF IntakeTypeOK, Watches
  <2>2. watch.plan \in Seq([target : Targets \cup {BadTarget}, jobs : 1..2])
    BY <2>1, EmptySeq, IntakeConstantsOK DEF Plans
  <2> QED BY <2>2, LenProperties
<1>2. IsFiniteSet(DOMAIN watch.plan)
  BY <1>1, FS_Interval
<1>3. ASSUME NEW t \in Targets, NEW forced \in BOOLEAN
      PROVE  Cardinality({n \in DOMAIN watch.plan :
                            /\ watch.plan[n].target = t
                            /\ forced \/ watch.plan[n].jobs = 2}) \in Nat
  <2>1. {n \in DOMAIN watch.plan : /\ watch.plan[n].target = t
                                   /\ forced \/ watch.plan[n].jobs = 2}
          \subseteq DOMAIN watch.plan
    OBVIOUS
  <2> QED BY <1>2, <2>1, FS_Subset, FS_CardinalityType
<1> QED BY <1>3 DEF JobsOfPass

LEMMA TakenInit == IntakeInit => Taken
<1> SUFFICES ASSUME IntakeInit PROVE Taken
  OBVIOUS
<1>m. 0 \in 0..MaxEach
  BY IntakeConstantsOK
<1> USE DEF IntakeInit, NoClient, NewKey
<1>1. IntakeTypeOK
  <2>1. request \in Visits
    BY IntakeValues DEF Visits
  <2>2. watch \in Watches
    BY DEF Watches, Off, Plans
  <2>3. key \in [Keys -> KeyRows]
    BY IntakeValues
  <2>4. queue \in [Targets -> [BOOLEAN -> 0..MaxEach]]
    BY <1>m
  <2> QED BY <2>1, <2>2, <2>3, <2>4 DEF IntakeTypeOK
<1>2. /\ request.pc = "idle" /\ request.flushed = {} /\ request.held = {}
      /\ request.born = {} /\ request.status = 0 /\ request.late = FALSE
  OBVIOUS
<1>3. Covered /\ BornInTheEnd /\ KeyIsPresented /\ LateHasWithdrawnKey
  BY <1>2 DEF Covered, BornInTheEnd, KeyIsPresented, LateHasWithdrawnKey
<1>4. WithdrawnIsRevoked /\ SubmissionIsWhole /\ RevokedIsRefused
  BY <1>2 DEF WithdrawnIsRevoked, SubmissionIsWhole, RevokedIsRefused
<1> QED BY <1>1, <1>3, <1>4 DEF Taken

-----------------------------------------------------------------------------
(* The steps that leave the request alone *)

LEMMA AsideKeepsTaken ==
    ASSUME Taken, IntakeTypeOK', request' = request,
           \/ UNCHANGED <<key, withdrawn>>
           \/ \E k \in Keys : Revoke(k)
    PROVE  Taken'
<1> USE DEF Taken
<1>1. \A k \in withdrawn' : key'[k].revoked
  BY DEF WithdrawnIsRevoked, Revoke, IntakeTypeOK, KeyRows
<1>2. withdrawn \subseteq withdrawn'
  BY DEF Revoke
<1>3. Size' = Size
  BY DEF Size
<1> QED
  BY <1>1, <1>2, <1>3
  DEF Covered, BornInTheEnd, KeyIsPresented, WithdrawnIsRevoked, LateHasWithdrawnKey,
      SubmissionIsWhole, RevokedIsRefused

LEMMA WorkerAside ==
    ASSUME IntakeTypeOK,
           NEW t \in Targets, Age(t) \/ \E forced \in BOOLEAN : Run(t, forced)
    PROVE  IntakeTypeOK' /\ UNCHANGED <<request, key, withdrawn>>
<1>1. CASE Age(t)
  BY <1>1 DEF Age, IntakeTypeOK
<1>2. ASSUME NEW forced \in BOOLEAN, Run(t, forced) PROVE IntakeTypeOK'
  <2>1. queue[t][forced] \in 1..MaxEach
    BY <1>2, IntakeConstantsOK DEF Run, IntakeTypeOK
  <2>2. queue' \in [Targets -> [BOOLEAN -> 0..MaxEach]]
    BY <1>2, <2>1, IntakeConstantsOK DEF Run, IntakeTypeOK
  <2>3. fresh' \subseteq Targets
    BY <1>2 DEF Run, IntakeTypeOK
  <2> QED BY <1>2, <2>2, <2>3 DEF Run, IntakeTypeOK
<1> QED BY <1>1, <1>2 DEF Age, Run

LEMMA WatcherAside ==
    ASSUME IntakeTypeOK,
           \/ \E every \in BOOLEAN : StartWatch(every)
           \/ \E l \in Lists : Edit(l)
           \/ Watch \/ PassFails \/ StopWatch
    PROVE  IntakeTypeOK' /\ UNCHANGED <<request, key, withdrawn>>
<1> USE DEF IntakeTypeOK
<1>p. <<>> \in Plans
  BY DEF Plans
<1>0. Failed \in Watches /\ Off \in Watches
  BY <1>p DEF Failed, Off, Watches
<1>1. ASSUME NEW every \in BOOLEAN, StartWatch(every) PROVE watch' \in Watches
  BY <1>0, <1>1 DEF StartWatch, Watches
<1>2. CASE \E l \in Lists : Edit(l)
  BY <1>2 DEF Edit, Besides
<1>3. CASE ReadList
  BY <1>0, <1>3 DEF ReadList, Besides, Watches, Plans
<1>4. CASE QueueLine
  BY <1>0, <1>4 DEF QueueLine, Besides, Watches
<1>5. CASE CommitPass
  <2>1. Plus(JobsOfPass) \in [Targets -> [BOOLEAN -> 0..MaxEach]]
    BY PassIsCounted, PlusInRange
  <2> QED BY <1>0, <1>p, <1>5, <2>1 DEF CommitPass, Besides, Watches
<1>6. CASE PassFails
  BY <1>0, <1>6 DEF PassFails, Besides
<1>7. CASE Wake
  BY <1>7 DEF Wake, Besides, Watches
<1>8. CASE StopWatch
  BY <1>0, <1>8 DEF StopWatch, Besides
<1> QED BY <1>1, <1>2, <1>3, <1>4, <1>5, <1>6, <1>7, <1>8 DEF Watch, StartWatch, Besides

-----------------------------------------------------------------------------
(* The steps of a request *)

\* What a request step must show of the request once the rest is known.
LEMMA StepKeepsTaken ==
    ASSUME Taken, IntakeTypeOK', withdrawn' = withdrawn,
           \A k \in withdrawn : key[k].revoked => key'[k].revoked,
           Covered', BornInTheEnd', KeyIsPresented', LateHasWithdrawnKey',
           SubmissionIsWhole', RevokedIsRefused'
    PROVE  Taken'
BY DEF Taken, WithdrawnIsRevoked

LEMMA CheckKeepsTaken ==
    ASSUME Taken,
           \/ \E r \in Requests, k \in Keys \cup {NoKey} : Send(r, k)
           \/ NoKeyPresented \/ ReadKey \/ Charge \/ Check \/ Forget
    PROVE  Taken'
<1> USE DEF Taken
<1>0. UNCHANGED <<withdrawn, key, queue, faults, fresh, list, watch, resident>>
  BY DEF Send, NoKeyPresented, ReadKey, Charge, Check, Forget, Elsewhere
<1>t. request \in Visits
  BY DEF IntakeTypeOK
<1>r. request' \in Visits => IntakeTypeOK'
  BY <1>0 DEF IntakeTypeOK
<1>1. CASE \E r \in Requests, k \in Keys \cup {NoKey} : Send(r, k)
  <2>1. PICK r \in Requests, k \in Keys \cup {NoKey} : Send(r, k)
    BY <1>1
  <2> DEFINE late == k \in withdrawn
             step == IF r.via = "enqueue" THEN "check" ELSE "key"
  <2>2. /\ request' = [NoClient EXCEPT !.sent = r, !.key = k, !.late = late, !.pc = step]
        /\ step = "check" => k = NoKey
    BY <2>1 DEF Send
  <2>3. step \in {"check", "key"} /\ late \in BOOLEAN /\ (late => k \in withdrawn)
    OBVIOUS
  <2> HIDE DEF step, late
  <2>4. /\ request'.pc = step /\ request'.key = k /\ request'.late = late /\ request'.n = 1
        /\ request'.flushed = {} /\ request'.held = {} /\ request'.born = {}
        /\ request'.status = 0
    BY <2>2 DEF NoClient
  <2>5. request' \in Visits
    <3>1. r \in SentOrNot /\ k \in KeyOrNot /\ step \in Steps
      BY <2>3, IntakeValues DEF SentOrNot, KeyOrNot
    <3>2. late \in BOOLEAN
      BY <2>3
    <3>3. NoClient \in Visits
      BY NoClientIsVisit
    <3> QED BY <2>2, <3>1, <3>2, <3>3 DEF Visits
  <2>6. request'.late => request'.pc = "key" /\ k \in withdrawn
    BY <2>2, <2>3, <2>4, IntakeConstantsOK DEF IntakeTypeOK
  <2>7. Covered' /\ BornInTheEnd' /\ KeyIsPresented' /\ LateHasWithdrawnKey'
    BY <1>0, <2>3, <2>4, <2>6 DEF Covered, BornInTheEnd, KeyIsPresented, LateHasWithdrawnKey
  <2>8. SubmissionIsWhole' /\ RevokedIsRefused'
    BY <2>3, <2>4, <2>6 DEF SubmissionIsWhole, RevokedIsRefused
  <2> QED BY <1>0, <1>r, <2>5, <2>7, <2>8, StepKeepsTaken
<1>2. CASE NoKeyPresented \/ ReadKey \/ Charge \/ Check
  <2>4. request.pc \in {"key", "charge", "check"}
    BY <1>2 DEF NoKeyPresented, ReadKey, Charge, Check
  <2>9. /\ request.flushed = {} /\ request.held = {} /\ request.born = {}
        /\ request.status = 0 /\ request.n = 1
    BY <2>4 DEF Covered, BornInTheEnd
  <2>a. CASE \E s \in {401, 422, 429} : request' = Answered(s) /\ (request.late => s = 401)
    <3>1. PICK s \in {401, 422, 429} : request' = Answered(s) /\ (request.late => s = 401)
      BY <2>a
    <3>2. s \in Statuses
      BY IntakeValues
    <3> DEFINE r == Answered(s)
    <3>3. /\ r \in Visits /\ r.pc = "over" /\ r.status = s /\ r.late = request.late
          /\ r.flushed = {} /\ r.born = {}
      BY <1>t, <2>9, <3>2, AnsweredIsVisit
    <3>4. request' = r
      BY <3>1
    <3> HIDE DEF r
    <3>5. Covered' /\ BornInTheEnd' /\ KeyIsPresented' /\ LateHasWithdrawnKey'
      BY <3>3, <3>4 DEF Covered, BornInTheEnd, KeyIsPresented, LateHasWithdrawnKey
    <3>6. SubmissionIsWhole' /\ RevokedIsRefused'
      BY <3>1, <3>3, <3>4 DEF SubmissionIsWhole, RevokedIsRefused
    <3> QED BY <1>0, <1>r, <3>3, <3>4, <3>5, <3>6, StepKeepsTaken
  <2>b. CASE /\ ~request.late
             /\ \E s \in {"stamp", "check", "queue"} :
                  /\ \/ request' = [request EXCEPT !.pc = s]
                     \/ request' = [request EXCEPT !.pc = s, !.key = NoKey]
                     \/ /\ request.key \in Keys
                        /\ \E k \in KeyRows : request' = [request EXCEPT !.pc = s, !.row = k]
                  /\ s = "stamp" => request.key \in Keys /\ request'.key = request.key
    <3>1. PICK s \in {"stamp", "check", "queue"} :
                  /\ \/ request' = [request EXCEPT !.pc = s]
                     \/ request' = [request EXCEPT !.pc = s, !.key = NoKey]
                     \/ \E k \in KeyRows : request' = [request EXCEPT !.pc = s, !.row = k]
                  /\ s = "stamp" => request.key \in Keys /\ request'.key = request.key
      BY <2>b
    <3>2. s \in Steps
      BY IntakeValues
    <3>3. /\ request' \in Visits /\ request'.pc = s /\ request'.status = 0 /\ request'.n = 1
          /\ request'.late = request.late /\ request'.sent = request.sent
          /\ request'.flushed = {} /\ request'.held = {} /\ request'.born = {}
      <4>1. PICK r : r = request'
        OBVIOUS
      <4>2. /\ r \in Visits /\ r.pc = s /\ r.status = request.status /\ r.n = request.n
            /\ r.late = request.late /\ r.sent = request.sent
            /\ r.flushed = request.flushed /\ r.held = request.held /\ r.born = request.born
        BY <1>t, <3>1, <3>2, <4>1, GoingOnIsVisit
      <4> QED BY <2>9, <4>1, <4>2
    <3>4. Size' = Size /\ Size \in Nat
      BY <3>3, SizeIsNat DEF Size
    <3>5. Covered'
      <4>1. 1..(request'.n - 1) = {} /\ request'.n \in 1..(Size' + 1)
        BY <3>3, <3>4
      <4> QED BY <3>1, <3>3, <4>1 DEF Covered
    <3>6. BornInTheEnd' /\ KeyIsPresented' /\ LateHasWithdrawnKey'
      BY <2>b, <3>1, <3>3 DEF BornInTheEnd, KeyIsPresented, LateHasWithdrawnKey
    <3>7. SubmissionIsWhole' /\ RevokedIsRefused'
      BY <2>b, <3>1, <3>3 DEF SubmissionIsWhole, RevokedIsRefused
    <3> QED BY <1>0, <1>r, <3>3, <3>5, <3>6, <3>7, StepKeepsTaken
  <2>c. ASSUME request.late
        PROVE  request.pc = "key" /\ request.key \in Keys /\ key[request.key].revoked
    BY <2>4, <2>c DEF RevokedIsRefused, LateHasWithdrawnKey, WithdrawnIsRevoked, IntakeTypeOK
  <2>d. CASE NoKeyPresented
    <3>1. ~request.late
      BY <2>c, <2>d, IntakeConstantsOK DEF NoKeyPresented
    <3>2. CASE request' = Answered(401)
      BY <2>a, <3>2
    <3>3. CASE request' = [request EXCEPT !.pc = "check"]
      BY <2>b, <3>1, <3>3
    <3> QED BY <2>d, <3>2, <3>3 DEF NoKeyPresented
  <2>e. CASE ReadKey
    <3>1. request.key \in Keys
      BY <1>t, <2>e DEF ReadKey, Visits, KeyOrNot
    <3>2. CASE key[request.key].revoked
      BY <2>a, <2>e, <3>2 DEF ReadKey
    <3>3. CASE ~key[request.key].revoked
      <4>1. request' = [request EXCEPT !.pc = "stamp", !.row = key[request.key]]
        BY <2>e, <3>3 DEF ReadKey
      <4>2. key[request.key] \in KeyRows
        BY <3>1 DEF IntakeTypeOK
      <4>3. request'.key = request.key
        BY <1>t, <4>1 DEF Visits
      <4> QED BY <2>b, <2>c, <3>1, <3>3, <4>1, <4>2, <4>3
    <3> QED BY <3>2, <3>3
  <2>f. CASE Charge
    <3>1. ~request.late
      BY <2>c, <2>f DEF Charge
    <3>2. CASE request' = Answered(429)
      BY <2>a, <3>1, <3>2
    <3>3. CASE request' = [request EXCEPT !.pc = "check", !.key = NoKey]
      BY <2>b, <3>1, <3>3
    <3> QED BY <2>f, <3>2, <3>3 DEF Charge
  <2>g. CASE Check
    <3>1. ~request.late
      BY <2>c, <2>g DEF Check
    <3>2. CASE request' = Answered(422)
      BY <2>a, <3>1, <3>2
    <3>3. CASE request' = [request EXCEPT !.pc = "queue"]
      BY <2>b, <3>1, <3>3
    <3> QED BY <2>g, <3>2, <3>3 DEF Check
  <2> QED BY <1>2, <2>d, <2>e, <2>f, <2>g
<1>3. CASE Forget
  <2>1. request' = NoClient
    BY <1>3 DEF Forget
  <2>2. request' \in Visits
    BY <2>1, IntakeValues DEF Visits, NoClient
  <2>3. /\ Covered' /\ BornInTheEnd' /\ KeyIsPresented' /\ LateHasWithdrawnKey'
        /\ SubmissionIsWhole' /\ RevokedIsRefused'
    BY <2>1 DEF Covered, BornInTheEnd, KeyIsPresented, LateHasWithdrawnKey,
                SubmissionIsWhole, RevokedIsRefused, NoClient
  <2> QED BY <1>0, <1>r, <2>2, <2>3, StepKeepsTaken
<1> QED BY <1>1, <1>2, <1>3

LEMMA StampKeepsTaken ==
    ASSUME Taken, StampKey
    PROVE  Taken'
<1> USE DEF Taken
<1>1. request.key \in Keys /\ request.pc = "stamp"
  BY DEF StampKey, KeyIsPresented
<1>2. key' = [key EXCEPT ![request.key] = [@ EXCEPT !.used = TRUE]]
  BY DEF StampKey, Stamped
<1>3. key' \in [Keys -> KeyRows] /\ \A k \in Keys : key'[k].revoked = key[k].revoked
  BY <1>1, <1>2 DEF IntakeTypeOK, Visits, KeyRows
<1>4. /\ request'.pc = "charge" /\ request'.key = request.key
      /\ request'.late = request.late /\ request'.n = request.n
      /\ request'.flushed = request.flushed /\ request'.held = request.held
      /\ request'.born = request.born /\ request'.status = request.status
  BY DEF StampKey, IntakeTypeOK, Visits
<1>5. UNCHANGED <<withdrawn, queue, faults, fresh, list, watch, resident>>
  BY DEF StampKey, Elsewhere
<1>6. IntakeTypeOK'
  <2>1. request' \in Visits
    <3>1. request \in Visits
      BY DEF IntakeTypeOK
    <3>2. "charge" \in Steps /\ NewKey \in KeyRows
      BY IntakeValues
    <3> QED BY <3>1, <3>2, GoingOnIsVisit DEF StampKey
  <2> QED BY <1>3, <1>5, <2>1 DEF IntakeTypeOK
<1>7. ~request.late
  BY <1>1 DEF RevokedIsRefused
<1>8. Covered' /\ BornInTheEnd' /\ KeyIsPresented' /\ SubmissionIsWhole'
  BY <1>1, <1>4 DEF Covered, BornInTheEnd, KeyIsPresented, SubmissionIsWhole
<1>9. LateHasWithdrawnKey' /\ RevokedIsRefused'
  BY <1>4, <1>7 DEF LateHasWithdrawnKey, RevokedIsRefused
<1>10. \A k \in withdrawn : key[k].revoked => key'[k].revoked
  BY <1>3 DEF IntakeTypeOK, Visits
<1> QED BY <1>5, <1>6, <1>8, <1>9, <1>10, StepKeepsTaken

\* What a rolled back session leaves of a request.
LEMMA RaisesKeepsTaken ==
    ASSUME Taken, request.pc = "queue",
           Raises(422) \/ Raises(500),
           UNCHANGED <<Elsewhere, key>>, faults' \in Nat
    PROVE  Taken'
<1> USE DEF Taken
<1>1. Plus(JobsOf({})) \in [Targets -> [BOOLEAN -> 0..MaxEach]]
  BY JobsAreCounted, PlusInRange
<1>2. /\ request' \in Visits
      /\ request'.pc = "over" /\ request'.status \in {422, 500}
      /\ request'.late = request.late /\ request'.born = {} /\ request'.flushed = {}
  <2>1. PICK s \in {422, 500} : request' = [Answered(s) EXCEPT !.born = {}, !.flushed = {}]
    BY DEF Raises, Kept
  <2>2. request \in Visits /\ s \in Statuses /\ {} \in Numbers
    BY IntakeValues DEF IntakeTypeOK
  <2>3. PICK r \in Visits : r = Answered(s) /\ r.pc = "over" /\ r.status = s /\ r.late = request.late
    BY <2>2, AnsweredIsVisit
  <2>4. request' = [r EXCEPT !.born = {}, !.flushed = {}]
    BY <2>1, <2>3
  <2>5. {} \in Numbers
    BY <2>2
  <2>6. /\ request' \in Visits /\ request'.pc = r.pc /\ request'.status = r.status
        /\ request'.late = r.late /\ request'.born = {} /\ request'.flushed = {}
    BY <2>4, <2>5 DEF Visits
  <2> QED BY <2>3, <2>6
<1>3. UNCHANGED <<withdrawn, key, fresh, list, watch, resident>>
  BY DEF Elsewhere
<1>4. queue' \in [Targets -> [BOOLEAN -> 0..MaxEach]]
  BY <1>1 DEF Raises, Kept
<1>5. IntakeTypeOK'
  BY <1>2, <1>3, <1>4 DEF IntakeTypeOK
<1>6. ~request.late
  BY DEF RevokedIsRefused
<1>7. Covered' /\ BornInTheEnd' /\ KeyIsPresented' /\ LateHasWithdrawnKey'
  BY <1>2 DEF Covered, BornInTheEnd, KeyIsPresented, LateHasWithdrawnKey
<1>8. SubmissionIsWhole' /\ RevokedIsRefused'
  BY <1>2, <1>6 DEF SubmissionIsWhole, RevokedIsRefused
<1> QED BY <1>3, <1>5, <1>7, <1>8, StepKeepsTaken

LEMMA QueueKeepsTaken ==
    ASSUME Taken, QueueTarget \/ Accept
    PROVE  Taken'
<1> USE DEF Taken
<1>1. /\ request.pc = "queue" /\ Size \in Nat /\ request.n \in 1..(Size + 1)
      /\ request.flushed \cup request.held = 1..(request.n - 1)
  BY SizeIsNat DEF QueueTarget, Accept, Covered, IntakeTypeOK, Visits
<1>2. ~request.late /\ request.born = {} /\ request.status = 0
  BY <1>1 DEF RevokedIsRefused, BornInTheEnd
<1>3. UNCHANGED <<withdrawn, key, faults, fresh, list, watch, resident>>
  BY DEF QueueTarget, Accept, Elsewhere
<1>4. CASE QueueTarget /\ request.sent.targets[request.n] = BadTarget
  <2>1. Raises(422) /\ UNCHANGED <<Elsewhere, key>>
    BY <1>4 DEF QueueTarget
  <2>2. faults' \in Nat
    BY <1>3 DEF IntakeTypeOK, Visits
  <2> QED BY <1>1, <2>1, <2>2, RaisesKeepsTaken
<1>5. CASE request' = Answered(200) /\ UNCHANGED queue /\ request.flushed = {}
  <2> DEFINE r == Answered(200)
  <2>1. request \in Visits /\ 200 \in Statuses
    BY IntakeValues DEF IntakeTypeOK
  <2>2. /\ r \in Visits /\ r.pc = "over" /\ r.status = 200 /\ r.born = {}
        /\ r.flushed = {} /\ r.late = request.late
    BY <1>2, <1>5, <2>1, AnsweredIsVisit
  <2>3. request' = r
    BY <1>5
  <2> HIDE DEF r
  <2>4. IntakeTypeOK'
    BY <1>3, <1>5, <2>2, <2>3 DEF IntakeTypeOK
  <2>5. Covered' /\ BornInTheEnd' /\ KeyIsPresented' /\ LateHasWithdrawnKey'
    BY <2>2, <2>3 DEF Covered, BornInTheEnd, KeyIsPresented, LateHasWithdrawnKey
  <2>6. SubmissionIsWhole' /\ RevokedIsRefused'
    BY <1>2, <2>2, <2>3 DEF SubmissionIsWhole, RevokedIsRefused
  <2> QED BY <1>3, <2>4, <2>5, <2>6, StepKeepsTaken
<1>6. CASE /\ request.n <= Size /\ UNCHANGED queue
           /\ \/ request' = [request EXCEPT !.n = @ + 1, !.held = @ \cup {request.n}]
              \/ request' = [request EXCEPT !.n = @ + 1, !.flushed = @ \cup {request.n}]
  <2>1. /\ request'.pc = "queue" /\ request'.n = request.n + 1
        /\ request'.late = request.late /\ request'.born = request.born
        /\ request'.status = request.status /\ request'.sent = request.sent
        /\ request'.flushed \cup request'.held
             = (request.flushed \cup request.held) \cup {request.n}
    <3>1. request \in Visits
      BY DEF IntakeTypeOK
    <3>2. CASE request' = [request EXCEPT !.n = @ + 1, !.held = @ \cup {request.n}]
      BY <1>1, <3>1, <3>2 DEF Visits
    <3>3. CASE request' = [request EXCEPT !.n = @ + 1, !.flushed = @ \cup {request.n}]
      BY <1>1, <3>1, <3>3 DEF Visits
    <3> QED BY <1>6, <3>2, <3>3
  <2>2. (1..(request.n - 1)) \cup {request.n} = 1..request.n
    BY <1>1
  <2>3. Size' = Size /\ request'.n - 1 = request.n
    BY <1>1, <2>1 DEF Size
  <2>4. IntakeTypeOK'
    <3>1. request \in Visits /\ request.n \in Nat /\ request.n + 1 \in Nat
      BY <1>1 DEF IntakeTypeOK
    <3>2. /\ request.held \cup {request.n} \in Numbers
          /\ request.flushed \cup {request.n} \in Numbers
      BY <3>1 DEF Visits, Numbers
    <3>3. request' \in Visits
      BY <1>6, <3>1, <3>2 DEF Visits
    <3> QED BY <1>3, <1>6, <3>3 DEF IntakeTypeOK
  <2>5. Covered'
    BY <1>1, <1>6, <2>1, <2>2, <2>3 DEF Covered
  <2>6. BornInTheEnd' /\ KeyIsPresented' /\ LateHasWithdrawnKey'
    BY <1>2, <2>1 DEF BornInTheEnd, KeyIsPresented, LateHasWithdrawnKey
  <2>7. SubmissionIsWhole' /\ RevokedIsRefused'
    BY <1>2, <2>1 DEF SubmissionIsWhole, RevokedIsRefused
  <2> QED BY <1>3, <2>4, <2>5, <2>6, <2>7, StepKeepsTaken
<1>7. CASE Accept
  <2>1. /\ request'.pc = "commit" /\ request'.status = 202
        /\ request'.late = request.late /\ request'.born = request.born
        /\ request'.sent = request.sent
        /\ request'.flushed = request.flushed /\ request'.held = request.held
    BY <1>7 DEF Accept, IntakeTypeOK, Visits
  <2>2. request.n - 1 = Size /\ Size' = Size
    BY <1>1, <1>7, <2>1 DEF Accept, Size
  <2>3. IntakeTypeOK'
    <3>1. request \in Visits /\ "commit" \in Steps /\ 202 \in Statuses
      BY IntakeValues DEF IntakeTypeOK
    <3>2. request' \in Visits
      BY <1>7, <3>1 DEF Accept, Visits
    <3> QED BY <1>3, <1>7, <3>2 DEF Accept, IntakeTypeOK
  <2>4. Covered'
    BY <1>1, <2>1, <2>2 DEF Covered
  <2>5. BornInTheEnd' /\ KeyIsPresented' /\ LateHasWithdrawnKey'
    BY <1>2, <2>1 DEF BornInTheEnd, KeyIsPresented, LateHasWithdrawnKey
  <2>6. SubmissionIsWhole' /\ RevokedIsRefused'
    BY <1>2, <2>1 DEF SubmissionIsWhole, RevokedIsRefused
  <2> QED BY <1>3, <2>3, <2>4, <2>5, <2>6, StepKeepsTaken
<1> QED
  <2>1. ASSUME QueueTarget, request.sent.via = "one" PROVE request.flushed = {}
    <3>1. request.sent \in Requests
      BY <2>1 DEF IntakeTypeOK, Visits, SentOrNot, NoRequest
    <3>2. Size = 1 /\ request.n <= Size
      BY <2>1, <3>1, IntakeConstantsOK DEF Size, QueueTarget
    <3> QED BY <1>1, <3>2
  <2>2. ASSUME QueueTarget, request.sent.targets[request.n] # BadTarget
        PROVE  \/ request' = Answered(200) /\ UNCHANGED queue /\ request.sent.via = "one"
               \/ /\ request.n <= Size /\ UNCHANGED queue
                  /\ \/ request' = [request EXCEPT !.n = @ + 1, !.held = @ \cup {request.n}]
                     \/ request' = [request EXCEPT !.n = @ + 1, !.flushed = @ \cup {request.n}]
    BY <2>2 DEF QueueTarget
  <2> QED BY <1>4, <1>5, <1>6, <1>7, <2>1, <2>2

LEMMA CommitKeepsTaken ==
    ASSUME Taken, CommitRequest \/ CommitFails
    PROVE  Taken'
<1> USE DEF Taken
<1>1. /\ request.pc = "commit" /\ Size \in Nat
      /\ request.flushed \cup request.held = 1..Size
      /\ request.status = 202 /\ request.born = {}
  BY SizeIsNat DEF CommitRequest, CommitFails, Covered, BornInTheEnd
<1>2. ~request.late
  BY <1>1 DEF RevokedIsRefused
<1>3. UNCHANGED <<withdrawn, key, fresh, list, watch, resident>>
  BY DEF CommitRequest, CommitFails, Elsewhere
<1>4. CASE CommitRequest
  <2>1. Plus(JobsOf(request.flushed)) \in [Targets -> [BOOLEAN -> 0..MaxEach]]
    BY <1>1, JobsAreCounted, PlusInRange
  <2>2. /\ request'.pc = "over" /\ request'.status = 202
        /\ request'.late = request.late /\ request'.sent = request.sent
        /\ request'.born = request.flushed /\ request'.flushed = {}
        /\ request'.held = request.held
    BY <1>1, <1>4 DEF CommitRequest, IntakeTypeOK, Visits
  <2>3. IntakeTypeOK'
    <3>1. request \in Visits /\ "over" \in Steps /\ {} \in Numbers
      BY IntakeValues DEF IntakeTypeOK
    <3>2. request' \in Visits
      BY <1>4, <3>1 DEF CommitRequest, Visits
    <3> QED BY <1>3, <1>4, <2>1, <3>2 DEF CommitRequest, IntakeTypeOK
  <2>4. Covered' /\ BornInTheEnd' /\ KeyIsPresented' /\ LateHasWithdrawnKey'
    BY <2>2 DEF Covered, BornInTheEnd, KeyIsPresented, LateHasWithdrawnKey
  <2>5. Size' = Size
    BY <2>2 DEF Size
  <2>6. SubmissionIsWhole' /\ RevokedIsRefused'
    BY <1>1, <1>2, <2>2, <2>5 DEF SubmissionIsWhole, RevokedIsRefused
  <2> QED BY <1>3, <2>3, <2>4, <2>6, StepKeepsTaken
<1>5. CASE CommitFails
  <2>1. /\ request'.pc = "lost" /\ request'.status = 202
        /\ request'.late = request.late /\ request'.born = {} /\ request'.flushed = {}
    BY <1>1, <1>5 DEF CommitFails, IntakeTypeOK, Visits
  <2>2. IntakeTypeOK'
    <3>1. request \in Visits /\ "lost" \in Steps /\ {} \in Numbers
      BY IntakeValues DEF IntakeTypeOK
    <3>2. request' \in Visits
      BY <1>5, <3>1 DEF CommitFails, Visits
    <3> QED BY <1>3, <1>5, <3>2 DEF CommitFails, IntakeTypeOK
  <2>3. Covered' /\ BornInTheEnd' /\ KeyIsPresented' /\ LateHasWithdrawnKey'
    BY <2>1 DEF Covered, BornInTheEnd, KeyIsPresented, LateHasWithdrawnKey
  <2>4. SubmissionIsWhole' /\ RevokedIsRefused'
    BY <1>2, <2>1 DEF SubmissionIsWhole, RevokedIsRefused
  <2> QED BY <1>3, <2>2, <2>3, <2>4, StepKeepsTaken
<1> QED BY <1>4, <1>5

-----------------------------------------------------------------------------
(* Intake *)

LEMMA TakenNext == Taken /\ [IntakeNext]_intakeVars => Taken'
<1> SUFFICES ASSUME Taken, [IntakeNext]_intakeVars PROVE Taken'
  OBVIOUS
<1>0. IntakeTypeOK
  BY DEF Taken
<1>1. CASE \E r \in Requests, k \in Keys \cup {NoKey} : Send(r, k)
  BY <1>1, CheckKeepsTaken
<1>2. CASE NoKeyPresented \/ ReadKey \/ Charge \/ Check \/ Forget
  BY <1>2, CheckKeepsTaken
<1>3. CASE StampKey
  BY <1>3, StampKeepsTaken
<1>4. CASE QueueTarget \/ Accept
  BY <1>4, QueueKeepsTaken
<1>5. CASE FlushFails
  <2>1. faults' \in Nat
    BY <1>0, <1>5 DEF FlushFails, IntakeTypeOK, Visits
  <2> QED BY <1>5, <2>1, RaisesKeepsTaken DEF FlushFails
<1>6. CASE CommitRequest \/ CommitFails
  BY <1>6, CommitKeepsTaken
<1>7. CASE \E k \in Keys : Revoke(k)
  <2>1. IntakeTypeOK' /\ request' = request
    <3>1. PICK k \in Keys : Revoke(k)
      BY <1>7
    <3>2. [key[k] EXCEPT !.revoked = TRUE] \in KeyRows
      BY <1>0 DEF IntakeTypeOK, KeyRows
    <3>3. key' = [key EXCEPT ![k] = [key[k] EXCEPT !.revoked = TRUE]]
      BY <3>1 DEF Revoke
    <3>4. key' \in [Keys -> KeyRows]
      BY <1>0, <3>2, <3>3 DEF IntakeTypeOK
    <3> QED BY <1>0, <3>1, <3>4 DEF Revoke, IntakeTypeOK
  <2> QED BY <1>7, <2>1, AsideKeepsTaken
<1>8. CASE \E t \in Targets : Age(t) \/ \E forced \in BOOLEAN : Run(t, forced)
  <2>1. IntakeTypeOK' /\ UNCHANGED <<request, key, withdrawn>>
    BY <1>0, <1>8, WorkerAside
  <2> QED BY <2>1, AsideKeepsTaken
<1>9. CASE \/ \E every \in BOOLEAN : StartWatch(every)
           \/ \E l \in Lists : Edit(l)
           \/ Watch \/ PassFails \/ StopWatch
  <2>1. IntakeTypeOK' /\ UNCHANGED <<request, key, withdrawn>>
    BY <1>0, <1>9, WatcherAside
  <2> QED BY <2>1, AsideKeepsTaken
<1>10. CASE UNCHANGED intakeVars
  <2>1. IntakeTypeOK' /\ UNCHANGED <<request, key, withdrawn>>
    BY <1>0, <1>10 DEF intakeVars, IntakeTypeOK, Visits
  <2> QED BY <2>1, AsideKeepsTaken
<1> QED
  BY <1>1, <1>2, <1>3, <1>4, <1>5, <1>6, <1>7, <1>8, <1>9, <1>10 DEF IntakeNext, Serve

LEMMA AlwaysTaken == IntakeSpec => []Taken
BY TakenInit, TakenNext, PTL DEF IntakeSpec

\* Every reachable state of the key check, the submissions and the watcher is well
\* typed: no job count leaves its range.
THEOREM IntakeTyping == IntakeSpec => []IntakeTypeOK
<1>1. Taken => IntakeTypeOK
  BY DEF Taken
<1> QED BY <1>1, AlwaysTaken, PTL

\* Whatever fails in the middle of it, a submission of any size queues all it
\* names that is not held already, or nothing.
THEOREM SubmissionIsWholeForAny == IntakeSpec => []SubmissionIsWhole
<1>1. Taken => SubmissionIsWhole
  BY DEF Taken
<1> QED BY <1>1, AlwaysTaken, PTL

\* With any number of keys, requests and revocations, the stamp of a request that
\* was verified earlier takes no revocation back.
THEOREM RevokedIsRefusedForAny == IntakeSpec => []RevokedIsRefused
<1>1. Taken => RevokedIsRefused
  BY DEF Taken
<1> QED BY <1>1, AlwaysTaken, PTL

-----------------------------------------------------------------------------
(* The invariant of Collection *)

\* A row is of its own key, and that of a kind without parts holds what was fetched.
Fits(k, d) == d \in Payloads /\ (Parts[k] = <<>> => d \in Produced)
RowsAreOwn ==
    \A i \in Recorded : /\ row[i].key = Fingerprint(row[i].kind, row[i].origin)
                        /\ Fits(row[i].kind, row[i].digest)

\* What a back-fill is about to write is the version that produced the row.
NamingIsTrue == \A e \in naming : e[1] \in Recorded /\ e[2] = row[e[1]].origin

\* A composite has parts that have none, and while one of them is collected it is
\* the first of those left.
Nested(r) ==
    /\ r.pc # "idle" => r.asked \in Kinds /\ r.kind \in Kinds
    /\ r.kind # r.asked => Parts[r.kind] = <<>>
    /\ r.kind # r.asked \/ r.pc = "part" => Parts[r.asked] # <<>>
    /\ r.pc \notin {"idle", "part", "lost"} /\ r.kind # r.asked => r.todo # <<>>
    /\ \A n \in DOMAIN r.todo : Parts[r.todo[n]] = <<>>
    /\ r.pc \in {"look", "read", "record", "commit"} => Fits(r.kind, r.digest)
    /\ r.pc = "fetch" => Parts[r.kind] = <<>>
WorkIsNested == \A w \in Workers : Nested(worker[w])

\* A file that was seen is there to be read, or a prune has unlinked it since.
Sees(r) == r.pc \in {"read", "reread"} => r.digest \in file \/ r.raced
SeenIsThere == Sees(client) /\ \A w \in Workers : Sees(worker[w])

\* Some version that was not retracted has produced d as k.
Good(k, d) == \E i \in Recorded : /\ row[i].digest = d /\ row[i].kind = k
                                  /\ row[i].origin \notin Retracted[k]

\* What a client is about to be handed is good, and past a look at the file of a
\* result there is a row to judge it by.
HandedIsGood ==
    /\ client.pc \in {"look", "read", "reread", "bytes"} => Good(client.kind, client.digest)
    /\ client.pc = "gate" =>
          \E i \in Recorded : row[i].digest = client.digest /\ row[i].kind = client.kind
    /\ client.pc # "answered" => client.status = 0
    /\ client.pc = "walk" => client.digest = NoDigest

\* Every page continues the order of the one before, and what has been there all
\* along is on a page or behind the last row shown.
Shown == {client.seen[n] : n \in DOMAIN client.seen}
WalkIsOrdered ==
    /\ client.pc \notin {"walk", "answered"} => client.seen = <<>> /\ client.must = {}
    /\ Shown \subseteq Recorded
    /\ \A m, n \in DOMAIN client.seen : m < n => Precedes(client.seen[m], client.seen[n])
    /\ client.must \subseteq there
    /\ client.pc = "walk" =>
          \A i \in client.must \ Shown :
             client.seen = <<>> \/ Behind(i, client.seen[Len(client.seen)])

Collected ==
    /\ CollectionTypeOK /\ RowsAreOwn /\ NamingIsTrue /\ WorkIsNested /\ SeenIsThere
    /\ HandedIsGood /\ WalkIsOrdered
    /\ WithdrawnIsNotServed /\ WalkIsExact /\ FileErrorsNeedAnUnlink /\ VersionsAreTrue
-----------------------------------------------------------------------------
(* Records and rows *)

LEMMA CollectionValues ==
    /\ \A s \in {"idle", "lookup", "look", "read", "miss", "fetch", "part", "record", "commit",
                 "lost"} : s \in WorkerSteps
    /\ \A s \in {"idle", "look", "read", "reread", "bytes", "gate", "walk", "answered"} :
          s \in ClientSteps
    /\ \A s \in {0, 200, 202, 404, 409, 410, 500} : s \in Codes
    /\ NoKind \in KindOrNot /\ Kinds \subseteq KindOrNot
    /\ NoDigest \in PayloadOrNot /\ Payloads \subseteq PayloadOrNot
    /\ {} \in Bundles
BY DEF WorkerSteps, ClientSteps, Codes, KindOrNot, PayloadOrNot, Bundles

LEMMA VersionsAreKnown ==
    ASSUME NEW k \in Kinds
    PROVE  /\ Current[k] \in Versions /\ Candidates(k) \subseteq Versions
           /\ Current[k] \notin Retracted[k]
BY CollectionConstantsOK DEF Versions, Candidates

LEMMA ArtifactIsRow ==
    ASSUME NEW k \in Kinds, NEW v \in Versions, NEW c \in Versions \cup {Unrecorded},
           NEW d \in Payloads, NEW at \in Nat, NEW new, new = Artifact(k, v, c, d, at)
    PROVE  /\ new \in Rows /\ new # NoRow
           /\ new.kind = k /\ new.key = Fingerprint(k, v) /\ new.origin = v
           /\ new.version = c /\ new.digest = d /\ new.at = at
<1>1. NoKind # k
  BY CollectionConstantsOK
<1> QED BY <1>1 DEF Artifact, Rows, NoRow, Fingerprint

LEMMA RowsAreUsed ==
    ASSUME CollectionTypeOK
    PROVE  /\ NoRow \notin Rows
           /\ \A i \in Recorded : i \in Ids /\ row[i] \in Rows
<1>1. NoRow \notin Rows
  BY CollectionConstantsOK DEF NoRow, Artifact, Rows
<1> QED BY <1>1 DEF CollectionTypeOK, Recorded

\* A row that is found under the current key was produced by the current version.
LEMMA FreshIsCurrent ==
    ASSUME Collected, NEW k \in Kinds, NEW i \in FreshRows(k)
    PROVE  /\ i \in Recorded /\ row[i].kind = k /\ row[i].origin = Current[k]
           /\ Fits(k, row[i].digest) /\ Good(k, row[i].digest)
<1> USE DEF Collected
<1>1. i \in there /\ row[i].key = Fingerprint(k, Current[k])
  BY DEF FreshRows, Newest
<1>2. i \in Recorded /\ row[i] \in Rows
  BY <1>1, RowsAreUsed DEF CollectionTypeOK
<1>3. row[i].key = Fingerprint(row[i].kind, row[i].origin) /\ Fits(row[i].kind, row[i].digest)
  BY <1>2 DEF RowsAreOwn
<1>4. row[i].kind = k /\ row[i].origin = Current[k]
  BY <1>1, <1>3 DEF Fingerprint
<1> QED BY <1>2, <1>3, <1>4, VersionsAreKnown DEF Good

LEMMA CollectedInit == CollectionInit => Collected
<1> SUFFICES ASSUME CollectionInit PROVE Collected
  OBVIOUS
<1>1. ASSUME NEW i \in Recorded
      PROVE  /\ i \in Ids /\ row[i] \in Rows /\ row[i].key = Fingerprint(row[i].kind, row[i].origin)
             /\ Fits(row[i].kind, row[i].digest) /\ row[i].version = Unrecorded
  <2>0. PICK k \in Kinds : Parts[k] = <<>> /\ \E v \in Candidates(k) : \E d \in Yields[k][v] :
              row[i] = Artifact(k, v, Unrecorded, d, 0)
    BY CollectionConstantsOK DEF CollectionInit, Recorded
  <2>1. PICK v, d : /\ v \in Candidates(k) /\ d \in Yields[k][v]
                    /\ row[i] = Artifact(k, v, Unrecorded, d, 0)
    BY <2>0
  <2>2. v \in Versions /\ d \in Produced /\ d \in Payloads
    BY <2>1 DEF Versions, Produced, Payloads
  <2>5. PICK new : new = Artifact(k, v, Unrecorded, d, 0)
    OBVIOUS
  <2>4. Unrecorded \in Versions \cup {Unrecorded} /\ 0 \in Nat
    OBVIOUS
  <2>3. /\ new \in Rows /\ new.kind = k /\ new.key = Fingerprint(k, v) /\ new.origin = v
        /\ new.digest = d /\ new.version = Unrecorded
    BY <2>2, <2>4, <2>5, ArtifactIsRow
  <2> QED BY <2>0, <2>1, <2>2, <2>3, <2>5 DEF Fits, Recorded
<1>2. CollectionTypeOK
  <2>1. row \in [Ids -> Rows \cup {NoRow}]
    <3>1. row = [i \in Ids |-> row[i]]
      BY DEF CollectionInit
    <3>2. \A i \in Ids : row[i] \in Rows \cup {NoRow}
      BY <1>1 DEF Recorded
    <3> QED BY <3>1, <3>2
  <2>2. Idle \in Executions
    BY CollectionValues, EmptySeq DEF Idle, Executions
  <2>3. Quiet \in Readings
    BY CollectionValues, EmptySeq DEF Quiet, Readings
  <2>4. file \subseteq Payloads
    BY <1>1 DEF CollectionInit, Digests, Fits
  <2> QED BY <2>1, <2>2, <2>3, <2>4 DEF CollectionInit, CollectionTypeOK
<1>3. RowsAreOwn /\ VersionsAreTrue
  BY <1>1 DEF RowsAreOwn, VersionsAreTrue
<1>4. NamingIsTrue /\ WorkIsNested
  BY DEF CollectionInit, NamingIsTrue, WorkIsNested, Nested, Idle
<1>5. SeenIsThere /\ FileErrorsNeedAnUnlink
  BY DEF CollectionInit, SeenIsThere, Sees, FileErrorsNeedAnUnlink, Idle, Quiet
<1>6. HandedIsGood /\ WithdrawnIsNotServed
  BY DEF CollectionInit, HandedIsGood, WithdrawnIsNotServed, Quiet
<1>7. WalkIsOrdered /\ WalkIsExact
  BY DEF CollectionInit, WalkIsOrdered, WalkIsExact, Shown, Quiet
<1> QED BY <1>2, <1>3, <1>4, <1>5, <1>6, <1>7 DEF Collected

-----------------------------------------------------------------------------
(* What may change of the index without a client's noticing *)

\* Recorded rows stay what they are, except that a version may be named.
RowsKept ==
    \A i \in Recorded :
        /\ i \in Recorded' /\ row'[i].kind = row[i].kind /\ row'[i].key = row[i].key
        /\ row'[i].origin = row[i].origin /\ row'[i].digest = row[i].digest
        /\ row'[i].at = row[i].at

\* What a step of others leaves of the request of a client.
ClientKept ==
    /\ client'.pc = client.pc /\ client'.kind = client.kind /\ client'.digest = client.digest
    /\ client'.status = client.status /\ client'.seen = client.seen

LEMMA GoodStaysGood ==
    ASSUME RowsKept, NEW k, NEW d, Good(k, d)
    PROVE  Good(k, d)'
BY DEF RowsKept, Good

LEMMA ClientIsLeft ==
    ASSUME Collected, RowsKept, ClientKept,
           client'.must \subseteq client.must, client'.must \subseteq there'
    PROVE  HandedIsGood' /\ WalkIsOrdered' /\ WithdrawnIsNotServed' /\ WalkIsExact'
<1> USE DEF Collected, ClientKept
<1>0. PICK k, d : k = client.kind /\ d = client.digest /\ k = client'.kind /\ d = client'.digest
  OBVIOUS
<1>g. Good(k, d) => Good(k, d)'
  BY GoodStaysGood
<1>1. HandedIsGood'
  <2>1. client.pc \in {"look", "read", "reread", "bytes"} => Good(k, d)
    BY <1>0 DEF HandedIsGood
  <2>2. client'.pc = "gate" =>
          \E i \in Recorded' : row'[i].digest = client'.digest /\ row'[i].kind = client'.kind
    BY DEF HandedIsGood, RowsKept
  <2>3. Good(client.kind, client.digest)' <=> Good(k, d)'
    BY <1>0 DEF Good
  <2>4. /\ client'.pc # "answered" => client'.status = 0
        /\ client'.pc = "walk" => client'.digest = NoDigest
    BY DEF HandedIsGood
  <2> QED BY <1>g, <2>1, <2>2, <2>3, <2>4 DEF HandedIsGood
<1>2. WithdrawnIsNotServed'
  <2>1. client.status = 200 /\ client.digest # NoDigest => Good(k, d)
    BY <1>0 DEF WithdrawnIsNotServed, Good
  <2> QED BY <1>0, <1>g, <2>1 DEF WithdrawnIsNotServed, Good
<1>3. Shown' = Shown
  BY DEF Shown
<1>4. \A n \in DOMAIN client.seen : client.seen[n] \in Recorded
  BY DEF WalkIsOrdered, Shown
<1>5. WalkIsOrdered'
  <2>1. ASSUME NEW l \in DOMAIN client.seen, NEW n \in DOMAIN client.seen, l < n
        PROVE  Precedes(client.seen[l], client.seen[n])'
    <3>1. PICK i, j : i = client.seen[l] /\ j = client.seen[n]
      OBVIOUS
    <3>2. i \in Recorded /\ j \in Recorded /\ Precedes(i, j)
      BY <1>4, <2>1, <3>1 DEF WalkIsOrdered
    <3>3. row'[i].at = row[i].at /\ row'[j].at = row[j].at
      BY <3>2 DEF RowsKept
    <3>4. i = client'.seen[l] /\ j = client'.seen[n]
      BY <3>1
    <3> QED BY <3>2, <3>3, <3>4 DEF Precedes
  <2>2. Shown' \subseteq Recorded'
    BY <1>3 DEF WalkIsOrdered, RowsKept
  <2>3. client'.pc \notin {"walk", "answered"} => client'.seen = <<>> /\ client'.must = {}
    BY DEF WalkIsOrdered
  <2>4. ASSUME client'.pc = "walk", NEW i \in client'.must \ Shown', client'.seen # <<>>
        PROVE  Behind(i, client.seen[Len(client.seen)])'
    <3>1. client.seen \in Seq(Ids)
      BY DEF CollectionTypeOK, Readings
    <3>2. Len(client.seen) \in DOMAIN client.seen
      BY <2>4, <3>1, EmptySeq, LenProperties
    <3>3. PICK last : last = client.seen[Len(client.seen)] /\ last = client'.seen[Len(client'.seen)]
      OBVIOUS
    <3>4. last \in Recorded /\ i \in Recorded
      BY <1>4, <2>4, <3>2, <3>3 DEF WalkIsOrdered, CollectionTypeOK
    <3>5. Behind(i, last)
      BY <1>3, <2>4, <3>3 DEF WalkIsOrdered
    <3>6. row'[i].at = row[i].at /\ row'[last].at = row[last].at
      BY <3>4 DEF RowsKept
    <3> QED BY <3>3, <3>5, <3>6 DEF Behind
  <2>5. \A l, n \in DOMAIN client'.seen : l < n => Precedes(client.seen[l], client.seen[n])'
    BY <2>1
  <2>6. client'.must \subseteq there'
    OBVIOUS
  <2> QED BY <2>2, <2>3, <2>4, <2>5, <2>6 DEF WalkIsOrdered
<1>6. WalkIsExact'
  BY DEF WalkIsExact
<1> QED BY <1>1, <1>2, <1>5, <1>6

-----------------------------------------------------------------------------
(* The steps of a worker *)

LEMMA WorkerMoves ==
    ASSUME Collected, NEW w \in Workers, NEW to \in Executions,
           worker' = [worker EXCEPT ![w] = to],
           Nested(to), to.pc = "read" => to.digest \in file \/ to.raced,
           to.pc = "lost" => to.raced,
           file \subseteq file', file' \subseteq Payloads, UNCHANGED <<World, index>>
    PROVE  Collected'
<1> USE DEF Collected, World, index
<1>1. CollectionTypeOK'
  BY DEF CollectionTypeOK, Recorded
<1>2. \A v \in Workers : worker'[v] = IF v = w THEN to ELSE worker[v]
  BY DEF CollectionTypeOK
<1>3. RowsAreOwn' /\ NamingIsTrue' /\ VersionsAreTrue'
  BY DEF RowsAreOwn, NamingIsTrue, VersionsAreTrue, Recorded, Fits
<1>4. WorkIsNested'
  BY <1>2 DEF WorkIsNested, Nested, Fits
<1>5. SeenIsThere'
  <2>1. to.pc # "reread"
    BY DEF Executions, WorkerSteps
  <2> QED BY <1>2, <2>1 DEF SeenIsThere, Sees
<1>6. FileErrorsNeedAnUnlink'
  BY <1>2 DEF FileErrorsNeedAnUnlink
<1>7. HandedIsGood' /\ WalkIsOrdered' /\ WithdrawnIsNotServed' /\ WalkIsExact'
  <2>1. RowsKept /\ ClientKept
    BY DEF RowsKept, ClientKept, Recorded
  <2>2. client'.must \subseteq client.must /\ client'.must \subseteq there'
    BY DEF WalkIsOrdered
  <2> QED BY <2>1, <2>2, ClientIsLeft
<1> QED BY <1>1, <1>3, <1>4, <1>5, <1>6, <1>7

LEMMA IdleIsSound ==
    Idle \in Executions /\ Nested(Idle) /\ Idle.pc \notin {"read", "lost"}
<1>1. Idle \in Executions
  BY CollectionValues, EmptySeq DEF Idle, Executions
<1> QED BY <1>1 DEF Idle, Nested

\* The records an execution becomes in one step.
LEMMA StepIsExecution ==
    ASSUME NEW r \in Executions, NEW s \in WorkerSteps
    PROVE  LET to == [r EXCEPT !.pc = s] IN
           /\ to \in Executions /\ to.pc = s
           /\ to.asked = r.asked /\ to.kind = r.kind /\ to.todo = r.todo
           /\ to.digest = r.digest /\ to.raced = r.raced
BY DEF Executions

LEMMA TailOfParts ==
    ASSUME NEW todo \in Seq(Kinds), todo # <<>>,
           \A n \in DOMAIN todo : Parts[todo[n]] = <<>>
    PROVE  /\ Tail(todo) \in Seq(Kinds)
           /\ \A n \in DOMAIN Tail(todo) : Parts[Tail(todo)[n]] = <<>>
           /\ Head(todo) \in Kinds /\ Parts[Head(todo)] = <<>>
<1>1. /\ Head(todo) \in Kinds /\ Tail(todo) \in Seq(Kinds)
      /\ Len(Tail(todo)) = Len(todo) - 1
      /\ \A n \in 1..Len(Tail(todo)) : Tail(todo)[n] = todo[n + 1]
  BY HeadTailProperties
<1>2. /\ DOMAIN todo = 1..Len(todo) /\ DOMAIN Tail(todo) = 1..Len(Tail(todo))
      /\ Len(todo) \in Nat \ {0}
  BY <1>1, EmptySeq, LenProperties
<1>3. Head(todo) = todo[1] /\ 1 \in DOMAIN todo
  BY <1>2
<1>4. ASSUME NEW n \in DOMAIN Tail(todo) PROVE Parts[Tail(todo)[n]] = <<>>
  <2>1. n + 1 \in DOMAIN todo
    BY <1>1, <1>2
  <2> QED BY <1>1, <1>2, <2>1
<1> QED BY <1>1, <1>3, <1>4

LEMMA GotIsSound ==
    ASSUME NEW r \in Executions, Nested(r), r.pc \in {"read", "commit"}
    PROVE  Got(r) \in Executions /\ Nested(Got(r)) /\ Got(r).pc \in {"idle", "part"}
<1>1. CASE r.kind = r.asked
  BY <1>1, IdleIsSound DEF Got, Idle
<1>2. CASE r.kind # r.asked
  <2> DEFINE todo == Tail(r.todo)
             got == r.got \cup {r.digest}
             to == [r EXCEPT !.pc = "part", !.got = got, !.todo = todo]
  <2>1. r.todo \in Seq(Kinds) /\ r.todo # <<>> /\ \A n \in DOMAIN r.todo : Parts[r.todo[n]] = <<>>
    BY <1>2 DEF Nested, Executions
  <2>2. todo \in Seq(Kinds) /\ \A n \in DOMAIN todo : Parts[todo[n]] = <<>>
    BY <2>1, TailOfParts
  <2>3. got \in Bundles
    <3>1. r.digest \in Produced
      BY <1>2 DEF Nested, Fits
    <3> QED BY <3>1 DEF Executions, Bundles
  <2>4. Got(r) = to
    BY <1>2 DEF Got
  <2>5. "part" \in WorkerSteps
    BY CollectionValues
  <2> HIDE DEF todo, got
  <2>6. /\ to \in Executions /\ to.pc = "part" /\ to.asked = r.asked /\ to.kind = r.kind
        /\ to.todo = todo
    BY <2>2, <2>3, <2>5 DEF Executions
  <2>7. Nested(to)
    <3> HIDE DEF to
    <3> QED BY <1>2, <2>2, <2>6 DEF Nested
  <2> QED BY <2>4, <2>6, <2>7
<1> QED BY <1>1, <1>2


LEMMA WorkerIsSound ==
    ASSUME Collected, NEW w \in Workers
    PROVE  /\ worker[w] \in Executions /\ Nested(worker[w])
           /\ worker[w].pc = "read" => worker[w].digest \in file \/ worker[w].raced
           /\ worker[w].pc = "lost" => worker[w].raced
BY DEF Collected, CollectionTypeOK, WorkIsNested, SeenIsThere, Sees, FileErrorsNeedAnUnlink

\* A step that leaves the store alone.
LEMMA WorkerGoes ==
    ASSUME Collected, NEW w \in Workers, NEW to \in Executions, Goes(w, to),
           Nested(to), to.pc = "read" => to.digest \in file \/ to.raced,
           to.pc = "lost" => to.raced, UNCHANGED <<World, index, file>>
    PROVE  Collected'
<1>1. file \subseteq file' /\ file' \subseteq Payloads /\ UNCHANGED <<World, index>>
  BY DEF Collected, CollectionTypeOK
<1>2. worker' = [worker EXCEPT ![w] = to]
  BY DEF Goes
<1> QED BY <1>1, <1>2, WorkerMoves

LEMMA StartIsSound ==
    ASSUME Collected, NEW w \in Workers, NEW k \in Asked, NEW refresh \in BOOLEAN,
           Start(w, k, refresh)
    PROVE  Collected'
<1> DEFINE s == IF refresh THEN "miss" ELSE "lookup"
<1>1. PICK to : to = [Idle EXCEPT !.asked = k, !.kind = k, !.pc = s]
  OBVIOUS
<1>2. s \in WorkerSteps /\ s \in {"miss", "lookup"}
  BY CollectionValues
<1>3. k \in Kinds /\ k \in KindOrNot
  BY CollectionConstantsOK, CollectionValues
<1>4. Goes(w, to) /\ UNCHANGED <<World, index, file>>
  BY <1>1 DEF Start
<1> HIDE DEF s
<1>5. /\ to \in Executions /\ to.pc = s /\ to.asked = k /\ to.kind = k /\ to.todo = <<>>
  BY <1>1, <1>2, <1>3, IdleIsSound DEF Idle, Executions
<1>6. Nested(to)
  BY <1>2, <1>3, <1>5 DEF Nested
<1> QED BY <1>2, <1>4, <1>5, <1>6, WorkerGoes

LEMMA LookupIsSound ==
    ASSUME Collected, NEW w \in Workers, Lookup(w)
    PROVE  Collected'
<1>1. PICK r : r = worker[w] /\ r \in Executions /\ Nested(r) /\ r.pc = "lookup"
  BY WorkerIsSound DEF Lookup
<1>2. r.kind \in Kinds
  BY <1>1 DEF Nested
<1>3. CASE FreshRows(r.kind) = {} /\ Goes(w, [r EXCEPT !.pc = "miss"])
  <2>1. PICK to : to = [r EXCEPT !.pc = "miss"]
    OBVIOUS
  <2>2. /\ to \in Executions /\ to.pc = "miss" /\ to.asked = r.asked /\ to.kind = r.kind
        /\ to.todo = r.todo
    BY <1>1, <2>1, CollectionValues, StepIsExecution
  <2>3. Nested(to)
    BY <1>1, <2>2 DEF Nested
  <2> QED BY <1>3, <2>1, <2>2, <2>3, WorkerGoes DEF Lookup
<1>4. ASSUME NEW i \in FreshRows(r.kind),
             Goes(w, [r EXCEPT !.pc = "look", !.digest = row[i].digest])
      PROVE  Collected'
  <2>1. PICK to, d : d = row[i].digest /\ to = [r EXCEPT !.pc = "look", !.digest = d]
    OBVIOUS
  <2>2. Fits(r.kind, d)
    BY <1>2, <2>1, FreshIsCurrent
  <2>3. d \in PayloadOrNot
    BY <2>2, CollectionValues DEF Fits
  <2>0. "look" \in WorkerSteps
    BY CollectionValues
  <2>4. /\ to \in Executions /\ to.pc = "look" /\ to.asked = r.asked /\ to.kind = r.kind
        /\ to.todo = r.todo /\ to.digest = d
    BY <1>1, <2>0, <2>1, <2>3 DEF Executions
  <2>5. Nested(to)
    BY <1>1, <2>2, <2>4 DEF Nested
  <2> QED BY <1>4, <2>1, <2>4, <2>5, WorkerGoes DEF Lookup
<1> QED BY <1>1, <1>3, <1>4 DEF Lookup

LEMMA LookIsSound ==
    ASSUME Collected, NEW w \in Workers, Look(w)
    PROVE  Collected'
<1>1. PICK r : r = worker[w] /\ r \in Executions /\ Nested(r) /\ r.pc = "look"
  BY WorkerIsSound DEF Look
<1>2. PICK to, s : /\ s = (IF Looks(r.digest) THEN "read" ELSE "miss")
                   /\ to = [r EXCEPT !.pc = s]
  OBVIOUS
<1>3. /\ to \in Executions /\ to.pc = s /\ to.asked = r.asked /\ to.kind = r.kind
      /\ to.todo = r.todo /\ to.digest = r.digest
  BY <1>1, <1>2, CollectionValues, StepIsExecution
<1>4. Nested(to)
  BY <1>1, <1>2, <1>3 DEF Nested
<1>5. to.pc = "read" => to.digest \in file
  BY <1>2, <1>3 DEF Looks
<1>6. Goes(w, to) /\ UNCHANGED <<World, index, file>>
  BY <1>1, <1>2 DEF Look
<1>7. to.pc # "lost"
  BY <1>2, <1>3
<1> QED BY <1>3, <1>4, <1>5, <1>6, <1>7, WorkerGoes

LEMMA ReadIsSound ==
    ASSUME Collected, NEW w \in Workers, Read(w)
    PROVE  Collected'
<1>1. PICK r : /\ r = worker[w] /\ r \in Executions /\ Nested(r) /\ r.pc = "read"
               /\ r.digest \in file \/ r.raced
  BY WorkerIsSound DEF Read
<1>2. UNCHANGED <<World, index, file>>
  BY DEF Read
<1>3. CASE r.digest \notin file
  <2>1. PICK to : to = [r EXCEPT !.pc = "lost"]
    OBVIOUS
  <2>2. /\ to \in Executions /\ to.pc = "lost" /\ to.asked = r.asked /\ to.kind = r.kind
        /\ to.todo = r.todo /\ to.raced = r.raced
    BY <1>1, <2>1, CollectionValues, StepIsExecution
  <2>3. Nested(to)
    BY <1>1, <2>2 DEF Nested
  <2>4. Goes(w, to)
    BY <1>1, <1>3, <2>1 DEF Read
  <2> QED BY <1>1, <1>2, <1>3, <2>2, <2>3, <2>4, WorkerGoes
<1>4. CASE r.digest \in file /\ r.digest \in Misfits
  <2>1. PICK to : to = [r EXCEPT !.pc = "miss"]
    OBVIOUS
  <2>2. /\ to \in Executions /\ to.pc = "miss" /\ to.asked = r.asked /\ to.kind = r.kind
        /\ to.todo = r.todo
    BY <1>1, <2>1, CollectionValues, StepIsExecution
  <2>3. Nested(to)
    BY <1>1, <2>2 DEF Nested
  <2>4. Goes(w, to)
    BY <1>1, <1>4, <2>1 DEF Read
  <2> QED BY <1>2, <2>2, <2>3, <2>4, WorkerGoes
<1>5. CASE r.digest \in file /\ r.digest \notin Misfits
  <2>1. PICK to : to = Got(r)
    OBVIOUS
  <2>2. to \in Executions /\ Nested(to) /\ to.pc \in {"idle", "part"}
    BY <1>1, <2>1, GotIsSound
  <2>3. Goes(w, to)
    BY <1>1, <1>5, <2>1 DEF Read
  <2> QED BY <1>2, <2>2, <2>3, WorkerGoes
<1> QED BY <1>3, <1>4, <1>5

LEMMA MissIsSound ==
    ASSUME Collected, NEW w \in Workers, Miss(w)
    PROVE  Collected'
<1>1. PICK r : r = worker[w] /\ r \in Executions /\ Nested(r) /\ r.pc = "miss"
  BY WorkerIsSound DEF Miss
<1>2. UNCHANGED <<World, index, file>>
  BY DEF Miss
<1>3. r.kind \in Kinds
  BY <1>1 DEF Nested
<1>4. CASE Parts[r.kind] = <<>>
  <2>1. PICK to : to = [r EXCEPT !.pc = "fetch", !.digest = NoDigest]
    OBVIOUS
  <2>0. "fetch" \in WorkerSteps /\ NoDigest \in PayloadOrNot
    BY CollectionValues
  <2>2. /\ to \in Executions /\ to.pc = "fetch" /\ to.asked = r.asked /\ to.kind = r.kind
        /\ to.todo = r.todo
    BY <1>1, <2>0, <2>1 DEF Executions
  <2>3. Nested(to)
    BY <1>1, <1>4, <2>2 DEF Nested
  <2>4. Goes(w, to)
    BY <1>1, <1>4, <2>1 DEF Miss
  <2> QED BY <1>2, <2>2, <2>3, <2>4, WorkerGoes
<1>5. CASE Parts[r.kind] # <<>>
  <2>1. PICK to, todo : /\ todo = Parts[r.kind]
                        /\ to = [r EXCEPT !.pc = "part", !.todo = todo, !.digest = NoDigest]
    OBVIOUS
  <2>2. todo \in Seq(Kinds) /\ \A n \in DOMAIN todo : Parts[todo[n]] = <<>>
    BY <1>3, <2>1, CollectionConstantsOK
  <2>3. "part" \in WorkerSteps /\ NoDigest \in PayloadOrNot
    BY CollectionValues
  <2>4. /\ to \in Executions /\ to.pc = "part" /\ to.asked = r.asked /\ to.kind = r.kind
        /\ to.todo = todo
    BY <1>1, <2>1, <2>2, <2>3 DEF Executions
  <2>5. r.kind = r.asked
    BY <1>1, <1>5 DEF Nested
  <2>6. Nested(to)
    BY <1>1, <1>5, <2>2, <2>4, <2>5 DEF Nested
  <2>7. Goes(w, to)
    BY <1>1, <1>5, <2>1 DEF Miss
  <2> QED BY <1>2, <2>4, <2>6, <2>7, WorkerGoes
<1> QED BY <1>4, <1>5

LEMMA FetchIsSound ==
    ASSUME Collected, NEW w \in Workers, NEW d, Fetch(w, d)
    PROVE  Collected'
<1>1. PICK r : r = worker[w] /\ r \in Executions /\ Nested(r) /\ r.pc = "fetch"
  BY WorkerIsSound DEF Fetch
<1>2. r.kind \in Kinds
  BY <1>1 DEF Nested
<1>3. d \in Yields[r.kind][Current[r.kind]] /\ file' = file \cup {d} /\ UNCHANGED <<World, index>>
  BY <1>1 DEF Fetch
<1>4. d \in Produced /\ d \in Payloads
  BY <1>2, <1>3 DEF Produced, Payloads, Candidates
<1>5. PICK to : to = [r EXCEPT !.pc = "record", !.digest = d]
  OBVIOUS
<1>0. "record" \in WorkerSteps /\ d \in PayloadOrNot
  BY <1>4, CollectionValues
<1>6. /\ to \in Executions /\ to.pc = "record" /\ to.asked = r.asked /\ to.kind = r.kind
      /\ to.todo = r.todo /\ to.digest = d
  BY <1>0, <1>1, <1>5 DEF Executions
<1>7. Nested(to)
  BY <1>1, <1>4, <1>6 DEF Nested, Fits
<1>8. worker' = [worker EXCEPT ![w] = to]
  BY <1>1, <1>5 DEF Fetch, Goes
<1>9. file \subseteq file' /\ file' \subseteq Payloads
  BY <1>3, <1>4 DEF Collected, CollectionTypeOK
<1> QED BY <1>3, <1>6, <1>7, <1>8, <1>9, WorkerMoves

LEMMA FetchFailsIsSound ==
    ASSUME Collected, NEW w \in Workers, FetchFails(w)
    PROVE  Collected'
<1>1. PICK r : r = worker[w] /\ r \in Executions /\ Nested(r) /\ r.pc = "fetch"
  BY WorkerIsSound DEF FetchFails
<1>2. UNCHANGED <<World, index, file>>
  BY DEF FetchFails
<1>3. CASE r.kind = r.asked
  <2>1. PICK to : to = Idle
    OBVIOUS
  <2>2. Goes(w, to)
    BY <1>1, <1>3, <2>1 DEF FetchFails
  <2> QED BY <1>2, <2>1, <2>2, IdleIsSound, WorkerGoes
<1>4. CASE r.kind # r.asked
  <2>1. PICK to, todo : todo = Tail(r.todo) /\ to = [r EXCEPT !.pc = "part", !.todo = todo]
    OBVIOUS
  <2>2. r.todo \in Seq(Kinds) /\ r.todo # <<>> /\ \A n \in DOMAIN r.todo : Parts[r.todo[n]] = <<>>
    BY <1>1, <1>4 DEF Nested, Executions
  <2>3. todo \in Seq(Kinds) /\ \A n \in DOMAIN todo : Parts[todo[n]] = <<>>
    BY <2>1, <2>2, TailOfParts
  <2>4. "part" \in WorkerSteps
    BY CollectionValues
  <2>5. /\ to \in Executions /\ to.pc = "part" /\ to.asked = r.asked /\ to.kind = r.kind
        /\ to.todo = todo
    BY <1>1, <2>1, <2>3, <2>4 DEF Executions
  <2>6. Nested(to)
    BY <1>1, <1>4, <2>3, <2>5 DEF Nested
  <2>7. Goes(w, to)
    BY <1>1, <1>4, <2>1 DEF FetchFails
  <2> QED BY <1>2, <2>5, <2>6, <2>7, WorkerGoes
<1> QED BY <1>3, <1>4

LEMMA NextPartIsSound ==
    ASSUME Collected, NEW w \in Workers, NextPart(w)
    PROVE  Collected'
<1>1. PICK r : r = worker[w] /\ r \in Executions /\ Nested(r) /\ r.pc = "part" /\ r.todo # <<>>
  BY WorkerIsSound DEF NextPart
<1>2. UNCHANGED <<World, index, file>>
  BY DEF NextPart
<1>3. r.todo \in Seq(Kinds) /\ \A n \in DOMAIN r.todo : Parts[r.todo[n]] = <<>>
  BY <1>1 DEF Nested, Executions
<1>4. PICK to, k : k = Head(r.todo) /\ to = [r EXCEPT !.pc = "lookup", !.kind = k, !.digest = NoDigest]
  OBVIOUS
<1>5. k \in Kinds /\ Parts[k] = <<>>
  BY <1>1, <1>3, <1>4, TailOfParts
<1>6. "lookup" \in WorkerSteps /\ NoDigest \in PayloadOrNot /\ k \in KindOrNot
  BY <1>5, CollectionValues
<1>7. /\ to \in Executions /\ to.pc = "lookup" /\ to.asked = r.asked /\ to.kind = k
      /\ to.todo = r.todo
  BY <1>1, <1>4, <1>6 DEF Executions
<1>8. Nested(to)
  BY <1>1, <1>5, <1>7 DEF Nested
<1>9. Goes(w, to)
  BY <1>1, <1>4 DEF NextPart
<1> QED BY <1>2, <1>7, <1>8, <1>9, WorkerGoes

LEMMA AssembleIsSound ==
    ASSUME Collected, NEW w \in Workers, Assemble(w)
    PROVE  Collected'
<1>1. PICK r : r = worker[w] /\ r \in Executions /\ Nested(r) /\ r.pc = "part" /\ r.todo = <<>>
  BY WorkerIsSound DEF Assemble
<1>2. UNCHANGED <<World, index>>
  BY DEF Assemble
<1>3. CASE r.got = {}
  <2>1. PICK to : to = Idle
    OBVIOUS
  <2>2. Goes(w, to) /\ UNCHANGED file
    BY <1>1, <1>3, <2>1 DEF Assemble
  <2> QED BY <1>2, <2>1, <2>2, IdleIsSound, WorkerGoes
<1>4. CASE r.got # {}
  <2>1. PICK to, d : d = r.got /\ to = [r EXCEPT !.pc = "record", !.kind = r.asked, !.digest = d]
    OBVIOUS
  <2>2. r.asked \in Kinds /\ Parts[r.asked] # <<>>
    BY <1>1 DEF Nested
  <2>3. d \in Payloads /\ Fits(r.asked, d)
    BY <1>1, <2>1, <2>2 DEF Executions, Payloads, Fits
  <2>4. "record" \in WorkerSteps /\ d \in PayloadOrNot /\ r.asked \in KindOrNot
    BY <2>2, <2>3, CollectionValues
  <2>5. /\ to \in Executions /\ to.pc = "record" /\ to.asked = r.asked /\ to.kind = r.asked
        /\ to.todo = r.todo /\ to.digest = d
    BY <1>1, <2>1, <2>4 DEF Executions
  <2>6. Nested(to)
    BY <1>1, <2>2, <2>3, <2>5 DEF Nested
  <2>7. worker' = [worker EXCEPT ![w] = to] /\ file' = file \cup {d}
    BY <1>1, <1>4, <2>1 DEF Assemble, Goes
  <2>8. file \subseteq file' /\ file' \subseteq Payloads
    BY <2>3, <2>7 DEF Collected, CollectionTypeOK
  <2> QED BY <1>2, <2>5, <2>6, <2>7, <2>8, WorkerMoves
<1> QED BY <1>3, <1>4

LEMMA StampIsSound ==
    ASSUME Collected, NEW w \in Workers, Stamp(w)
    PROVE  Collected'
<1>1. PICK r : r = worker[w] /\ r \in Executions /\ Nested(r) /\ r.pc = "record"
  BY WorkerIsSound DEF Stamp
<1>2. PICK to, at : at = clock /\ to = [r EXCEPT !.pc = "commit", !.at = at]
  OBVIOUS
<1>3. at \in Nat /\ "commit" \in WorkerSteps
  BY <1>2, CollectionValues DEF Collected, CollectionTypeOK
<1>4. /\ to \in Executions /\ to.pc = "commit" /\ to.asked = r.asked /\ to.kind = r.kind
      /\ to.todo = r.todo /\ to.digest = r.digest
  BY <1>1, <1>2, <1>3 DEF Executions
<1>5. Nested(to)
  BY <1>1, <1>4 DEF Nested
<1>6. Goes(w, to) /\ UNCHANGED <<World, index, file>>
  BY <1>1, <1>2 DEF Stamp
<1> QED BY <1>4, <1>5, <1>6, WorkerGoes

LEMMA GiveUpIsSound ==
    ASSUME Collected, NEW w \in Workers, GiveUp(w)
    PROVE  Collected'
<1>1. PICK to : to = Idle
  OBVIOUS
<1>2. Goes(w, to) /\ UNCHANGED <<World, index, file>>
  BY <1>1 DEF GiveUp
<1> QED BY <1>1, <1>2, IdleIsSound, WorkerGoes


\* A new row disturbs neither the others nor what is known of them.
LEMMA CommitIsSound ==
    ASSUME Collected, NEW w \in Workers, NEW i \in Ids, Commit(w, i)
    PROVE  Collected'
<1>1. PICK r : r = worker[w] /\ r \in Executions /\ Nested(r) /\ r.pc = "commit"
  BY WorkerIsSound DEF Commit
<1>2. /\ r.kind \in Kinds /\ Fits(r.kind, r.digest) /\ r.digest \in Payloads /\ r.at \in Nat
  BY <1>1 DEF Nested, Fits, Executions
<1>3. PICK v : v = Current[r.kind] /\ v \in Versions
  BY <1>2, VersionsAreKnown
<1>4. PICK new : new = Artifact(r.kind, v, v, r.digest, r.at)
  OBVIOUS
<1>5. /\ new \in Rows /\ new # NoRow /\ new.kind = r.kind /\ new.key = Fingerprint(r.kind, v)
      /\ new.origin = v /\ new.version = v /\ new.digest = r.digest
  BY <1>2, <1>3, <1>4, ArtifactIsRow
<1>6. /\ i \notin Recorded /\ there' = there \cup {i} /\ UNCHANGED <<World, file>>
  BY DEF Commit
<1>7. row' = [row EXCEPT ![i] = new]
  BY <1>1, <1>3, <1>4 DEF Commit
<1>8. /\ row' \in [Ids -> Rows \cup {NoRow}]
      /\ row'[i] = new /\ \A j \in Ids : j # i => row'[j] = row[j]
  BY <1>5, <1>7 DEF Collected, CollectionTypeOK
<1>9. Recorded' = Recorded \cup {i}
  BY <1>5, <1>8 DEF Recorded
<1>10. RowsKept
  BY <1>6, <1>8, <1>9 DEF RowsKept, Recorded
<1>11. PICK to : to = Got(r)
  OBVIOUS
<1>12. to \in Executions /\ Nested(to) /\ to.pc \in {"idle", "part"}
  BY <1>1, <1>11, GotIsSound
<1>13. worker' = [worker EXCEPT ![w] = to]
  BY <1>1, <1>11 DEF Commit, Goes
<1>14. \A u \in Workers : worker'[u] = IF u = w THEN to ELSE worker[u]
  BY <1>13 DEF Collected, CollectionTypeOK
<1>15. worker' \in [Workers -> Executions]
  BY <1>12, <1>13 DEF Collected, CollectionTypeOK
<1>16. /\ clock' = clock /\ doomed' = doomed /\ naming' = naming /\ client' = client
       /\ file' = file
  BY <1>6 DEF World
<1>17. CollectionTypeOK'
  BY <1>6, <1>8, <1>9, <1>15, <1>16 DEF Collected, CollectionTypeOK
<1>18. RowsAreOwn'
  BY <1>2, <1>5, <1>8, <1>9 DEF Collected, RowsAreOwn, Recorded, Fits, Fingerprint
<1>19. NamingIsTrue'
  BY <1>6, <1>8, <1>9, <1>16 DEF Collected, NamingIsTrue, Recorded
<1>20. WorkIsNested'
  BY <1>12, <1>14 DEF Collected, WorkIsNested, Nested, Fits
<1>21. SeenIsThere'
  BY <1>12, <1>14, <1>16 DEF Collected, SeenIsThere, Sees
<1>22. FileErrorsNeedAnUnlink'
  BY <1>12, <1>14, <1>16 DEF Collected, FileErrorsNeedAnUnlink
<1>23. VersionsAreTrue'
  BY <1>5, <1>8, <1>9 DEF Collected, VersionsAreTrue, Recorded
<1>24. HandedIsGood' /\ WalkIsOrdered' /\ WithdrawnIsNotServed' /\ WalkIsExact'
  <2>1. ClientKept /\ client'.must \subseteq client.must
    BY <1>16 DEF ClientKept
  <2>2. client'.must \subseteq there'
    BY <1>6, <1>16 DEF Collected, WalkIsOrdered
  <2> QED BY <1>10, <2>1, <2>2, ClientIsLeft
<1> QED BY <1>17, <1>18, <1>19, <1>20, <1>21, <1>22, <1>23, <1>24 DEF Collected

LEMMA WorkIsSound ==
    ASSUME Collected, NEW w \in Workers, Work(w)
    PROVE  Collected'
<1>1. ASSUME NEW k \in Asked, NEW refresh \in BOOLEAN, Start(w, k, refresh) PROVE Collected'
  BY <1>1, StartIsSound
<1>2. CASE Lookup(w) \/ Look(w) \/ Read(w) \/ Miss(w)
  BY <1>2, LookupIsSound, LookIsSound, ReadIsSound, MissIsSound
<1>3. CASE FetchFails(w) \/ NextPart(w) \/ Assemble(w) \/ Stamp(w) \/ GiveUp(w)
  BY <1>3, FetchFailsIsSound, NextPartIsSound, AssembleIsSound, StampIsSound, GiveUpIsSound
<1>4. ASSUME NEW d, Fetch(w, d) PROVE Collected'
  BY <1>4, FetchIsSound
<1>5. ASSUME NEW i \in Ids, Commit(w, i) PROVE Collected'
  BY <1>5, CommitIsSound
<1> QED BY <1>1, <1>2, <1>3, <1>4, <1>5 DEF Work

-----------------------------------------------------------------------------
(* Time, retention and the back-fill *)

\* Steps that leave the store and everyone in it alone.
LEMMA TickIsSound ==
    ASSUME Collected, Tick
    PROVE  Collected'
<1> USE DEF Collected, Tick, index
<1>1. CollectionTypeOK'
  BY CollectionConstantsOK DEF CollectionTypeOK, Recorded
<1>2. RowsAreOwn' /\ NamingIsTrue' /\ VersionsAreTrue'
  BY DEF RowsAreOwn, NamingIsTrue, VersionsAreTrue, Recorded, Fits
<1>3. WorkIsNested' /\ SeenIsThere' /\ FileErrorsNeedAnUnlink'
  BY DEF WorkIsNested, Nested, Fits, SeenIsThere, Sees, FileErrorsNeedAnUnlink
<1>4. RowsKept /\ ClientKept /\ client'.must \subseteq client.must /\ client'.must \subseteq there'
  BY DEF RowsKept, ClientKept, Recorded, WalkIsOrdered
<1>5. HandedIsGood' /\ WalkIsOrdered' /\ WithdrawnIsNotServed' /\ WalkIsExact'
  BY <1>4, ClientIsLeft
<1> QED BY <1>1, <1>2, <1>3, <1>5

LEMMA PruneRowsIsSound ==
    ASSUME Collected, PruneRows
    PROVE  Collected'
<1> USE DEF Collected
<1>1. PICK must : must = client.must \ Expired
  OBVIOUS
<1>2. /\ there' = there \ Expired /\ client' = [client EXCEPT !.must = must]
      /\ clock' = clock /\ row' = row /\ file' = file /\ worker' = worker /\ naming' = naming
  BY <1>1 DEF PruneRows
<1>3. must \subseteq client.must /\ must \subseteq there'
  BY <1>1, <1>2 DEF WalkIsOrdered
<1>4. /\ client' \in Readings /\ client'.must = must /\ ClientKept /\ client'.raced = client.raced
  <2>1. client \in Readings /\ must \in SUBSET Ids
    BY <1>3 DEF CollectionTypeOK, Readings
  <2> QED BY <1>2, <2>1 DEF ClientKept, Readings
<1>5. doomed' \subseteq Payloads
  <2>1. doomed' \subseteq {row[i].digest : i \in Expired}
    BY DEF PruneRows
  <2>2. \A i \in Expired : row[i].digest \in Payloads
    BY DEF Expired, CollectionTypeOK, RowsAreOwn, Fits
  <2> QED BY <2>1, <2>2
<1>6. CollectionTypeOK'
  BY <1>2, <1>4, <1>5 DEF CollectionTypeOK, Recorded
<1>7. RowsAreOwn' /\ NamingIsTrue' /\ VersionsAreTrue'
  BY <1>2 DEF RowsAreOwn, NamingIsTrue, VersionsAreTrue, Recorded, Fits
<1>8. WorkIsNested'
  BY <1>2 DEF WorkIsNested, Nested, Fits
<1>9. SeenIsThere' /\ FileErrorsNeedAnUnlink'
  BY <1>2, <1>4 DEF SeenIsThere, Sees, FileErrorsNeedAnUnlink, ClientKept
<1>10. RowsKept
  BY <1>2 DEF RowsKept, Recorded
<1>11. HandedIsGood' /\ WalkIsOrdered' /\ WithdrawnIsNotServed' /\ WalkIsExact'
  BY <1>3, <1>4, <1>10, ClientIsLeft
<1> QED BY <1>6, <1>7, <1>8, <1>9, <1>11

\* The unlink marks those who have seen the file and have not read it yet.
LEMMA UnlinkIsSound ==
    ASSUME Collected, NEW d, Unlink(d)
    PROVE  Collected'
<1> USE DEF Collected
<1>1. /\ doomed' = doomed \ {d} /\ file' = file \ {d}
      /\ clock' = clock /\ row' = row /\ there' = there /\ naming' = naming
      /\ worker' = [w \in Workers |-> Marked(worker[w], d)] /\ client' = Marked(client, d)
  BY DEF Unlink, index
<1>2. /\ client' \in Readings /\ ClientKept /\ client'.must = client.must
      /\ client.raced => client'.raced
      /\ client.pc \in {"read", "reread"} /\ client.digest = d => client'.raced
  <2>1. client \in Readings
    BY DEF CollectionTypeOK
  <2> QED BY <1>1, <2>1 DEF Marked, Readings, ClientKept
<1>3. ASSUME NEW w \in Workers
      PROVE  /\ worker'[w] \in Executions /\ worker'[w].pc = worker[w].pc
             /\ worker'[w].asked = worker[w].asked /\ worker'[w].kind = worker[w].kind
             /\ worker'[w].todo = worker[w].todo /\ worker'[w].digest = worker[w].digest
             /\ worker[w].raced => worker'[w].raced
             /\ worker[w].pc \in {"read", "reread"} /\ worker[w].digest = d => worker'[w].raced
  <2>1. worker[w] \in Executions /\ worker'[w] = Marked(worker[w], d)
    BY <1>1 DEF CollectionTypeOK
  <2> QED BY <2>1 DEF Marked, Executions
<1>4. worker' \in [Workers -> Executions]
  <2>1. worker' = [w \in Workers |-> worker'[w]]
    BY <1>1
  <2> QED BY <1>3, <2>1
<1>5. CollectionTypeOK'
  BY <1>1, <1>2, <1>4 DEF CollectionTypeOK, Recorded
<1>6. RowsAreOwn' /\ NamingIsTrue' /\ VersionsAreTrue'
  BY <1>1 DEF RowsAreOwn, NamingIsTrue, VersionsAreTrue, Recorded, Fits
<1>7. WorkIsNested'
  BY <1>3 DEF WorkIsNested, Nested, Fits
<1>8. SeenIsThere'
  <2>1. Sees(client')
    BY <1>1, <1>2 DEF SeenIsThere, Sees, ClientKept
  <2> QED BY <1>1, <1>2, <1>3 DEF SeenIsThere, Sees, ClientKept
<1>9. FileErrorsNeedAnUnlink'
  BY <1>2, <1>3 DEF FileErrorsNeedAnUnlink, ClientKept
<1>10. RowsKept /\ client'.must \subseteq client.must /\ client'.must \subseteq there'
  BY <1>1, <1>2 DEF RowsKept, Recorded, WalkIsOrdered
<1>11. HandedIsGood' /\ WalkIsOrdered' /\ WithdrawnIsNotServed' /\ WalkIsExact'
  BY <1>2, <1>10, ClientIsLeft
<1> QED BY <1>5, <1>6, <1>7, <1>8, <1>9, <1>11

\* The back-fill writes the one version whose fingerprint is the row's.
LEMMA StartBackfillIsSound ==
    ASSUME Collected, StartBackfill
    PROVE  Collected'
<1> USE DEF Collected
<1>1. /\ clock' = clock /\ row' = row /\ there' = there /\ file' = file /\ worker' = worker
      /\ doomed' = doomed /\ client' = client
  BY DEF StartBackfill, index
<1>2. ASSUME NEW e \in naming' 
      PROVE  /\ e \in Ids \X Versions /\ e[1] \in Recorded /\ e[2] = row[e[1]].origin
  <2>1. PICK i \in there : \E v \in Attribute(i) : e = <<i, v>>
    BY DEF StartBackfill
  <2>2. PICK v \in Attribute(i) : e = <<i, v>>
    BY <2>1
  <2>3. i \in Recorded /\ row[i] \in Rows
    BY RowsAreUsed DEF CollectionTypeOK
  <2>4. row[i].kind \in Kinds /\ row[i].key = Fingerprint(row[i].kind, row[i].origin)
    BY <2>3 DEF RowsAreOwn, Rows
  <2>5. v \in Candidates(row[i].kind) /\ v = row[i].origin
    BY <2>2, <2>4 DEF Attribute, Fingerprint
  <2>6. v \in Versions
    BY <2>4, <2>5, VersionsAreKnown
  <2> QED BY <2>2, <2>3, <2>5, <2>6 DEF Recorded
<1>3. CollectionTypeOK'
  BY <1>1, <1>2 DEF CollectionTypeOK, Recorded
<1>4. RowsAreOwn' /\ NamingIsTrue' /\ VersionsAreTrue'
  BY <1>1, <1>2 DEF RowsAreOwn, NamingIsTrue, VersionsAreTrue, Recorded, Fits
<1>5. WorkIsNested' /\ SeenIsThere' /\ FileErrorsNeedAnUnlink'
  BY <1>1 DEF WorkIsNested, Nested, Fits, SeenIsThere, Sees, FileErrorsNeedAnUnlink
<1>6. RowsKept /\ ClientKept /\ client'.must \subseteq client.must /\ client'.must \subseteq there'
  BY <1>1 DEF RowsKept, ClientKept, Recorded, WalkIsOrdered
<1>7. HandedIsGood' /\ WalkIsOrdered' /\ WithdrawnIsNotServed' /\ WalkIsExact'
  BY <1>6, ClientIsLeft
<1> QED BY <1>3, <1>4, <1>5, <1>7

LEMMA NameRowsIsSound ==
    ASSUME Collected, NameRows
    PROVE  Collected'
<1> USE DEF Collected
<1>1. /\ clock' = clock /\ there' = there /\ file' = file /\ worker' = worker
      /\ doomed' = doomed /\ client' = client /\ naming' \subseteq naming
  BY DEF NameRows
<1>2. row' = [i \in Ids |-> row'[i]]
  BY DEF NameRows
<1>3. ASSUME NEW i \in Ids
      PROVE  \/ row'[i] = row[i]
             \/ /\ i \in Recorded
                /\ row'[i] = [row[i] EXCEPT !.version = row[i].origin]
  <2>1. PICK batch \in SUBSET naming :
           row' = [j \in Ids |->
             LET named == {v \in Candidates(row[j].kind) : <<j, v>> \in batch}
             IN IF j \in there /\ named # {}
                  THEN [row[j] EXCEPT !.version = CHOOSE v \in named : TRUE]
                  ELSE row[j]]
    BY DEF NameRows
  <2> DEFINE named == {v \in Candidates(row[i].kind) : <<i, v>> \in batch}
  <2>2. row'[i] = IF i \in there /\ named # {}
                    THEN [row[i] EXCEPT !.version = CHOOSE v \in named : TRUE] ELSE row[i]
    BY <2>1
  <2>3. CASE i \in there /\ named # {}
    <3>1. PICK c : c = (CHOOSE v \in named : TRUE) /\ c \in named
      BY <2>3
    <3>2. <<i, c>> \in naming
      BY <3>1
    <3>3. c = row[i].origin
      BY <3>2 DEF NamingIsTrue
    <3>4. i \in Recorded
      BY <2>3 DEF CollectionTypeOK
    <3> HIDE DEF named
    <3> QED BY <2>2, <2>3, <3>1, <3>3, <3>4
  <2>4. CASE ~(i \in there /\ named # {})
    <3> HIDE DEF named
    <3> QED BY <2>2, <2>4
  <2> QED BY <2>3, <2>4
<1>4. ASSUME NEW i \in Recorded
      PROVE  /\ row'[i] \in Rows /\ row'[i].kind = row[i].kind /\ row'[i].key = row[i].key
             /\ row'[i].origin = row[i].origin /\ row'[i].digest = row[i].digest
             /\ row'[i].at = row[i].at
             /\ row'[i].version \in {row[i].version, row[i].origin}
  <2>1. i \in Ids /\ row[i] \in Rows
    BY RowsAreUsed
  <2>2. row[i].origin \in Versions
    BY <2>1 DEF Rows
  <2> QED BY <1>3, <2>1, <2>2 DEF Rows
<1>5. Recorded' = Recorded
  <2>1. \A i \in Recorded : i \in Ids /\ row'[i] # NoRow
    BY <1>4, RowsAreUsed
  <2>2. \A i \in Ids : i \notin Recorded => row'[i] = NoRow
    BY <1>3 DEF Recorded
  <2> QED BY <2>1, <2>2 DEF Recorded
<1>6. row' \in [Ids -> Rows \cup {NoRow}]
  <2>1. \A i \in Ids : row'[i] \in Rows \cup {NoRow}
    BY <1>4, <1>5 DEF Recorded
  <2> QED BY <1>2, <2>1
<1>7. CollectionTypeOK'
  BY <1>1, <1>5, <1>6 DEF CollectionTypeOK
<1>8. RowsKept
  BY <1>4, <1>5 DEF RowsKept
<1>9. RowsAreOwn'
  BY <1>4, <1>5 DEF RowsAreOwn, Fits
<1>10. NamingIsTrue'
  BY <1>1, <1>4, <1>5 DEF NamingIsTrue
<1>11. VersionsAreTrue'
  BY <1>4, <1>5 DEF VersionsAreTrue
<1>12. WorkIsNested' /\ SeenIsThere' /\ FileErrorsNeedAnUnlink'
  BY <1>1 DEF WorkIsNested, Nested, Fits, SeenIsThere, Sees, FileErrorsNeedAnUnlink
<1>13. ClientKept /\ client'.must \subseteq client.must /\ client'.must \subseteq there'
  BY <1>1 DEF ClientKept, WalkIsOrdered
<1>14. HandedIsGood' /\ WalkIsOrdered' /\ WithdrawnIsNotServed' /\ WalkIsExact'
  BY <1>8, <1>13, ClientIsLeft
<1> QED BY <1>7, <1>9, <1>10, <1>11, <1>12, <1>14

LEMMA InterruptBackfillIsSound ==
    ASSUME Collected, InterruptBackfill
    PROVE  Collected'
<1> USE DEF Collected
<1>1. /\ clock' = clock /\ row' = row /\ there' = there /\ file' = file /\ worker' = worker
      /\ doomed' = doomed /\ client' = client /\ naming' = {}
  BY DEF InterruptBackfill, index
<1>2. CollectionTypeOK'
  BY <1>1 DEF CollectionTypeOK, Recorded
<1>3. RowsAreOwn' /\ NamingIsTrue' /\ VersionsAreTrue'
  BY <1>1 DEF RowsAreOwn, NamingIsTrue, VersionsAreTrue, Recorded, Fits
<1>4. WorkIsNested' /\ SeenIsThere' /\ FileErrorsNeedAnUnlink'
  BY <1>1 DEF WorkIsNested, Nested, Fits, SeenIsThere, Sees, FileErrorsNeedAnUnlink
<1>5. RowsKept /\ ClientKept /\ client'.must \subseteq client.must /\ client'.must \subseteq there'
  BY <1>1 DEF RowsKept, ClientKept, Recorded, WalkIsOrdered
<1>6. HandedIsGood' /\ WalkIsOrdered' /\ WithdrawnIsNotServed' /\ WalkIsExact'
  BY <1>5, ClientIsLeft
<1> QED BY <1>2, <1>3, <1>4, <1>6

-----------------------------------------------------------------------------
(* The steps of a client *)

\* Only the client moves, and what the others know does not depend on it.
LEMMA OthersAreLeft ==
    ASSUME Collected, UNCHANGED Surroundings, client' \in Readings
    PROVE  /\ CollectionTypeOK' /\ RowsAreOwn' /\ NamingIsTrue' /\ WorkIsNested' /\ VersionsAreTrue'
           /\ Recorded' = Recorded /\ row' = row /\ file' = file /\ there' = there
           /\ worker' = worker
<1> USE DEF Collected, Surroundings, index
<1>1. CollectionTypeOK'
  BY DEF CollectionTypeOK, Recorded
<1>2. RowsAreOwn' /\ NamingIsTrue' /\ VersionsAreTrue'
  BY DEF RowsAreOwn, NamingIsTrue, VersionsAreTrue, Recorded, Fits
<1>3. WorkIsNested'
  BY DEF WorkIsNested, Nested, Fits
<1> QED BY <1>1, <1>2, <1>3 DEF Recorded

\* The steps of every request but a walk.
LEMMA ReaderMoves ==
    ASSUME Collected, NEW to \in Readings, client' = to, UNCHANGED Surroundings,
           to.pc # "walk", to.seen = <<>>, to.must = {},
           Sees(to), to.status = 500 => to.raced,
           to.pc \in {"look", "read", "reread", "bytes"} => Good(to.kind, to.digest),
           to.pc = "gate" =>
               \E i \in Recorded : row[i].digest = to.digest /\ row[i].kind = to.kind,
           to.pc # "answered" => to.status = 0,
           to.status = 200 /\ to.digest # NoDigest => Good(to.kind, to.digest)
    PROVE  Collected'
<1>1. /\ CollectionTypeOK' /\ RowsAreOwn' /\ NamingIsTrue' /\ WorkIsNested' /\ VersionsAreTrue'
      /\ Recorded' = Recorded /\ row' = row /\ file' = file /\ there' = there
      /\ worker' = worker
  BY OthersAreLeft
<1>2. SeenIsThere' /\ FileErrorsNeedAnUnlink'
  BY <1>1 DEF Collected, SeenIsThere, Sees, FileErrorsNeedAnUnlink
<1>3. HandedIsGood' /\ WithdrawnIsNotServed'
  BY <1>1 DEF HandedIsGood, WithdrawnIsNotServed, Good
<1>4. WalkIsOrdered' /\ WalkIsExact'
  <2>1. DOMAIN client'.seen = {}
    BY EmptySeq
  <2>2. Shown' = {}
    BY <2>1 DEF Shown
  <2> QED BY <1>1, <2>1, <2>2 DEF WalkIsOrdered, WalkIsExact
<1> QED BY <1>1, <1>2, <1>3, <1>4 DEF Collected

LEMMA QuietIsReading ==
    /\ Quiet \in Readings
    /\ Quiet.pc = "idle" /\ Quiet.digest = NoDigest /\ Quiet.status = 0
    /\ Quiet.seen = <<>> /\ Quiet.must = {} /\ Quiet.raced = FALSE
BY CollectionValues, EmptySeq DEF Quiet, Readings

\* What is known of a request that is neither over nor a walk.
LEMMA ReaderIsSound ==
    ASSUME Collected, client.pc \notin {"walk", "answered"}
    PROVE  /\ client \in Readings /\ client.seen = <<>> /\ client.must = {} /\ client.status = 0
           /\ client.pc \in {"read", "reread"} => client.digest \in file \/ client.raced
           /\ client.pc \in {"look", "read", "reread", "bytes"} => Good(client.kind, client.digest)
BY DEF Collected, CollectionTypeOK, WalkIsOrdered, HandedIsGood, SeenIsThere, Sees

\* A request that begins, with what it is about to be handed, and one that is refused
\* or not found.
LEMMA BeginIsSound ==
    ASSUME Collected, NEW k \in KindOrNot, NEW d \in PayloadOrNot, NEW s \in ClientSteps,
           Begins(k, d, s), UNCHANGED Surroundings, s \in {"look", "bytes", "gate"},
           s \in {"look", "bytes"} => Good(k, d),
           s = "gate" => \E i \in Recorded : row[i].digest = d /\ row[i].kind = k
    PROVE  Collected'
<1>1. PICK to : to = [Quiet EXCEPT !.kind = k, !.digest = d, !.pc = s]
  OBVIOUS
<1>2. to \in Readings
  BY <1>1, QuietIsReading DEF Readings
<1>3. /\ to.pc = s /\ to.kind = k /\ to.digest = d /\ to.status = 0
      /\ to.seen = <<>> /\ to.must = {}
  BY <1>1, QuietIsReading DEF Readings
<1>4. client' = to
  BY <1>1 DEF Begins
<1> QED BY <1>2, <1>3, <1>4, ReaderMoves DEF Sees

LEMMA EndIsSound ==
    ASSUME Collected, NEW k \in KindOrNot, NEW d \in PayloadOrNot, NEW c \in Codes,
           Ends(k, d, c), UNCHANGED Surroundings, c # 200, c # 500
    PROVE  Collected'
<1>1. PICK to, s : /\ s = "answered"
                   /\ to = [Quiet EXCEPT !.kind = k, !.digest = d, !.pc = s, !.status = c]
  OBVIOUS
<1>2. s \in ClientSteps
  BY <1>1, CollectionValues
<1>3. to \in Readings
  BY <1>1, <1>2, QuietIsReading DEF Readings
<1>4. /\ to.pc = s /\ to.status = c /\ to.seen = <<>> /\ to.must = {}
  BY <1>1, QuietIsReading DEF Readings
<1>5. client' = to
  BY <1>1 DEF Ends
<1>6. to.pc = "answered"
  BY <1>1, <1>4
<1> QED BY <1>3, <1>4, <1>5, <1>6, ReaderMoves DEF Sees

LEMMA SubmitIsSound ==
    ASSUME Collected, NEW k \in Asked, Submit(k)
    PROVE  Collected'
<1>1. k \in Kinds /\ k \in KindOrNot /\ UNCHANGED Surroundings
  BY CollectionConstantsOK, CollectionValues DEF Submit
<1>2. "look" \in ClientSteps /\ NoDigest \in PayloadOrNot /\ 202 \in Codes
  BY CollectionValues
<1>3. CASE Ends(k, NoDigest, 202)
  BY <1>1, <1>2, <1>3, EndIsSound
<1>4. ASSUME NEW i \in FreshRows(k), Begins(k, row[i].digest, "look")
      PROVE  Collected'
  <2>1. PICK d : d = row[i].digest /\ d \in PayloadOrNot /\ Good(k, d)
    BY <1>1, FreshIsCurrent, CollectionValues DEF Fits
  <2>2. Begins(k, d, "look")
    BY <1>4, <2>1
  <2> QED BY <1>1, <1>2, <2>1, <2>2, BeginIsSound
<1> QED BY <1>3, <1>4 DEF Submit

\* The steps of an answer from the cache, and the bytes of an artifact.
LEMMA CachedGoesOn ==
    ASSUME Collected, client.pc \in {"look", "read"}, NEW s \in ClientSteps,
           s \in {"read", "reread"}, GoesOn(s), UNCHANGED Surroundings, client.digest \in file
    PROVE  Collected'
<1>1. PICK r, to : r = client /\ to = [r EXCEPT !.pc = s]
  OBVIOUS
<1>2. /\ r \in Readings /\ r.seen = <<>> /\ r.must = {} /\ r.status = 0 /\ Good(r.kind, r.digest)
  BY <1>1, ReaderIsSound
<1>3. /\ to \in Readings /\ to.pc = s /\ to.kind = r.kind /\ to.digest = r.digest
      /\ to.status = r.status /\ to.seen = r.seen /\ to.must = r.must
  BY <1>1, <1>2 DEF Readings
<1>4. client' = to /\ Good(to.kind, to.digest) /\ to.digest \in file
  BY <1>1, <1>2, <1>3 DEF GoesOn
<1> QED BY <1>2, <1>3, <1>4, ReaderMoves DEF Sees

LEMMA CachedAnswers ==
    ASSUME Collected, client.pc \in {"look", "read", "reread", "bytes"}, NEW c \in Codes,
           Answers(c), UNCHANGED Surroundings, c = 500 => client.raced
    PROVE  Collected'
<1>1. PICK r, to : r = client /\ to = [r EXCEPT !.pc = "answered", !.status = c]
  OBVIOUS
<1>2. /\ r \in Readings /\ r.seen = <<>> /\ r.must = {} /\ Good(r.kind, r.digest)
  BY <1>1, ReaderIsSound
<1>3. "answered" \in ClientSteps
  BY CollectionValues
<1>4. /\ to \in Readings /\ to.pc = "answered" /\ to.kind = r.kind /\ to.digest = r.digest
      /\ to.status = c /\ to.seen = r.seen /\ to.must = r.must /\ to.raced = r.raced
  BY <1>1, <1>2, <1>3 DEF Readings
<1>5. client' = to /\ Good(to.kind, to.digest) /\ (to.status = 500 => to.raced)
  BY <1>1, <1>2, <1>4 DEF Answers
<1> QED BY <1>2, <1>4, <1>5, ReaderMoves DEF Sees

LEMMA SubmitStepsAreSound ==
    ASSUME Collected, SubmitLook \/ SubmitRead \/ SubmitReread \/ ReadArtifact
    PROVE  Collected'
<1>1. /\ "read" \in ClientSteps /\ "reread" \in ClientSteps
      /\ 200 \in Codes /\ 202 \in Codes /\ 404 \in Codes /\ 500 \in Codes
  BY CollectionValues
<1>2. UNCHANGED Surroundings
  BY DEF SubmitLook, SubmitRead, SubmitReread, ReadArtifact
<1>3. CASE SubmitLook
  <2>1. client.pc = "look"
    BY <1>3 DEF SubmitLook
  <2>2. CASE client.digest \in file
    <3>1. GoesOn("read")
      BY <1>3, <2>2 DEF SubmitLook, Looks
    <3> QED BY <1>1, <1>2, <2>1, <2>2, <3>1, CachedGoesOn
  <2>3. CASE client.digest \notin file
    <3>1. Answers(202)
      BY <1>3, <2>3 DEF SubmitLook, Looks
    <3> QED BY <1>1, <1>2, <2>1, <3>1, CachedAnswers
  <2> QED BY <2>2, <2>3
<1>4. CASE SubmitRead
  <2>1. client.pc = "read" /\ (client.digest \in file \/ client.raced)
    BY <1>4, ReaderIsSound DEF SubmitRead
  <2>2. CASE client.digest \notin file
    <3>1. Answers(500)
      BY <1>4, <2>2 DEF SubmitRead
    <3> QED BY <1>1, <1>2, <2>1, <2>2, <3>1, CachedAnswers
  <2>3. CASE client.digest \in file /\ client.digest \in Misfits
    <3>1. Answers(202)
      BY <1>4, <2>3 DEF SubmitRead
    <3> QED BY <1>1, <1>2, <2>1, <3>1, CachedAnswers
  <2>4. CASE client.digest \in file /\ client.digest \notin Misfits
    <3>1. GoesOn("reread")
      BY <1>4, <2>4 DEF SubmitRead
    <3> QED BY <1>1, <1>2, <2>1, <2>4, <3>1, CachedGoesOn
  <2> QED BY <2>2, <2>3, <2>4
<1>5. CASE SubmitReread
  <2>1. client.pc = "reread" /\ (client.digest \in file \/ client.raced)
    BY <1>5, ReaderIsSound DEF SubmitReread
  <2>2. CASE client.digest \in file
    <3>1. Answers(200)
      BY <1>5, <2>2 DEF SubmitReread
    <3> QED BY <1>1, <1>2, <2>1, <3>1, CachedAnswers
  <2>3. CASE client.digest \notin file
    <3>1. Answers(500)
      BY <1>5, <2>3 DEF SubmitReread
    <3> QED BY <1>1, <1>2, <2>1, <2>3, <3>1, CachedAnswers
  <2> QED BY <2>2, <2>3
<1>6. CASE ReadArtifact
  <2>1. client.pc = "bytes"
    BY <1>6 DEF ReadArtifact
  <2>2. CASE client.digest \in file
    <3>1. Answers(200)
      BY <1>6, <2>2 DEF ReadArtifact
    <3> QED BY <1>1, <1>2, <2>1, <3>1, CachedAnswers
  <2>3. CASE client.digest \notin file
    <3>1. Answers(404)
      BY <1>6, <2>3 DEF ReadArtifact
    <3> QED BY <1>1, <1>2, <2>1, <3>1, CachedAnswers
  <2> QED BY <2>2, <2>3
<1> QED BY <1>3, <1>4, <1>5, <1>6


\* The newest row of a digest is a row, and what the gate lets pass is good.
LEMMA GateLetsGoodPass ==
    ASSUME Collected, NEW i \in Recorded, Refusal(row[i].kind, row[i].version) = 200
    PROVE  Good(row[i].kind, row[i].digest)
<1>1. row[i].version \in {Unrecorded, row[i].origin}
  BY DEF Collected, VersionsAreTrue
<1>2. row[i].origin \notin Retracted[row[i].kind]
  BY <1>1 DEF Refusal
<1> QED BY <1>2 DEF Good

LEMMA RefusalIsCode ==
    ASSUME NEW k, NEW v
    PROVE  Refusal(k, v) \in Codes /\ Refusal(k, v) \in {200, 409, 410}
BY CollectionValues DEF Refusal

LEMMA AskArtifactIsSound ==
    ASSUME Collected, NEW d \in Digests, AskArtifact(d)
    PROVE  Collected'
<1>1. "bytes" \in ClientSteps /\ NoKind \in KindOrNot /\ 404 \in Codes
  BY CollectionValues
<1>2. UNCHANGED Surroundings
  BY DEF AskArtifact
<1>3. d \in PayloadOrNot
  BY CollectionValues DEF Digests, Collected, RowsAreOwn, Fits
<1>4. CASE Ends(NoKind, d, 404)
  BY <1>1, <1>2, <1>3, <1>4, EndIsSound
<1>5. ASSUME NEW i \in Newest({j \in there : row[j].digest = d}),
             IF Refusal(row[i].kind, row[i].version) = 200 THEN Begins(row[i].kind, d, "bytes")
             ELSE Ends(row[i].kind, d, Refusal(row[i].kind, row[i].version))
      PROVE  Collected'
  <2>1. i \in Recorded /\ row[i].digest = d /\ row[i] \in Rows
    BY RowsAreUsed DEF Newest, Collected, CollectionTypeOK
  <2>2. PICK k, c : k = row[i].kind /\ c = Refusal(row[i].kind, row[i].version)
    OBVIOUS
  <2>3. k \in KindOrNot
    BY <2>1, <2>2, CollectionValues DEF Rows
  <2>4. c \in Codes /\ c # 500
    BY <2>2, RefusalIsCode
  <2>5. CASE c = 200
    <3>1. Begins(k, d, "bytes") /\ Good(k, d)
      BY <1>5, <2>1, <2>2, <2>5, GateLetsGoodPass
    <3> QED BY <1>1, <1>2, <1>3, <2>3, <3>1, BeginIsSound
  <2>6. CASE c # 200
    <3>1. Ends(k, d, c)
      BY <1>5, <2>2, <2>6
    <3> QED BY <1>2, <1>3, <2>3, <2>4, <2>6, <3>1, EndIsSound
  <2> QED BY <2>5, <2>6
<1> QED BY <1>4, <1>5 DEF AskArtifact

LEMMA AskResultIsSound ==
    ASSUME Collected, NEW i \in Ids, AskResult(i)
    PROVE  Collected'
<1>1. "gate" \in ClientSteps /\ 404 \in Codes
  BY CollectionValues
<1>2. i \in Recorded /\ UNCHANGED Surroundings
  BY DEF AskResult
<1>3. row[i] \in Rows
  BY <1>2, RowsAreUsed DEF Collected
<1>4. PICK k, d : k = row[i].kind /\ d = row[i].digest
  OBVIOUS
<1>5. k \in KindOrNot /\ d \in PayloadOrNot
  BY <1>3, <1>4, CollectionValues DEF Rows
<1>6. CASE Begins(k, d, "gate")
  BY <1>1, <1>2, <1>4, <1>5, <1>6, BeginIsSound
<1>7. CASE Ends(k, d, 404)
  BY <1>1, <1>2, <1>5, <1>7, EndIsSound
<1> QED BY <1>4, <1>6, <1>7 DEF AskResult

\* Past the look at the file, some row of the digest was there, and the gate judges
\* by one that is left or, of a kind with retracted versions, by none.
LEMMA ReadResultIsSound ==
    ASSUME Collected, ReadResult
    PROVE  Collected'
<1>1. "answered" \in ClientSteps
  BY CollectionValues
<1>2. client.pc = "gate" /\ UNCHANGED Surroundings
  BY DEF ReadResult
<1>3. PICK r : /\ r = client /\ r \in Readings /\ r.seen = <<>> /\ r.must = {}
  BY <1>2, ReaderIsSound
<1>4. PICK h \in Recorded : row[h].digest = r.digest /\ row[h].kind = r.kind
  BY <1>2, <1>3 DEF Collected, HandedIsGood
<1>5. ASSUME NEW v, Answers(Refusal(r.kind, v)),
             \/ v = Unrecorded
             \/ \E i \in Recorded : row[i].digest = r.digest /\ row[i].kind = r.kind /\ v = row[i].version
      PROVE  Collected'
  <2>1. PICK c : c = Refusal(r.kind, v) /\ c \in Codes /\ c # 500
    BY RefusalIsCode
  <2>2. c = 200 => Good(r.kind, r.digest)
    <3>1. CASE v = Unrecorded
      <4>1. c = 200 => Retracted[r.kind] = {}
        BY <2>1, <3>1 DEF Refusal
      <4> QED BY <1>4, <4>1 DEF Good
    <3>2. CASE \E i \in Recorded : row[i].digest = r.digest /\ row[i].kind = r.kind /\ v = row[i].version
      BY <2>1, <3>2, GateLetsGoodPass
    <3> QED BY <1>5, <3>1, <3>2
  <2>3. PICK to : to = [r EXCEPT !.pc = "answered", !.status = c]
    OBVIOUS
  <2>4. /\ to \in Readings /\ to.pc = "answered" /\ to.kind = r.kind /\ to.digest = r.digest
        /\ to.status = c /\ to.seen = r.seen /\ to.must = r.must
    <3>1. r \in Readings /\ c \in Codes
      BY <1>3, <2>1
    <3> QED BY <1>1, <2>3, <3>1 DEF Readings
  <2>5. client' = to
    BY <1>3, <1>5, <2>1, <2>3 DEF Answers
  <2>6. c = 200 => Good(to.kind, to.digest)
    BY <2>2, <2>4
  <2> QED BY <1>2, <1>3, <2>1, <2>4, <2>5, <2>6, ReaderMoves DEF Sees
<1>6. CASE Answers(Refusal(client.kind, Unrecorded))
  BY <1>3, <1>5, <1>6
<1>7. ASSUME NEW i \in Newest({j \in there : /\ row[j].digest = client.digest
                                             /\ row[j].kind = client.kind}),
             Answers(Refusal(client.kind, row[i].version))
      PROVE  Collected'
  <2>1. i \in Recorded /\ row[i].digest = r.digest /\ row[i].kind = r.kind
    BY <1>3 DEF Newest, Collected, CollectionTypeOK
  <2> QED BY <1>3, <1>5, <1>7, <2>1
<1> QED BY <1>6, <1>7 DEF ReadResult

LEMMA LeaveIsSound ==
    ASSUME Collected, Leave
    PROVE  Collected'
<1>1. PICK to : to = Quiet
  OBVIOUS
<1>2. /\ to \in Readings /\ to.pc = "idle" /\ to.status = 0 /\ to.seen = <<>> /\ to.must = {}
  BY <1>1, QuietIsReading
<1> QED BY <1>1, <1>2, ReaderMoves DEF Leave, Sees

-----------------------------------------------------------------------------
(* A walk through the pages *)

LEMMA PrecedesIsAnOrder ==
    ASSUME Collected
    PROVE  /\ \A i, j \in Recorded : Behind(i, j) <=> Precedes(j, i)
           /\ \A i \in Recorded : ~Precedes(i, i)
           /\ \A i, j, h \in Recorded : Precedes(i, j) /\ Precedes(j, h) => Precedes(i, h)
<1>1. \A i \in Recorded : i \in Nat /\ row[i].at \in Nat
  BY RowsAreUsed, CollectionConstantsOK DEF Collected, Rows
<1> QED BY <1>1 DEF Behind, Precedes

\* A walk that shows rows in order shows none twice, and must show what it must.
LEMMA WalkMoves ==
    ASSUME Collected, NEW to \in Readings, client' = to, UNCHANGED Surroundings,
           to.pc \in {"walk", "answered"}, to.digest = NoDigest, to.status # 500,
           to.pc = "walk" => to.status = 0,
           NEW seen \in Seq(Ids), seen = to.seen, to.must \subseteq there,
           \A n \in DOMAIN seen : seen[n] \in Recorded,
           \A n, l \in DOMAIN seen : l < n => Precedes(seen[l], seen[n]),
           to.pc = "walk" =>
               \A i \in to.must : \/ \E n \in DOMAIN seen : seen[n] = i
                                  \/ seen = <<>> \/ Behind(i, seen[Len(seen)]),
           to.pc = "answered" => \A i \in to.must : \E n \in DOMAIN seen : seen[n] = i
    PROVE  Collected'
<1>1. /\ CollectionTypeOK' /\ RowsAreOwn' /\ NamingIsTrue' /\ WorkIsNested' /\ VersionsAreTrue'
      /\ Recorded' = Recorded /\ row' = row /\ file' = file /\ there' = there
      /\ worker' = worker
  BY OthersAreLeft
<1>2. SeenIsThere' /\ FileErrorsNeedAnUnlink'
  BY <1>1 DEF Collected, SeenIsThere, Sees, FileErrorsNeedAnUnlink
<1>3. HandedIsGood' /\ WithdrawnIsNotServed'
  BY <1>1 DEF HandedIsGood, WithdrawnIsNotServed
<1>4. Shown' = {seen[n] : n \in DOMAIN seen}
  BY DEF Shown
<1>5. WalkIsOrdered'
  BY <1>1, <1>4 DEF WalkIsOrdered, Precedes, Behind
<1>6. WalkIsExact'
  <2>1. ASSUME NEW l \in DOMAIN seen, NEW n \in DOMAIN seen, seen[l] = seen[n]
        PROVE  l = n
    <3>1. l \in Nat /\ n \in Nat
      OBVIOUS
    <3>2. ~(l < n) /\ ~(n < l)
      BY <2>1, PrecedesIsAnOrder
    <3> QED BY <3>1, <3>2
  <2> QED BY <1>4, <2>1 DEF WalkIsExact
<1> QED BY <1>1, <1>2, <1>3, <1>5, <1>6 DEF Collected

LEMMA OpenWalkIsSound ==
    ASSUME Collected, OpenWalk
    PROVE  Collected'
<1>1. PICK to, must, seen : must = there /\ seen = <<>> /\ to = [Quiet EXCEPT !.pc = "walk", !.must = must]
  OBVIOUS
<1>2. must \in SUBSET Ids /\ "walk" \in ClientSteps
  BY <1>1, CollectionValues DEF Collected, CollectionTypeOK, Recorded
<1>3. /\ to \in Readings /\ to.pc = "walk" /\ to.digest = NoDigest /\ to.status = 0
      /\ to.seen = seen /\ to.must = must
  BY <1>1, <1>2, QuietIsReading DEF Readings
<1>4. client' = to /\ UNCHANGED Surroundings
  BY <1>1 DEF OpenWalk
<1>5. seen \in Seq(Ids) /\ DOMAIN seen = {}
  BY <1>1, EmptySeq
<1>6. to.must \subseteq there /\ seen = to.seen /\ seen = <<>>
  BY <1>1, <1>3
<1>7. /\ \A n \in DOMAIN seen : seen[n] \in Recorded
      /\ \A n, l \in DOMAIN seen : l < n => Precedes(seen[l], seen[n])
  BY <1>5
<1>8. \A i \in to.must : \/ \E n \in DOMAIN seen : seen[n] = i
                         \/ seen = <<>> \/ Behind(i, seen[Len(seen)])
  BY <1>6
<1>9. to.pc \in {"walk", "answered"} /\ to.pc # "answered" /\ to.status # 500
  BY <1>3
<1> QED BY <1>3, <1>4, <1>5, <1>6, <1>7, <1>8, <1>9, WalkMoves

\* A page of what is left: the rows it shows, in order, and none of them before
\* one that stays behind.
LEMMA PagesAreInOrder ==
    ASSUME NEW left, NEW page \in Pages(left)
    PROVE  /\ page \in Seq(left) /\ DOMAIN page = 1..Len(page) /\ Len(page) \in Nat
           /\ \A n, l \in DOMAIN page : l < n => Precedes(page[l], page[n])
           /\ \A i \in left : \/ \E n \in DOMAIN page : page[n] = i
                              \/ /\ Len(page) \in DOMAIN page
                                 /\ \A n \in DOMAIN page : Precedes(page[n], i)
<1>1. PICK n \in 0..MAXIMUM_PAGE : page \in [1..n -> left]
  BY DEF Pages
<1>2. n \in Nat /\ MAXIMUM_PAGE \in Nat /\ MAXIMUM_PAGE >= 1
  BY CollectionConstantsOK
<1>3. page \in Seq(left) /\ Len(page) = n /\ DOMAIN page = 1..n
  BY <1>1, <1>2
<1>4. ASSUME NEW i \in left, \A l \in DOMAIN page : page[l] # i
      PROVE  Len(page) \in DOMAIN page /\ \A l \in DOMAIN page : Precedes(page[l], i)
  <2>1. Len(page) = MAXIMUM_PAGE /\ \A l \in DOMAIN page : Precedes(page[l], i)
    BY <1>4 DEF Pages
  <2> QED BY <1>2, <1>3, <2>1
<1> QED BY <1>2, <1>3, <1>4 DEF Pages

LEMMA NextPageIsSound ==
    ASSUME Collected, NextPage
    PROVE  Collected'
<1>1. PICK r, seen : r = client /\ seen = client.seen
  OBVIOUS
<1>2. /\ r \in Readings /\ r.pc = "walk" /\ r.digest = NoDigest /\ UNCHANGED Surroundings
      /\ seen \in Seq(Ids) /\ r.must \subseteq there
      /\ \A n \in DOMAIN seen : seen[n] \in Recorded
      /\ \A n, l \in DOMAIN seen : l < n => Precedes(seen[l], seen[n])
      /\ \A i \in r.must : \/ \E n \in DOMAIN seen : seen[n] = i
                           \/ seen = <<>> \/ Behind(i, seen[Len(seen)])
  BY <1>1 DEF NextPage, Collected, CollectionTypeOK, Readings, HandedIsGood, WalkIsOrdered, Shown
<1>3. PICK left :
          left = IF seen = <<>> THEN there ELSE {i \in there : Behind(i, seen[Len(seen)])}
  OBVIOUS
<1>a. left = LET last == client.seen[Len(client.seen)]
             IN  IF client.seen = <<>> THEN there ELSE {i \in there : Behind(i, last)}
  BY <1>1, <1>3
<1>0. PICK page \in Pages(left) :
        LET more == \E i \in left : \A n \in DOMAIN page : page[n] # i IN
        client' = [r EXCEPT !.pc = IF more THEN "walk" ELSE "answered",
                            !.status = IF more THEN 0 ELSE 200, !.seen = @ \o page]
  BY <1>1, <1>a DEF NextPage
<1>4. PICK more \in BOOLEAN :
          /\ more = \E i \in left : \A n \in DOMAIN page : page[n] # i
          /\ client' = [r EXCEPT !.pc = IF more THEN "walk" ELSE "answered",
                                 !.status = IF more THEN 0 ELSE 200, !.seen = seen \o page]
  BY <1>0, <1>1
<1>5. left \subseteq Recorded /\ left \subseteq Ids
  BY <1>3 DEF Collected, CollectionTypeOK, Recorded
<1>6. /\ page \in Seq(left) /\ DOMAIN page = 1..Len(page) /\ Len(page) \in Nat
      /\ \A n, l \in DOMAIN page : l < n => Precedes(page[l], page[n])
      /\ \A i \in left : \/ \E n \in DOMAIN page : page[n] = i
                         \/ /\ Len(page) \in DOMAIN page
                            /\ \A n \in DOMAIN page : Precedes(page[n], i)
  BY PagesAreInOrder
<1>7. /\ DOMAIN seen = 1..Len(seen) /\ Len(seen) \in Nat
      /\ seen # <<>> => Len(seen) \in DOMAIN seen
  BY <1>2, EmptySeq, LenProperties
<1>8. PICK shown : shown = seen \o page
  OBVIOUS
<1>9. /\ shown \in Seq(Ids) /\ Len(shown) = Len(seen) + Len(page)
      /\ DOMAIN shown = 1..Len(seen) + Len(page)
      /\ \A n \in DOMAIN seen : shown[n] = seen[n]
      /\ \A n \in DOMAIN page : shown[Len(seen) + n] = page[n]
  <2>1. page \in Seq(Ids)
    BY <1>5, <1>6
  <2> QED BY <1>2, <1>6, <1>7, <1>8, <2>1, ConcatProperties
<1>10. ASSUME NEW n \in DOMAIN shown, n \notin DOMAIN seen
       PROVE  n - Len(seen) \in DOMAIN page /\ shown[n] = page[n - Len(seen)]
  <2>1. n - Len(seen) \in DOMAIN page /\ Len(seen) + (n - Len(seen)) = n
    BY <1>6, <1>7, <1>9, <1>10
  <2> QED BY <1>9, <2>1
<1>11. \A n \in DOMAIN page : page[n] \in left
  BY <1>6
<1>12. \A n \in DOMAIN shown : shown[n] \in Recorded
  BY <1>2, <1>5, <1>9, <1>10, <1>11
<1>13. \A n \in DOMAIN seen, i \in left : Precedes(seen[n], i)
  <2> SUFFICES ASSUME NEW n \in DOMAIN seen, NEW i \in left PROVE Precedes(seen[n], i)
    OBVIOUS
  <2>1. seen # <<>>
    BY EmptySeq
  <2>2. PICK last : last = seen[Len(seen)] /\ last \in Recorded
    BY <1>2, <1>7, <2>1
  <2>3. Precedes(last, i)
    BY <1>3, <1>5, <2>1, <2>2, PrecedesIsAnOrder
  <2>4. n = Len(seen) \/ Precedes(seen[n], last)
    BY <1>2, <1>7, <2>1, <2>2
  <2> QED BY <1>2, <1>5, <2>2, <2>3, <2>4, PrecedesIsAnOrder
<1>14. \A n, l \in DOMAIN shown : l < n => Precedes(shown[l], shown[n])
  <2> SUFFICES ASSUME NEW n \in DOMAIN shown, NEW l \in DOMAIN shown, l < n
               PROVE  Precedes(shown[l], shown[n])
    OBVIOUS
  <2>1. CASE n \in DOMAIN seen
    <3>1. l \in DOMAIN seen
      BY <1>7, <1>9, <2>1
    <3> QED BY <1>2, <1>9, <2>1, <3>1
  <2>2. CASE n \notin DOMAIN seen /\ l \in DOMAIN seen
    BY <1>9, <1>10, <1>11, <1>13, <2>2
  <2>3. CASE n \notin DOMAIN seen /\ l \notin DOMAIN seen
    <3>1. n - Len(seen) \in DOMAIN page /\ l - Len(seen) \in DOMAIN page
      BY <1>10, <2>3
    <3>2. l - Len(seen) < n - Len(seen)
      BY <1>7, <1>9
    <3> QED BY <1>6, <1>10, <2>3, <3>1, <3>2
  <2> QED BY <2>1, <2>2, <2>3
<1>15. ASSUME NEW i \in r.must
       PROVE  \/ \E n \in DOMAIN shown : shown[n] = i
              \/ /\ more
                 /\ Behind(i, shown[Len(shown)])
  <2>1. CASE \E n \in DOMAIN seen : seen[n] = i
    <3>1. PICK n \in DOMAIN seen : seen[n] = i
      BY <2>1
    <3>2. n \in DOMAIN shown /\ shown[n] = i
      BY <1>6, <1>7, <1>9, <3>1
    <3> QED BY <3>2
  <2>2. CASE ~\E n \in DOMAIN seen : seen[n] = i
    <3>1. i \in left
      BY <1>2, <1>3, <2>2
    <3>2. CASE \E n \in DOMAIN page : page[n] = i
      <4>1. PICK n \in DOMAIN page : page[n] = i
        BY <3>2
      <4>2. Len(seen) + n \in DOMAIN shown /\ shown[Len(seen) + n] = i
        BY <1>6, <1>7, <1>9, <4>1
      <4> QED BY <4>2
    <3>3. CASE \A n \in DOMAIN page : page[n] # i
      <4>1. more /\ Len(page) \in DOMAIN page /\ Precedes(page[Len(page)], i)
        BY <1>4, <1>6, <3>1, <3>3
      <4>2. shown[Len(shown)] = page[Len(page)]
        BY <1>9, <4>1
      <4>3. page[Len(page)] \in Recorded /\ i \in Recorded
        BY <1>5, <1>11, <3>1, <4>1
      <4> QED BY <4>1, <4>2, <4>3, PrecedesIsAnOrder
    <3> QED BY <3>2, <3>3
  <2> QED BY <2>1, <2>2
<1>16. PICK s, c : /\ s = (IF more THEN "walk" ELSE "answered") /\ c = IF more THEN 0 ELSE 200
  OBVIOUS
<1>17. s \in ClientSteps /\ c \in Codes
  BY <1>16, CollectionValues
<1>18. PICK to : to = [r EXCEPT !.pc = s, !.status = c, !.seen = shown]
  OBVIOUS
<1>19. /\ to \in Readings /\ to.pc = s /\ to.status = c /\ to.seen = shown /\ to.must = r.must
       /\ to.digest = r.digest
  <2>1. r \in Readings /\ shown \in Seq(Ids)
    BY <1>2, <1>9
  <2> QED BY <1>17, <1>18, <2>1 DEF Readings
<1>20. client' = to
  BY <1>4, <1>8, <1>16, <1>18
<1>21. /\ s \in {"walk", "answered"} /\ c # 500 /\ (s = "walk" <=> more) /\ (s = "walk" => c = 0)
  BY <1>16
<1>22. UNCHANGED Surroundings /\ to.digest = NoDigest /\ to.must \subseteq there
  BY <1>2, <1>19
<1>23. /\ to.pc = "walk" => \A i \in to.must : \/ \E n \in DOMAIN shown : shown[n] = i
                                               \/ shown = <<>> \/ Behind(i, shown[Len(shown)])
       /\ to.pc = "answered" => \A i \in to.must : \E n \in DOMAIN shown : shown[n] = i
  BY <1>15, <1>19, <1>21
<1> QED BY <1>9, <1>12, <1>14, <1>19, <1>20, <1>21, <1>22, <1>23, WalkMoves

LEMMA AskIsSound ==
    ASSUME Collected, Ask
    PROVE  Collected'
<1>1. ASSUME NEW k \in Asked, Submit(k) PROVE Collected'
  BY <1>1, SubmitIsSound
<1>2. CASE SubmitLook \/ SubmitRead \/ SubmitReread \/ ReadArtifact
  BY <1>2, SubmitStepsAreSound
<1>3. ASSUME NEW d \in Digests, AskArtifact(d) PROVE Collected'
  BY <1>3, AskArtifactIsSound
<1>4. ASSUME NEW i \in Ids, AskResult(i) PROVE Collected'
  BY <1>4, AskResultIsSound
<1>5. CASE ReadResult \/ OpenWalk \/ NextPage \/ Leave
  BY <1>5, ReadResultIsSound, OpenWalkIsSound, NextPageIsSound, LeaveIsSound
<1> QED BY <1>1, <1>2, <1>3, <1>4, <1>5 DEF Ask

LEMMA CollectedNext == Collected /\ [CollectionNext]_collectionVars => Collected'
<1> SUFFICES ASSUME Collected, [CollectionNext]_collectionVars PROVE Collected'
  OBVIOUS
<1>1. CASE Tick \/ PruneRows \/ StartBackfill \/ NameRows \/ InterruptBackfill
  BY <1>1, TickIsSound, PruneRowsIsSound, StartBackfillIsSound, NameRowsIsSound,
     InterruptBackfillIsSound
<1>2. ASSUME NEW d \in doomed, Unlink(d) PROVE Collected'
  BY <1>2, UnlinkIsSound
<1>3. ASSUME NEW w \in Workers, Work(w) PROVE Collected'
  BY <1>3, WorkIsSound
<1>4. CASE Ask
  BY <1>4, AskIsSound
<1>5. CASE UNCHANGED collectionVars
  <2>1. UNCHANGED Surroundings /\ client' \in Readings /\ client' = client
    BY <1>5 DEF collectionVars, Surroundings, Collected, CollectionTypeOK
  <2>2. /\ CollectionTypeOK' /\ RowsAreOwn' /\ NamingIsTrue' /\ WorkIsNested' /\ VersionsAreTrue'
        /\ Recorded' = Recorded /\ row' = row /\ file' = file /\ there' = there
        /\ worker' = worker
    BY <2>1, OthersAreLeft
  <2>3. SeenIsThere' /\ FileErrorsNeedAnUnlink'
    BY <2>1, <2>2 DEF Collected, SeenIsThere, Sees, FileErrorsNeedAnUnlink
  <2>4. RowsKept /\ ClientKept /\ client'.must \subseteq client.must /\ client'.must \subseteq there'
    BY <2>1, <2>2 DEF RowsKept, ClientKept, Collected, WalkIsOrdered
  <2>5. HandedIsGood' /\ WalkIsOrdered' /\ WithdrawnIsNotServed' /\ WalkIsExact'
    BY <2>4, ClientIsLeft
  <2> QED BY <2>2, <2>3, <2>5 DEF Collected
<1> QED BY <1>1, <1>2, <1>3, <1>4, <1>5 DEF CollectionNext

LEMMA CollectedAlways == CollectionSpec => []Collected
BY CollectedInit, CollectedNext, PTL DEF CollectionSpec

\* The types of Collection.
THEOREM CollectionTyping == CollectionSpec => []CollectionTypeOK
<1>1. Collected => CollectionTypeOK
  BY DEF Collected
<1> QED BY <1>1, CollectedAlways, PTL

\* Whatever versions are retracted and whatever digests they share, no route answers
\* 200 with a payload that only retracted versions have produced.
THEOREM WithdrawnIsNotServedForAny == CollectionSpec => []WithdrawnIsNotServed
<1>1. Collected => WithdrawnIsNotServed
  BY DEF Collected
<1> QED BY <1>1, CollectedAlways, PTL

\* For any number of rows and any size of page, a walk shows every row that was
\* there all along, and none twice.
THEOREM WalkIsExactForAny == CollectionSpec => []WalkIsExact
<1>1. Collected => WalkIsExact
  BY DEF Collected
<1> QED BY <1>1, CollectedAlways, PTL

\* A cached answer or a job fails on a file only if a prune unlinked it meanwhile.
THEOREM FileErrorsNeedAnUnlinkForAny == CollectionSpec => []FileErrorsNeedAnUnlink
<1>1. Collected => FileErrorsNeedAnUnlink
  BY DEF Collected
<1> QED BY <1>1, CollectedAlways, PTL

\* A row names the version that produced its payload, or none.
THEOREM VersionsAreTrueForAny == CollectionSpec => []VersionsAreTrue
<1>1. Collected => VersionsAreTrue
  BY DEF Collected
<1> QED BY <1>1, CollectedAlways, PTL
=============================================================================
