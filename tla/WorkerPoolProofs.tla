-------------------------- MODULE WorkerPoolProofs --------------------------
(***************************************************************************)
(* Theorems of WorkerPool, for any number of pumps, jobs and lanes, any    *)
(* costs and any limit.                                                    *)
(***************************************************************************)
EXTENDS WorkerPool, FiniteSetTheorems, TLAPS

-----------------------------------------------------------------------------
(* Counting pumps *)

At(X) == {p \in Pumps : pc[p] \in X}

LEMMA SubsetsAreFinite ==
    ASSUME NEW S \in SUBSET Pumps
    PROVE  IsFiniteSet(S) /\ Cardinality(S) \in Nat /\ Cardinality(S) <= Concurrency
BY ConstantsOK, FS_Subset, FS_CardinalityType DEF Concurrency

LEMMA OneMore ==
    ASSUME NEW S \in SUBSET Pumps, NEW p \in Pumps, p \notin S
    PROVE  Cardinality(S \cup {p}) = Cardinality(S) + 1
BY SubsetsAreFinite, FS_AddElement

LEMMA OneLess ==
    ASSUME NEW S \in SUBSET Pumps, NEW p \in S
    PROVE  Cardinality(S) > 0 /\ Cardinality(S \ {p}) = Cardinality(S) - 1
BY SubsetsAreFinite, FS_RemoveElement, FS_EmptySet

LEMMA NoneIsZero == Cardinality({}) = 0
BY FS_EmptySet

\* What a pump's step does to a count of pumps by their place in the loop.
LEMMA GotoCounts ==
    ASSUME pc \in [Pumps -> Phase], NEW p \in Pumps, NEW phase \in Phase,
           Goto(p, phase), NEW X
    PROVE  /\ pc' \in [Pumps -> Phase]
           /\ (pc[p] \in X <=> phase \in X) => At(X)' = At(X)
           /\ pc[p] \in X /\ phase \notin X => Cardinality(At(X)') = Cardinality(At(X)) - 1
           /\ pc[p] \notin X /\ phase \in X => Cardinality(At(X)') = Cardinality(At(X)) + 1
<1>0. /\ pc' \in [Pumps -> Phase] /\ pc'[p] = phase
      /\ \A q \in Pumps \ {p} : pc'[q] = pc[q]
  BY DEF Goto
<1>1. CASE pc[p] \in X <=> phase \in X
  BY <1>0, <1>1 DEF At
<1>2. CASE pc[p] \in X /\ phase \notin X
  <2>1. At(X)' = At(X) \ {p} /\ p \in At(X) /\ At(X) \in SUBSET Pumps
    BY <1>0, <1>2 DEF At
  <2> QED BY <1>0, <1>2, <2>1, OneLess
<1>3. CASE pc[p] \notin X /\ phase \in X
  <2>1. At(X)' = At(X) \cup {p} /\ p \notin At(X) /\ At(X) \in SUBSET Pumps
    BY <1>0, <1>3 DEF At
  <2> QED BY <1>0, <1>3, <2>1, OneMore
<1> QED BY <1>0, <1>1, <1>2, <1>3

-----------------------------------------------------------------------------
(* The line *)

LEMMA LineWithout ==
    ASSUME line \in Seq(Jobs), NEW j PROVE Without(j) \in Seq(Jobs)
<1>1. \A i \in 1..(Len(line) - 1) : line[i] \in Jobs /\ line[i + 1] \in Jobs
  OBVIOUS
<1>2. CASE Len(line) = 0
  <2>1. Without(j) = <<>>
    BY <1>2 DEF Without
  <2> QED BY <2>1
<1>3. CASE Len(line) # 0
  <2>1. Len(line) - 1 \in Nat
    BY <1>3
  <2>2. \A i \in 1..(Len(line) - 1) :
           (IF i < Place(j) THEN line[i] ELSE line[i + 1]) \in Jobs
    BY <1>1
  <2>3. Without(j) \in [1..(Len(line) - 1) -> Jobs]
    BY <2>2 DEF Without
  <2> QED BY <2>1, <2>3
<1> QED BY <1>2, <1>3

LEMMA CandidatesAreJobs ==
    ASSUME line \in Seq(Jobs), NEW i \in Candidates
    PROVE  line[i] \in Jobs /\ Admissible(line[i])
BY DEF Candidates

-----------------------------------------------------------------------------
(* Types and the limit *)

HoldsAJob ==
    \A p \in Pumps : pc[p] \in {"permit", "collect", "leave", "settle"} => holds[p] \in Jobs

\* Between two drains no pump runs.
Quiet == serving # "draining" => \A p \in Pumps : pc[p] = "out"

Deciding == {"claim", "unreserve"}

\* With a limit, what has been started and what pumps are deciding on is reserved,
\* and perhaps what pumps were that ended in an error: it does not exceed the limit,
\* and never falls below zero.
ReservedCounts ==
    /\ limit = NoLimit => reserved = 0 /\ started = 0
    /\ limit # NoLimit => /\ reserved >= started + Cardinality(At(Deciding))
                          /\ reserved <= limit

Base == TypeOK /\ HoldsAJob /\ Quiet /\ ReservedCounts

LEMMA PhasesAre ==
    {"out", "check", "reserve", "claim", "unreserve", "permit", "collect", "leave", "settle"}
      = Phase
BY DEF Phase

LEMMA LimitIsNumber == ASSUME limit \in Limits, limit # NoLimit PROVE limit \in Nat
BY ConstantsOK

LEMMA BaseInit == Init => Base
<1> SUFFICES ASSUME Init PROVE Base
  OBVIOUS
<1>1. At(Deciding) = {}
  BY DEF Init, At, Deciding
<1>2. TypeOK
  <2>1. line \in Seq(Jobs)
    BY DEF Init
  <2>2. status \in [Jobs -> Status] /\ pc \in [Pumps -> Phase] /\ holds \in [Pumps -> Jobs \cup {NoJob}]
    BY DEF Init, Status, Phase
  <2>3. in_flight \in [Costs -> Nat]
    BY DEF Init
  <2> QED BY <2>1, <2>2, <2>3 DEF Init, TypeOK
<1>3. ReservedCounts
  <2>1. limit # NoLimit => limit \in Nat
    BY ConstantsOK DEF Init
  <2> QED BY <1>1, <2>1, NoneIsZero DEF Init, ReservedCounts
<1> QED BY <1>2, <1>3 DEF Init, Base, HoldsAJob, Quiet

LEMMA GiveBackIsTyped ==
    ASSUME in_flight \in [Costs -> Nat], NEW p \in Pumps, holds[p] \in Jobs, GiveBack(p)
    PROVE  in_flight' \in [Costs -> Nat]
<1>1. Cost[holds[p]] \in Costs
  BY ConstantsOK
<1> QED BY <1>1 DEF GiveBack, AtLeastOne

\* A step that takes p to another phase and leaves alone what is being decided.
LEMMA BaseGoto ==
    ASSUME Base, NEW p \in Pumps, NEW phase \in Phase, Goto(p, phase),
           serving' = "draining", limit' = limit,
           status' \in [Jobs -> Status], line' \in Seq(Jobs),
           holds' \in [Pumps -> Jobs \cup {NoJob}], in_flight' \in [Costs -> Nat],
           UNCHANGED <<stop, paused, quarantined>>,
           started' \in Nat, late' \in Nat, reserved' \in Nat,
           phase \in {"permit", "collect", "leave", "settle"} => holds'[p] \in Jobs,
           \A q \in Pumps \ {p} : holds'[q] = holds[q],
           ReservedCounts'
    PROVE  Base'
<1>1. pc' \in [Pumps -> Phase] /\ pc'[p] = phase /\ \A q \in Pumps \ {p} : pc'[q] = pc[q]
  BY DEF Goto, Base, TypeOK
<1>2. HoldsAJob' /\ Quiet'
  BY <1>1 DEF Base, HoldsAJob, Quiet
<1> QED BY <1>1, <1>2 DEF Base, TypeOK

\* A pump that runs, runs in a drain.
LEMMA Draining == ASSUME Base, NEW p \in Pumps, pc[p] # "out" PROVE serving = "draining"
BY DEF Base, Quiet

\* What is reserved when the number of the deciding does not change.
LEMMA ReservedStays ==
    ASSUME Base, NEW p \in Pumps, NEW phase \in Phase, Goto(p, phase),
           pc[p] \in Deciding <=> phase \in Deciding,
           UNCHANGED <<limit, reserved, started>>
    PROVE  ReservedCounts'
<1>1. At(Deciding)' = At(Deciding)
  BY GotoCounts DEF Base, TypeOK
<1> QED BY <1>1 DEF Base, ReservedCounts

LEMMA BaseNext == Base /\ [Next]_vars => Base'
<1> SUFFICES ASSUME Base, [Next]_vars PROVE Base'
  OBVIOUS
<1> USE ConstantsOK
<1>t. /\ TypeOK /\ HoldsAJob /\ Quiet /\ ReservedCounts
      /\ pc \in [Pumps -> Phase] /\ line \in Seq(Jobs) /\ status \in [Jobs -> Status]
      /\ holds \in [Pumps -> Jobs \cup {NoJob}] /\ in_flight \in [Costs -> Nat]
      /\ reserved \in Nat /\ started \in Nat /\ late \in Nat /\ limit \in Limits
  BY DEF Base, TypeOK
<1>1. ASSUME NEW j \in Jobs, Submit(j) \/ ComeDue(j) PROVE Base'
  <2>1. status' \in [Jobs -> Status] /\ line' \in Seq(Jobs)
    <3>1. Append(line, j) \in Seq(Jobs) /\ "queued" \in Status
      BY <1>t DEF Status
    <3>2. status' = [status EXCEPT ![j] = "queued"] /\ line' = Append(line, j)
      BY <1>1 DEF Submit, ComeDue
    <3> QED BY <1>t, <3>1, <3>2
  <2> QED BY <1>1, <2>1 DEF Submit, ComeDue, Base, TypeOK, HoldsAJob, Quiet,
                            ReservedCounts, At, pool, control, counts
<1>2. CASE SetPaused \/ Stop \/ \E l \in Lanes : SetQuarantined(l)
  BY <1>2 DEF SetPaused, Stop, SetQuarantined, Base, TypeOK, HoldsAJob, Quiet,
              ReservedCounts, At, queue, pool, counts
<1>3. CASE StartDrain
  <2>1. status' \in [Jobs -> Status]
    BY <1>t, <1>3 DEF StartDrain, Status
  <2>2. CASE paused
    BY <1>t, <1>3, <2>1, <2>2 DEF StartDrain, Base, TypeOK, HoldsAJob, Quiet,
                     ReservedCounts, At, control, Afterwards
  <2>3. CASE ~paused
    <3>1. /\ pc' = [p \in Pumps |-> "check"] /\ reserved' = 0 /\ started' = 0
          /\ serving' = "draining" /\ UNCHANGED <<line, limit, holds, in_flight, late>>
          /\ UNCHANGED <<stop, paused, quarantined>>
      BY <1>3, <2>3 DEF StartDrain, control
    <3>2. At(Deciding)' = {}
      BY <3>1 DEF At, Deciding
    <3>3. ReservedCounts'
      <4>1. limit # NoLimit => limit \in Nat
        BY <1>t
      <4> QED BY <3>1, <3>2, <4>1, NoneIsZero DEF ReservedCounts
    <3>4. pc' \in [Pumps -> Phase]
      BY <3>1 DEF Phase
    <3> QED BY <1>t, <2>1, <3>1, <3>3, <3>4 DEF Base, TypeOK, HoldsAJob, Quiet
  <2> QED BY <2>2, <2>3
<1>4. CASE EndDrain
  BY <1>t, <1>4 DEF EndDrain, Base, TypeOK, HoldsAJob, Quiet, ReservedCounts, At,
                    queue, control, counts, Afterwards
<1>5. ASSUME NEW p \in Pumps, PumpStep(p) \/ DatabaseError(p) PROVE Base'
  <2>0. pc[p] # "out" => serving = "draining"
    BY Draining
  <2>1. CASE Check(p)
    <3> DEFINE phase == IF Halted THEN "out" ELSE "reserve"
    <3>1. phase \in Phase /\ phase \notin Deciding /\ pc[p] \notin Deciding /\ Goto(p, phase)
      BY <2>1 DEF Check, Phase, Deciding
    <3> QED
      BY <1>t, <2>0, <2>1, <3>1, BaseGoto, ReservedStays DEF Check, queue, control, counts
  <2>2. CASE Reserve(p)
    <3>1. CASE Full
      BY <1>t, <2>0, <2>2, <3>1, BaseGoto, ReservedStays, PhasesAre
      DEF Reserve, queue, control, counts, Deciding
    <3>2. CASE ~Full
      <4>1. /\ Goto(p, "claim") /\ reserved' = reserved + Charge /\ pc[p] = "reserve"
            /\ UNCHANGED <<limit, serving, holds, in_flight, started>>
        BY <2>2, <3>2 DEF Reserve, counts
      <4>2. Cardinality(At(Deciding)') = Cardinality(At(Deciding)) + 1
        BY <1>t, <4>1, GotoCounts, PhasesAre DEF Deciding
      <4>3. Cardinality(At(Deciding)) \in Nat
        BY SubsetsAreFinite DEF At
      <4>4. ReservedCounts'
        <5>1. CASE limit = NoLimit
          BY <1>t, <4>1, <5>1 DEF ReservedCounts, Charge
        <5>2. CASE limit # NoLimit
          <6>1. limit \in Nat /\ limit' = limit /\ reserved < limit
            BY <1>t, <3>2, <4>1, <5>2, LimitIsNumber DEF Full
          <6>2. reserved' = reserved + 1 /\ reserved >= started + Cardinality(At(Deciding))
            BY <1>t, <4>1, <5>2 DEF ReservedCounts, Charge
          <6>3. started \in Nat /\ reserved \in Nat /\ started' = started /\ limit' # NoLimit
            BY <1>t, <4>1, <5>2
          <6>4. reserved' >= started' + Cardinality(At(Deciding)')
            BY <4>2, <4>3, <6>2, <6>3
          <6>5. reserved' <= limit'
            BY <6>1, <6>2, <6>3
          <6> QED BY <6>3, <6>4, <6>5 DEF ReservedCounts
        <5> QED BY <5>1, <5>2
      <4>5. reserved' \in Nat
        BY <1>t, <4>1 DEF Charge
      <4> QED
        BY <1>t, <2>0, <2>2, <4>1, <4>4, <4>5, BaseGoto, PhasesAre
        DEF Reserve, queue, control, counts
    <3> QED BY <3>1, <3>2
  <2>3. CASE Claim(p)
    <3> PICK i \in Candidates :
          /\ status' = [status EXCEPT ![line[i]] = "running"]
          /\ holds' = [holds EXCEPT ![p] = line[i]]
          /\ in_flight' = [in_flight EXCEPT ![Cost[line[i]]] = @ + 1]
      BY <2>3 DEF Claim
    <3>1. line[i] \in Jobs /\ Cost[line[i]] \in Costs
      BY <1>t, CandidatesAreJobs
    <3>2. /\ Goto(p, "permit") /\ pc[p] = "claim" /\ started' = started + Charge
          /\ UNCHANGED <<limit, reserved, serving, line, stop, paused, quarantined>>
          /\ late' = IF stop THEN late + 1 ELSE late
      BY <2>3 DEF Claim, control
    <3>3. Cardinality(At(Deciding)') = Cardinality(At(Deciding)) - 1
      <4>1. pc[p] \in Deciding /\ "permit" \notin Deciding /\ "permit" \in Phase
        BY <3>2, PhasesAre DEF Deciding
      <4> QED BY <1>t, <3>2, <4>1, GotoCounts
    <3>4. Cardinality(At(Deciding)) \in Nat
      BY SubsetsAreFinite DEF At
    <3>5. ReservedCounts'
      BY <1>t, <3>2, <3>3, <3>4 DEF ReservedCounts, Charge
    <3>6. started' \in Nat /\ late' \in Nat
      BY <1>t, <3>2 DEF Charge
    <3>7. status' \in [Jobs -> Status] /\ in_flight' \in [Costs -> Nat]
      BY <1>t, <3>1 DEF Status
    <3>8. holds' \in [Pumps -> Jobs \cup {NoJob}] /\ holds'[p] \in Jobs
          /\ \A q \in Pumps \ {p} : holds'[q] = holds[q]
      BY <1>t, <3>1
    <3> QED BY <1>t, <2>0, <3>2, <3>5, <3>6, <3>7, <3>8, BaseGoto, PhasesAre
  <2>4. CASE ClaimNothing(p)
    BY <1>t, <2>0, <2>4, BaseGoto, ReservedStays, PhasesAre
    DEF ClaimNothing, queue, control, counts, Deciding
  <2>5. CASE Unreserve(p)
    <3>1. /\ Goto(p, "out") /\ reserved' = reserved - Charge /\ pc[p] = "unreserve"
          /\ UNCHANGED <<limit, serving, holds, in_flight, started>>
      BY <2>5 DEF Unreserve, counts
    <3>2. Cardinality(At(Deciding)') = Cardinality(At(Deciding)) - 1
      <4>1. pc[p] \in Deciding /\ "out" \notin Deciding /\ "out" \in Phase
        BY <3>1, PhasesAre DEF Deciding
      <4> QED BY <1>t, <3>1, <4>1, GotoCounts
    <3>3. Cardinality(At(Deciding)) \in Nat /\ Cardinality(At(Deciding)) > 0
      <4>1. p \in At(Deciding) /\ At(Deciding) \in SUBSET Pumps
        BY <3>1 DEF At, Deciding
      <4> QED BY <4>1, SubsetsAreFinite, OneLess
    <3>4. ReservedCounts' /\ reserved' \in Nat
      <4>1. CASE limit = NoLimit
        BY <1>t, <3>1, <4>1 DEF ReservedCounts, Charge
      <4>2. CASE limit # NoLimit
        BY <1>t, <3>1, <3>2, <3>3, <4>2, LimitIsNumber DEF ReservedCounts, Charge
      <4> QED BY <4>1, <4>2
    <3> QED
      BY <1>t, <2>0, <2>5, <3>1, <3>4, BaseGoto, PhasesAre DEF Unreserve, queue, control, counts
  <2>6. CASE Grant(p)
    BY <1>t, <2>0, <2>6, BaseGoto, ReservedStays, PhasesAre
    DEF Grant, queue, control, counts, Deciding, HoldsAJob
  <2>7. CASE Refuse(p)
    <3>1. status' \in [Jobs -> Status]
      BY <1>t, <2>7 DEF Refuse, Status
    <3> QED BY <1>t, <2>0, <2>7, <3>1, BaseGoto, ReservedStays, PhasesAre
        DEF Refuse, control, counts, Deciding, HoldsAJob
  <2>8. CASE Fail(p)
    <3>1. status' \in [Jobs -> Status] /\ line' \in Seq(Jobs)
      BY <1>t, <2>8, LineWithout DEF Fail, Status
    <3> QED BY <1>t, <2>0, <2>8, <3>1, BaseGoto, ReservedStays, PhasesAre
        DEF Fail, control, Deciding, HoldsAJob
  <2>9. CASE Collected(p)
    <3>1. in_flight' \in [Costs -> Nat]
      BY <1>t, <2>9, GiveBackIsTyped DEF Collected, HoldsAJob
    <3> QED BY <1>t, <2>0, <2>9, <3>1, BaseGoto, ReservedStays, PhasesAre
        DEF Collected, queue, control, counts, Deciding, HoldsAJob
  <2>10. CASE Leave(p)
    <3>1. in_flight' \in [Costs -> Nat]
      BY <1>t, <2>10, GiveBackIsTyped DEF Leave, HoldsAJob
    <3>2. holds' \in [Pumps -> Jobs \cup {NoJob}] /\ \A q \in Pumps \ {p} : holds'[q] = holds[q]
      BY <1>t, <2>10 DEF Leave
    <3> QED BY <1>t, <2>0, <2>10, <3>1, <3>2, BaseGoto, ReservedStays, PhasesAre
        DEF Leave, queue, control, counts, Deciding
  <2>11. CASE Settle(p)
    <3>1. status' \in [Jobs -> Status] /\ line' \in Seq(Jobs)
      BY <1>t, <2>11, LineWithout DEF Settle, Status
    <3>2. holds' \in [Pumps -> Jobs \cup {NoJob}] /\ \A q \in Pumps \ {p} : holds'[q] = holds[q]
      BY <1>t, <2>11 DEF Settle
    <3> QED BY <1>t, <2>0, <2>11, <3>1, <3>2, BaseGoto, ReservedStays, PhasesAre
        DEF Settle, control, counts, Deciding
  <2>12. CASE DatabaseError(p)
    <3>1. in_flight' \in [Costs -> Nat]
      BY <1>t, <2>12, GiveBackIsTyped DEF DatabaseError, HoldsAJob
    <3>2. holds' \in [Pumps -> Jobs \cup {NoJob}] /\ \A q \in Pumps \ {p} : holds'[q] = holds[q]
      BY <1>t, <2>12 DEF DatabaseError
    <3>3. CASE pc[p] # "claim"
      BY <1>t, <2>0, <2>12, <3>1, <3>2, <3>3, BaseGoto, ReservedStays, PhasesAre
      DEF DatabaseError, queue, control, Deciding
    <3>4. CASE pc[p] = "claim"
      <4>1. Goto(p, "out") /\ UNCHANGED <<limit, serving, reserved, started>>
        BY <2>12 DEF DatabaseError
      <4>2. Cardinality(At(Deciding)') = Cardinality(At(Deciding)) - 1
        <5>1. pc[p] \in Deciding /\ "out" \notin Deciding /\ "out" \in Phase
          BY <3>4, PhasesAre DEF Deciding
        <5> QED BY <1>t, <4>1, <5>1, GotoCounts
      <4>3. Cardinality(At(Deciding)) \in Nat
        BY SubsetsAreFinite DEF At
      <4>4. ReservedCounts'
        BY <1>t, <4>1, <4>2, <4>3 DEF ReservedCounts
      <4> QED
        BY <1>t, <2>0, <2>12, <3>1, <3>2, <4>1, <4>4, BaseGoto, PhasesAre
        DEF DatabaseError, queue, control
    <3> QED BY <3>3, <3>4
  <2> QED
    BY <1>5, <2>1, <2>2, <2>3, <2>4, <2>5, <2>6, <2>7, <2>8, <2>9, <2>10, <2>11, <2>12
    DEF PumpStep
<1>6. CASE UNCHANGED vars
  BY <1>t, <1>6 DEF vars, queue, pool, control, counts, Base, TypeOK, HoldsAJob, Quiet,
                    ReservedCounts, At
<1> QED BY <1>1, <1>2, <1>3, <1>4, <1>5, <1>6 DEF Next, ServeStep

\* Every reachable state of the pool is well typed: no reservation is returned
\* twice, whichever way the pumps leave.
THEOREM Typing == Spec => []TypeOK
<1>1. Spec => []Base
  BY BaseInit, BaseNext, PTL DEF Spec
<1>2. Base => TypeOK
  BY DEF Base
<1> QED BY <1>1, <1>2, PTL

\* A drain with a limit starts no more jobs than the limit, with any number of
\* pumps.
THEOREM LimitIsKeptByAny == Spec => []LimitIsKept
<1>1. Spec => []Base
  BY BaseInit, BaseNext, PTL DEF Spec
<1>2. Base => LimitIsKept
  <2> SUFFICES ASSUME Base, limit # NoLimit PROVE started <= limit
    BY DEF LimitIsKept
  <2>1. Cardinality(At(Deciding)) \in Nat
    BY SubsetsAreFinite DEF At
  <2> QED BY <2>1, LimitIsNumber DEF Base, TypeOK, ReservedCounts
<1> QED BY <1>1, <1>2, PTL
-----------------------------------------------------------------------------
(* The stop *)

Passed == {"reserve", "claim"}

\* After the stop, every pump past its check may start one more job.
LateCounts ==
    /\ ~stop => late = 0
    /\ stop => late + Cardinality(At(Passed)) <= Concurrency

LEMMA PassedIsBounded == Cardinality(At(Passed)) \in Nat /\ Cardinality(At(Passed)) <= Concurrency
BY SubsetsAreFinite DEF At

\* A step of a pump that does not pass its check, and claims nothing.
LEMMA LateStays ==
    ASSUME Base, LateCounts, NEW p \in Pumps, NEW phase \in Phase, Goto(p, phase),
           phase \in Passed => pc[p] \in Passed,
           late' = late, stop' = stop
    PROVE  LateCounts'
<1>1. pc \in [Pumps -> Phase] /\ late \in Nat
  BY DEF Base, TypeOK
<1>2. CASE pc[p] \in Passed <=> phase \in Passed
  <2>1. At(Passed)' = At(Passed)
    BY <1>1, <1>2, GotoCounts
  <2> QED BY <2>1 DEF LateCounts
<1>3. CASE pc[p] \in Passed /\ phase \notin Passed
  <2>1. Cardinality(At(Passed)') = Cardinality(At(Passed)) - 1
    BY <1>1, <1>3, GotoCounts
  <2>2. Concurrency' = Concurrency /\ Concurrency \in Nat
    BY ConstantsOK, FS_CardinalityType DEF Concurrency
  <2> QED BY <1>1, <2>1, <2>2, PassedIsBounded DEF LateCounts
<1> QED BY <1>2, <1>3

LEMMA LateInit == Init => LateCounts
BY DEF Init, LateCounts

LEMMA LateNext == Base /\ LateCounts /\ [Next]_vars => LateCounts'
<1> SUFFICES ASSUME Base, LateCounts, [Next]_vars PROVE LateCounts'
  OBVIOUS
<1>t. /\ pc \in [Pumps -> Phase] /\ late \in Nat /\ Concurrency \in Nat
      /\ stop \in BOOLEAN
  BY ConstantsOK, FS_CardinalityType DEF Base, TypeOK, Concurrency
<1>1. ASSUME NEW j \in Jobs, Submit(j) \/ ComeDue(j) PROVE LateCounts'
  <2>1. pc' = pc /\ late' = late /\ stop' = stop
    BY <1>1 DEF Submit, ComeDue, pool, control, counts
  <2> QED BY <2>1 DEF LateCounts, At, Concurrency
<1>2. CASE SetPaused \/ \E l \in Lanes : SetQuarantined(l)
  BY <1>2 DEF SetPaused, SetQuarantined, queue, pool, counts, LateCounts, At
<1>3. CASE Stop
  <2>1. stop' /\ ~stop /\ late' = late /\ At(Passed)' = At(Passed)
    BY <1>3 DEF Stop, pool, counts, At
  <2> QED BY <1>t, <2>1, PassedIsBounded DEF LateCounts
<1>4. CASE StartDrain
  <2>1. ~stop /\ stop' = stop /\ late' = late
    BY <1>4 DEF StartDrain, control
  <2> QED BY <2>1 DEF LateCounts
<1>5. CASE EndDrain
  BY <1>5 DEF EndDrain, LateCounts, At, queue, control, counts
<1>6. ASSUME NEW p \in Pumps, Check(p) PROVE LateCounts'
  <2>1. CASE stop
    BY <1>6, <2>1, LateStays, PhasesAre DEF Check, Halted, control, counts, Passed
  <2>2. CASE ~stop
    BY <1>6, <2>2 DEF Check, control, counts, LateCounts
  <2> QED BY <2>1, <2>2
<1>7. ASSUME NEW p \in Pumps, Claim(p) PROVE LateCounts'
  <2>1. /\ Goto(p, "permit") /\ pc[p] = "claim" /\ late' = IF stop THEN late + 1 ELSE late
        /\ stop' = stop
    BY <1>7 DEF Claim, control
  <2>2. pc[p] \in Passed /\ "permit" \notin Passed /\ "permit" \in Phase
    BY <2>1, PhasesAre DEF Passed
  <2>3. Cardinality(At(Passed)') = Cardinality(At(Passed)) - 1
    BY <1>t, <2>1, <2>2, GotoCounts
  <2> QED BY <1>t, <2>1, <2>3, PassedIsBounded DEF LateCounts
<1>8. ASSUME NEW p \in Pumps,
             Reserve(p) \/ ClaimNothing(p) \/ Unreserve(p) \/ Grant(p) \/ Refuse(p)
      PROVE  LateCounts'
  BY <1>8, LateStays, PhasesAre
  DEF Reserve, ClaimNothing, Unreserve, Grant, Refuse, control, counts, Passed
<1>9. ASSUME NEW p \in Pumps,
             Fail(p) \/ Collected(p) \/ Leave(p) \/ Settle(p) \/ DatabaseError(p)
      PROVE  LateCounts'
  BY <1>9, LateStays, PhasesAre
  DEF Fail, Collected, Leave, Settle, DatabaseError, control, counts, Passed
<1>10. CASE UNCHANGED vars
  BY <1>10 DEF vars, pool, control, counts, LateCounts, At
<1> QED
  BY <1>1, <1>2, <1>3, <1>4, <1>5, <1>6, <1>7, <1>8, <1>9, <1>10
  DEF Next, ServeStep, PumpStep

\* After a stop no more jobs are started than there are pumps.
THEOREM StopIsPromptForAny == Spec => []StopIsPrompt
<1>1. Spec => [](Base /\ LateCounts)
  BY BaseInit, BaseNext, LateInit, LateNext, PTL DEF Spec
<1>2. Base /\ LateCounts => StopIsPrompt
  <2> SUFFICES ASSUME Base, LateCounts PROVE StopIsPrompt
    OBVIOUS
  <2>1. late \in Nat /\ stop \in BOOLEAN /\ Concurrency \in Nat
    BY ConstantsOK, FS_CardinalityType DEF Base, TypeOK, Concurrency
  <2> QED BY <2>1, PassedIsBounded DEF LateCounts, StopIsPrompt
<1> QED BY <1>1, <1>2, PTL

-----------------------------------------------------------------------------
(* Shares *)

Slotted == {"permit", "collect", "leave"}

LEMMA OccupyingIsFinite ==
    ASSUME NEW c
    PROVE  /\ Occupying(c) \in SUBSET Pumps
           /\ IsFiniteSet(Occupying(c)) /\ Cardinality(Occupying(c)) \in Nat
BY SubsetsAreFinite DEF Occupying

LEMMA CapIsType == ASSUME NEW c \in Costs PROVE Cap[c] \in Nat
BY ConstantsOK, FS_CardinalityType DEF Cap, Costs, AtLeastOne, Concurrency

\* A pump between two phases that both hold a slot, or neither.
LEMMA SlotsStay ==
    ASSUME Base, SharesAreKept, NEW p \in Pumps, NEW phase \in Phase, Goto(p, phase),
           pc[p] \in Slotted <=> phase \in Slotted,
           \A q \in Pumps \ {p} : holds'[q] = holds[q],
           phase \in Slotted => holds'[p] = holds[p],
           in_flight' = in_flight
    PROVE  SharesAreKept'
<1>1. pc'[p] = phase /\ \A q \in Pumps \ {p} : pc'[q] = pc[q]
  BY DEF Goto, Base, TypeOK
<1>2. \A c \in Costs : Occupying(c)' = Occupying(c)
  BY <1>1 DEF Occupying, Slotted
<1> QED BY <1>2 DEF SharesAreKept, Cap, AtLeastOne, Concurrency

\* A pump gives its slot back and goes where it needs none.
LEMMA SlotGivenBack ==
    ASSUME Base, SharesAreKept, NEW p \in Pumps, NEW phase \in Phase, Goto(p, phase),
           pc[p] \in Slotted, phase \notin Slotted,
           \A q \in Pumps \ {p} : holds'[q] = holds[q],
           GiveBack(p)
    PROVE  SharesAreKept'
<1>1. pc'[p] = phase /\ \A q \in Pumps \ {p} : pc'[q] = pc[q]
  BY DEF Goto, Base, TypeOK
<1>0. Cost[holds[p]] \in Costs /\ in_flight \in [Costs -> Nat]
  BY ConstantsOK DEF Base, TypeOK, HoldsAJob, Slotted
<1> PICK k \in Costs : k = Cost[holds[p]]
  BY <1>0
<1>3. /\ Occupying(k)' = Occupying(k) \ {p} /\ p \in Occupying(k)
      /\ \A c \in Costs \ {k} : Occupying(c)' = Occupying(c)
  <2>1. p \in Occupying(k) /\ \A c : p \notin Occupying(c)'
    BY <1>1 DEF Occupying, Slotted
  <2>2. \A c : \A q \in Pumps \ {p} : q \in Occupying(c)' <=> q \in Occupying(c)
    BY <1>1 DEF Occupying
  <2>3. \A c : Occupying(c) \subseteq Pumps /\ Occupying(c)' \subseteq Pumps
    BY DEF Occupying
  <2>4. \A c \in Costs \ {k} : p \notin Occupying(c)
    BY DEF Occupying
  <2>5. Occupying(k)' = Occupying(k) \ {p}
    <3>1. Occupying(k) \subseteq Pumps /\ Occupying(k)' \subseteq Pumps
      BY <2>3
    <3>2. p \notin Occupying(k)'
      BY <2>1
    <3>3. \A q \in Pumps \ {p} : q \in Occupying(k)' <=> q \in Occupying(k)
      BY <2>2
    <3> QED BY <3>1, <3>2, <3>3
  <2>6. ASSUME NEW c \in Costs \ {k} PROVE Occupying(c)' = Occupying(c)
    <3>1. Occupying(c) \subseteq Pumps /\ Occupying(c)' \subseteq Pumps
      BY <2>3
    <3>2. p \notin Occupying(c)' /\ p \notin Occupying(c)
      BY <2>1, <2>4
    <3>3. \A q \in Pumps \ {p} : q \in Occupying(c)' <=> q \in Occupying(c)
      BY <2>2
    <3> QED BY <3>1, <3>2, <3>3
  <2> QED BY <2>1, <2>5, <2>6
<1>4. Cardinality(Occupying(k)') = Cardinality(Occupying(k)) - 1 /\ Cardinality(Occupying(k)) > 0
  BY <1>3, OccupyingIsFinite, OneLess
<1>5. in_flight'[k] = in_flight[k] - 1 /\ \A c \in Costs \ {k} : in_flight'[c] = in_flight[c]
  BY <1>0, <1>4 DEF GiveBack, AtLeastOne, SharesAreKept
<1>6. ASSUME NEW c \in Costs
      PROVE  in_flight'[c] = Cardinality(Occupying(c)') /\ in_flight'[c] <= Cap[c]
  <2>1. CASE c = k
    <3>1. Cap[k] \in Nat /\ in_flight[k] \in Nat
      BY <1>0, CapIsType
    <3>2. in_flight[k] = Cardinality(Occupying(k)) /\ in_flight[k] <= Cap[k]
      BY DEF SharesAreKept
    <3> QED BY <1>4, <1>5, <2>1, <3>1, <3>2
  <2>2. CASE c # k
    BY <1>3, <1>5, <2>2 DEF SharesAreKept
  <2> QED BY <2>1, <2>2
<1> QED BY <1>6 DEF SharesAreKept, Cap, AtLeastOne, Concurrency

LEMMA SharesInit == Init => SharesAreKept
<1> SUFFICES ASSUME Init, NEW c \in Costs
             PROVE  in_flight[c] = Cardinality(Occupying(c)) /\ in_flight[c] <= Cap[c]
  BY DEF SharesAreKept
<1>1. Occupying(c) = {}
  BY DEF Init, Occupying
<1> QED BY <1>1, NoneIsZero, CapIsType DEF Init

LEMMA SharesNext == Base /\ SharesAreKept /\ [Next]_vars => SharesAreKept'
<1> SUFFICES ASSUME Base, SharesAreKept, [Next]_vars PROVE SharesAreKept'
  OBVIOUS
<1>t. /\ HoldsAJob /\ Quiet /\ pc \in [Pumps -> Phase]
      /\ in_flight \in [Costs -> Nat] /\ line \in Seq(Jobs)
      /\ holds \in [Pumps -> Jobs \cup {NoJob}]
  BY DEF Base, TypeOK
<1>1. ASSUME UNCHANGED <<pc, holds, in_flight>> PROVE SharesAreKept'
  BY <1>1 DEF SharesAreKept, Occupying, Cap, AtLeastOne, Concurrency
<1>2. ASSUME NEW j \in Jobs, Submit(j) \/ ComeDue(j) PROVE SharesAreKept'
  BY <1>1, <1>2 DEF Submit, ComeDue, pool
<1>3. CASE SetPaused \/ Stop \/ \E l \in Lanes : SetQuarantined(l)
  BY <1>1, <1>3 DEF SetPaused, Stop, SetQuarantined, pool
<1>4. CASE StartDrain
  <2>1. \A c \in Costs : Occupying(c) = {} /\ Occupying(c)' = {}
    BY <1>t, <1>4 DEF StartDrain, Quiet, Occupying
  <2> QED BY <1>4, <2>1 DEF StartDrain, SharesAreKept, Cap, AtLeastOne, Concurrency
<1>5. CASE EndDrain
  BY <1>1, <1>5 DEF EndDrain
<1>6. ASSUME NEW p \in Pumps,
             Check(p) \/ Reserve(p) \/ ClaimNothing(p) \/ Unreserve(p) \/ Grant(p)
      PROVE  SharesAreKept'
  BY <1>t, <1>6, SlotsStay, PhasesAre
  DEF Check, Reserve, ClaimNothing, Unreserve, Grant, Slotted
<1>7. ASSUME NEW p \in Pumps, Refuse(p) \/ Fail(p) PROVE SharesAreKept'
  BY <1>t, <1>7, SlotsStay, PhasesAre DEF Refuse, Fail, Slotted
<1>8. ASSUME NEW p \in Pumps, Settle(p) PROVE SharesAreKept'
  <2>1. \A q \in Pumps \ {p} : holds'[q] = holds[q]
    BY <1>t, <1>8 DEF Settle
  <2> QED BY <1>t, <1>8, <2>1, SlotsStay, PhasesAre DEF Settle, Slotted
<1>9. ASSUME NEW p \in Pumps, Collected(p) \/ Leave(p) PROVE SharesAreKept'
  <2>1. \A q \in Pumps \ {p} : holds'[q] = holds[q]
    BY <1>t, <1>9 DEF Collected, Leave
  <2> QED BY <1>t, <1>9, <2>1, SlotGivenBack, PhasesAre DEF Collected, Leave, Slotted
<1>10. ASSUME NEW p \in Pumps, DatabaseError(p) PROVE SharesAreKept'
  <2>1. \A q \in Pumps \ {p} : holds'[q] = holds[q]
    BY <1>t, <1>10 DEF DatabaseError
  <2>2. CASE pc[p] \notin {"permit", "collect"}
    BY <1>t, <1>10, <2>1, <2>2, SlotsStay, PhasesAre DEF DatabaseError, Slotted
  <2>3. CASE pc[p] \in {"permit", "collect"}
    BY <1>t, <1>10, <2>1, <2>3, SlotGivenBack, PhasesAre DEF DatabaseError, Slotted
  <2> QED BY <2>2, <2>3
<1>11. ASSUME NEW p \in Pumps, Claim(p) PROVE SharesAreKept'
  <2> PICK i \in Candidates :
        /\ holds' = [holds EXCEPT ![p] = line[i]]
        /\ in_flight' = [in_flight EXCEPT ![Cost[line[i]]] = @ + 1]
    BY <1>11 DEF Claim
  <2>0. Cost[line[i]] \in Costs
    BY <1>t, CandidatesAreJobs, ConstantsOK
  <2> PICK k \in Costs : k = Cost[line[i]]
    BY <2>0
  <2>1. in_flight[k] < Cap[k]
    BY DEF Admissible, Candidates
  <2>2. /\ pc[p] = "claim" /\ pc'[p] = "permit" /\ \A q \in Pumps \ {p} : pc'[q] = pc[q]
        /\ holds'[p] = line[i] /\ \A q \in Pumps \ {p} : holds'[q] = holds[q]
    BY <1>t, <1>11 DEF Claim, Goto
  <2>3. /\ Occupying(k)' = Occupying(k) \cup {p} /\ p \notin Occupying(k)
        /\ \A c \in Costs \ {k} : Occupying(c)' = Occupying(c)
    <3>1. p \in Occupying(k)' /\ \A c : p \notin Occupying(c)
      BY <2>2 DEF Occupying
    <3>2. \A c : \A q \in Pumps \ {p} : q \in Occupying(c)' <=> q \in Occupying(c)
      BY <2>2 DEF Occupying
    <3>3. \A c : Occupying(c) \subseteq Pumps /\ Occupying(c)' \subseteq Pumps
      BY DEF Occupying
    <3>4. \A c \in Costs \ {k} : p \notin Occupying(c)'
      BY <2>2 DEF Occupying
    <3> QED BY <3>1, <3>2, <3>3, <3>4
  <2>4. Cardinality(Occupying(k)') = Cardinality(Occupying(k)) + 1
    BY <2>3, OccupyingIsFinite, OneMore
  <2>5. in_flight'[k] = in_flight[k] + 1 /\ \A c \in Costs \ {k} : in_flight'[c] = in_flight[c]
    BY <1>t, <2>1
  <2>6. ASSUME NEW c \in Costs
        PROVE  in_flight'[c] = Cardinality(Occupying(c)') /\ in_flight'[c] <= Cap[c]
    <3>1. CASE c = k
      <4>1. Cap[k] \in Nat /\ in_flight[k] \in Nat
        BY <1>t, CapIsType
      <4>2. in_flight[k] = Cardinality(Occupying(k))
        BY DEF SharesAreKept
      <4> QED BY <2>1, <2>4, <2>5, <3>1, <4>1, <4>2
    <3>2. CASE c # k
      BY <2>3, <2>5, <3>2 DEF SharesAreKept
    <3> QED BY <3>1, <3>2
  <2> QED BY <2>6 DEF SharesAreKept, Cap, AtLeastOne, Concurrency
<1>12. CASE UNCHANGED vars
  BY <1>1, <1>12 DEF vars, pool
<1> QED
  BY <1>2, <1>3, <1>4, <1>5, <1>6, <1>7, <1>8, <1>9, <1>10, <1>11, <1>12
  DEF Next, ServeStep, PumpStep

\* The reservations count the occupied slots and keep every cost within its share,
\* with any number of pumps and whichever way executions end.
THEOREM SharesAreKeptByAny == Spec => []SharesAreKept
<1>1. Spec => [](Base /\ SharesAreKept)
  BY BaseInit, BaseNext, SharesInit, SharesNext, PTL DEF Spec
<1> QED BY <1>1, PTL

-----------------------------------------------------------------------------
(* The last pump to give up *)

Works == {"permit", "collect", "settle"}

InLine(j) == \E i \in 1..Len(line) : line[i] = j

\* What waits or runs is in line, so a refused job or a lapsed one needs no place.
UnfinishedIsInLine == \A j \in Jobs : status[j] \in {"queued", "running"} => InLine(j)

\* Each pump works on a job of its own, which nobody else can claim.
WorkIsRunning == \A p \in Pumps : pc[p] \in Works => status[holds[p]] = "running"
WorkIsOwn ==
    \A p, q \in Pumps : p # q /\ pc[p] \in Works /\ pc[q] \in Works => holds[p] # holds[q]

Lined == UnfinishedIsInLine /\ WorkIsRunning /\ WorkIsOwn

LEMMA AppendKeepsPlaces ==
    ASSUME line \in Seq(Jobs), NEW j \in Jobs, line' = Append(line, j)
    PROVE  InLine(j)' /\ \A k \in Jobs : InLine(k) => InLine(k)'
<1>1. /\ Len(line') = Len(line) + 1 /\ line'[Len(line) + 1] = j
      /\ \A i \in 1..Len(line) : line'[i] = line[i]
  OBVIOUS
<1>2. Len(line) \in Nat
  OBVIOUS
<1> QED BY <1>1, <1>2 DEF InLine

LEMMA WithoutKeepsPlaces ==
    ASSUME line \in Seq(Jobs), NEW j \in Jobs, InLine(j), line' = Without(j),
           NEW k \in Jobs, k # j, InLine(k)
    PROVE  InLine(k)'
<1> PICK m \in 1..Len(line) : m = Place(j) /\ line[m] = j
  BY DEF Place, InLine
<1> PICK i \in 1..Len(line) : line[i] = k
  BY DEF InLine
<1>1. Len(line) \in Nat /\ Len(line) - 1 \in Nat /\ i # m
  OBVIOUS
<1>2. /\ Len(line') = Len(line) - 1
      /\ \A n \in 1..(Len(line) - 1) : line'[n] = IF n < m THEN line[n] ELSE line[n + 1]
  BY <1>1 DEF Without
<1>3. CASE i < m
  BY <1>1, <1>2, <1>3 DEF InLine
<1>4. CASE i > m
  <2>1. i - 1 \in 1..(Len(line) - 1) /\ ~(i - 1 < m) /\ (i - 1) + 1 = i
    BY <1>1, <1>4
  <2> QED BY <1>2, <2>1 DEF InLine
<1> QED BY <1>1, <1>3, <1>4

\* A step that leaves the queue alone and starts no work.
LEMMA LinedAside ==
    ASSUME Lined, UNCHANGED <<status, line>>,
           \A p \in Pumps : pc'[p] \in Works => pc[p] \in Works /\ holds'[p] = holds[p]
    PROVE  Lined'
BY DEF Lined, UnfinishedIsInLine, InLine, WorkIsRunning, WorkIsOwn

\* A pump ends its work, and its job leaves the line or waits again.
LEMMA LinedEnds ==
    ASSUME Base, Lined, NEW p \in Pumps, pc[p] \in Works,
           NEW phase \in Phase \ Works, Goto(p, phase),
           NEW end \in Status, status' = [status EXCEPT ![holds[p]] = end],
           \/ end = "queued" /\ line' = line
           \/ end \notin {"queued", "running"} /\ line' = Without(holds[p]),
           \A q \in Pumps \ {p} : holds'[q] = holds[q]
    PROVE  Lined'
<1>t. /\ pc \in [Pumps -> Phase] /\ status \in [Jobs -> Status] /\ line \in Seq(Jobs)
      /\ \A q \in Pumps : pc[q] \in Works => holds[q] \in Jobs
  BY DEF Base, TypeOK, HoldsAJob, Works
<1> PICK j \in Jobs : j = holds[p]
  BY <1>t
<1>1. /\ status[j] = "running" /\ InLine(j) /\ status'[j] = end
      /\ \A k \in Jobs \ {j} : status'[k] = status[k]
  BY <1>t DEF Lined, WorkIsRunning, UnfinishedIsInLine
<1>2. /\ pc'[p] = phase /\ \A q \in Pumps \ {p} : pc'[q] = pc[q]
  BY <1>t DEF Goto
<1>3. \A k \in Jobs \ {j} : InLine(k) => InLine(k)'
  <2>1. CASE line' = line
    BY <2>1 DEF InLine
  <2>2. CASE line' = Without(j)
    BY <1>t, <1>1, <2>2, WithoutKeepsPlaces
  <2> QED BY <2>1, <2>2
<1>4. UnfinishedIsInLine'
  <2>1. end = "queued" => InLine(j)'
    BY <1>1 DEF InLine
  <2> QED BY <1>1, <1>3, <2>1 DEF Lined, UnfinishedIsInLine
<1>5. \A q \in Pumps : pc'[q] \in Works =>
         q # p /\ pc[q] \in Works /\ holds'[q] = holds[q] /\ holds[q] \in Jobs \ {j}
  BY <1>t, <1>2 DEF Lined, WorkIsOwn
<1>6. WorkIsRunning' /\ WorkIsOwn'
  BY <1>1, <1>5 DEF Lined, WorkIsRunning, WorkIsOwn
<1> QED BY <1>4, <1>6 DEF Lined

LEMMA LinedInit == Init => Lined
BY DEF Init, Lined, UnfinishedIsInLine, WorkIsRunning, WorkIsOwn, Works

LEMMA LinedNext == Base /\ Lined /\ [Next]_vars => Lined'
<1> SUFFICES ASSUME Base, Lined, [Next]_vars PROVE Lined'
  OBVIOUS
<1>t. /\ HoldsAJob /\ Quiet /\ pc \in [Pumps -> Phase] /\ line \in Seq(Jobs)
      /\ status \in [Jobs -> Status] /\ holds \in [Pumps -> Jobs \cup {NoJob}]
  BY DEF Base, TypeOK
<1>1. ASSUME NEW j \in Jobs, Submit(j) \/ ComeDue(j) PROVE Lined'
  <2>1. /\ status[j] \in {"absent", "backoff"} /\ UNCHANGED <<pc, holds>>
        /\ status' = [status EXCEPT ![j] = "queued"] /\ line' = Append(line, j)
    BY <1>1 DEF Submit, ComeDue, pool
  <2>2. UnfinishedIsInLine'
    BY <1>t, <2>1, AppendKeepsPlaces DEF Lined, UnfinishedIsInLine
  <2>3. WorkIsRunning' /\ WorkIsOwn'
    BY <1>t, <2>1 DEF Lined, WorkIsRunning, WorkIsOwn
  <2> QED BY <2>2, <2>3 DEF Lined
<1>2. CASE SetPaused \/ Stop \/ EndDrain \/ \E l \in Lanes : SetQuarantined(l)
  BY <1>2, LinedAside DEF SetPaused, Stop, EndDrain, SetQuarantined, queue, pool
<1>3. CASE StartDrain
  <2>1. line' = line /\ \A p \in Pumps : pc[p] = "out" /\ pc'[p] \in {"out", "check"}
    BY <1>t, <1>3 DEF StartDrain, Quiet
  <2>2. \A p \in Pumps : pc'[p] \notin Works
    BY <2>1 DEF Works
  <2>3. \A j \in Jobs : \/ status'[j] = status[j]
                        \/ status[j] = "running" /\ status'[j] = "queued"
    <3> PICK lapsed \in BOOLEAN :
          status' = [j \in Jobs |-> IF lapsed /\ status[j] = "running"
                                      THEN "queued" ELSE status[j]]
      BY <1>3 DEF StartDrain
    <3> QED OBVIOUS
  <2>4. UnfinishedIsInLine'
    BY <2>1, <2>3 DEF Lined, UnfinishedIsInLine, InLine
  <2> QED BY <2>2, <2>4 DEF Lined, WorkIsRunning, WorkIsOwn
<1>4. ASSUME NEW p \in Pumps, NEW phase \in Phase, Goto(p, phase), UNCHANGED queue,
             phase \in Works => pc[p] \in Works /\ holds'[p] = holds[p],
             \A q \in Pumps \ {p} : holds'[q] = holds[q]
      PROVE  Lined'
  <2>1. pc'[p] = phase /\ \A q \in Pumps \ {p} : pc'[q] = pc[q]
    BY <1>t, <1>4 DEF Goto
  <2> QED BY <1>4, <2>1, LinedAside DEF queue
<1>5. ASSUME NEW p \in Pumps,
             Check(p) \/ Reserve(p) \/ ClaimNothing(p) \/ Unreserve(p)
      PROVE  Lined'
  BY <1>4, <1>5, PhasesAre DEF Check, Reserve, ClaimNothing, Unreserve, Works
<1>6. ASSUME NEW p \in Pumps, Grant(p) \/ Collected(p) PROVE Lined'
  BY <1>4, <1>6, PhasesAre DEF Grant, Collected, Works
<1>7. ASSUME NEW p \in Pumps, Leave(p) \/ DatabaseError(p) PROVE Lined'
  <2>1. \A q \in Pumps \ {p} : holds'[q] = holds[q]
    BY <1>t, <1>7 DEF Leave, DatabaseError
  <2> QED BY <1>4, <1>7, <2>1, PhasesAre DEF Leave, DatabaseError, Works
<1>8. ASSUME NEW p \in Pumps, Claim(p) PROVE Lined'
  <2> PICK i \in Candidates :
        /\ status' = [status EXCEPT ![line[i]] = "running"]
        /\ holds' = [holds EXCEPT ![p] = line[i]]
    BY <1>8 DEF Claim
  <2> PICK j \in Jobs : j = line[i]
    BY <1>t, CandidatesAreJobs
  <2>1. /\ pc'[p] = "permit" /\ line' = line /\ status[j] = "queued" /\ holds'[p] = j
        /\ \A q \in Pumps \ {p} : pc'[q] = pc[q] /\ holds'[q] = holds[q]
        /\ status'[j] = "running" /\ \A k \in Jobs \ {j} : status'[k] = status[k]
    BY <1>t, <1>8 DEF Claim, Goto, Candidates
  <2>2. UnfinishedIsInLine'
    BY <2>1 DEF Lined, UnfinishedIsInLine, InLine
  <2>3. \A q \in Pumps \ {p} : pc'[q] \in Works => pc[q] \in Works /\ holds[q] \in Jobs \ {j}
    BY <1>t, <2>1 DEF Lined, WorkIsRunning, HoldsAJob, Works
  <2>4. WorkIsRunning' /\ WorkIsOwn'
    BY <2>1, <2>3 DEF Lined, WorkIsRunning, WorkIsOwn
  <2> QED BY <2>2, <2>4 DEF Lined
<1>9. ASSUME NEW p \in Pumps, Refuse(p) \/ Fail(p) \/ Settle(p) PROVE Lined'
  <2>1. \A q \in Pumps \ {p} : holds'[q] = holds[q]
    BY <1>t, <1>9 DEF Refuse, Fail, Settle
  <2>2. CASE Refuse(p)
    BY <2>1, <2>2, LinedEnds, PhasesAre DEF Refuse, Works, Status
  <2>3. CASE Fail(p)
    BY <2>1, <2>3, LinedEnds, PhasesAre DEF Fail, Works, Status
  <2>4. CASE Settle(p)
    BY <2>1, <2>4, LinedEnds, PhasesAre DEF Settle, Works, Status
  <2> QED BY <1>9, <2>2, <2>3, <2>4
<1>10. CASE UNCHANGED vars
  BY <1>10, LinedAside DEF vars, queue, pool
<1> QED
  BY <1>1, <1>2, <1>3, <1>5, <1>6, <1>7, <1>8, <1>9, <1>10
  DEF Next, ServeStep, PumpStep

\* Only a claim that finds nothing to take ends in giving a reservation back.
LEMMA GivesUpWithoutCandidates ==
    ASSUME Base, [Next]_vars, NEW p \in Pumps, pc[p] = "claim", pc'[p] = "unreserve"
    PROVE  Candidates = {}
<1>t. pc \in [Pumps -> Phase]
  BY DEF Base, TypeOK
<1>1. ~UNCHANGED pc
  OBVIOUS
<1>2. ~StartDrain
  BY <1>1 DEF StartDrain
<1>3. PICK q \in Pumps : PumpStep(q) \/ DatabaseError(q)
  BY <1>1, <1>2
  DEF Next, vars, pool, Submit, ComeDue, SetQuarantined, SetPaused, Stop, ServeStep, EndDrain
<1>4. q = p
  BY <1>t, <1>3
  DEF PumpStep, Check, Reserve, Claim, ClaimNothing, Unreserve, Grant, Refuse, Fail,
      Collected, Leave, Settle, DatabaseError, Goto
<1>5. CASE Claim(p)
  BY <1>t, <1>5 DEF Claim, Goto
<1>6. CASE ClaimNothing(p)
  BY <1>6 DEF ClaimNothing
<1>7. ~DatabaseError(p)
  BY <1>t DEF DatabaseError, Goto
<1> QED
  BY <1>3, <1>4, <1>5, <1>6, <1>7
  DEF PumpStep, Check, Reserve, Unreserve, Grant, Refuse, Fail, Collected, Leave, Settle

\* Nobody else at work, no cost is full, so a queued job would have been taken.
LEMMA NothingIsLeft ==
    ASSUME Base, SharesAreKept, Lined, NEW p \in Pumps, pc[p] = "claim",
           \A q \in Pumps \ {p} : pc[q] \in {"out", "unreserve"}, Candidates = {}
    PROVE  \A j \in Jobs : status[j] # "queued"
<1> SUFFICES ASSUME NEW j \in Jobs, status[j] = "queued" PROVE FALSE
  OBVIOUS
<1> PICK c \in Costs : c = Cost[j]
  BY ConstantsOK
<1>1. Occupying(c) = {}
  BY DEF Occupying
<1>2. in_flight[c] = 0
  BY <1>1, NoneIsZero DEF SharesAreKept
<1>3. Cap[c] >= 1
  BY ConstantsOK, FS_CardinalityType DEF Cap, Costs, AtLeastOne, Concurrency
<1>4. Admissible(j)
  BY <1>2, <1>3, CapIsType DEF Admissible
<1>5. PICK i \in 1..Len(line) : line[i] = j
  BY DEF Lined, UnfinishedIsInLine, InLine
<1>6. i \in Candidates
  BY <1>4, <1>5 DEF Candidates
<1> QED BY <1>6

\* With any number of pumps and any costs, a drain is not given up while a job is
\* queued by the last pump that could have taken it.
THEOREM DrainsDryForAny == Spec => DrainsDry
<1> DEFINE Dry == \A p \in Pumps :
                    pc[p] = "claim" /\ pc'[p] = "unreserve"
                      /\ (\A q \in Pumps \ {p} : pc[q] \in {"out", "unreserve"})
                    => \A j \in Jobs : status[j] # "queued"
<1>1. Spec => [](Base /\ SharesAreKept /\ Lined)
  BY BaseInit, BaseNext, SharesInit, SharesNext, LinedInit, LinedNext, PTL DEF Spec
<1>2. Base /\ SharesAreKept /\ Lined /\ [Next]_vars => [Dry]_vars
  BY GivesUpWithoutCandidates, NothingIsLeft
<1> QED BY <1>1, <1>2, PTL DEF Spec, DrainsDry
=============================================================================
