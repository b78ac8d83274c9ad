------------------------ MODULE RateControllerProofs ------------------------
(***************************************************************************)
(* Theorems of RateController, for any number of threads, any ceiling and  *)
(* any of the intervals and durations the code is configured with.         *)
(***************************************************************************)
EXTENDS RateController, FiniteSetTheorems, TLAPS

-----------------------------------------------------------------------------
(* Arithmetic *)

LEMMA LesserType ==
    ASSUME NEW a \in Int, NEW b \in Int
    PROVE  Lesser(a, b) \in {a, b} /\ Lesser(a, b) <= a /\ Lesser(a, b) <= b
BY DEF Lesser

LEMMA GreaterType ==
    ASSUME NEW a \in Int, NEW b \in Int
    PROVE  Greater(a, b) \in {a, b} /\ Greater(a, b) >= a /\ Greater(a, b) >= b
BY DEF Greater

LEMMA QuotientIsNat ==
    ASSUME NEW a \in Nat, NEW b \in Nat \ {0}
    PROVE  a \div b \in Nat
BY Z3

LEMMA QuotientIsBounded ==
    ASSUME NEW a \in Nat, NEW b \in Nat \ {0}, NEW c \in Nat, a <= c * b
    PROVE  a \div b <= c
BY Z3

LEMMA ProductIsNat == ASSUME NEW a \in Nat, NEW b \in Nat PROVE a * b \in Nat
BY Z3

LEMMA ProductGrows ==
    ASSUME NEW a \in Nat \ {0}, NEW b \in Nat \ {0} PROVE b <= a * b
BY Z3

-----------------------------------------------------------------------------
(* Types *)

TopIsAboveBottom == Ceiling * Scale \in Nat /\ Scale <= Ceiling * Scale

LEMMA Top == TopIsAboveBottom
BY ConstantsOK, ProductIsNat, ProductGrows DEF TopIsAboveBottom

\* What a verdict makes of the window stays between one slot and the ceiling.
LEMMA WindowMoves ==
    ASSUME window \in Scale..(Ceiling * Scale)
    PROVE  /\ GrownWindow \in Scale..(Ceiling * Scale)
           /\ HalvedWindow \in Scale..(Ceiling * Scale)
           /\ Scale \in Scale..(Ceiling * Scale)
<1>1. window \in Nat \ {0} /\ Scale \in Nat /\ Ceiling * Scale \in Nat /\ Scale <= Ceiling * Scale
  BY Top, ConstantsOK DEF TopIsAboveBottom
<1>2. (Scale * Scale) \div window \in Nat
  BY <1>1, ProductIsNat, QuotientIsNat
<1>3. GrownWindow \in Scale..(Ceiling * Scale)
  <2> DEFINE step == (Scale * Scale) \div window
  <2> HIDE DEF step
  <2>1. step \in Nat /\ GrownWindow = Lesser(Ceiling * Scale, window + step)
    BY <1>2 DEF step, GrownWindow
  <2> DEFINE top == Ceiling * Scale
  <2>2. top \in Nat /\ Scale <= top /\ window \in Scale..top
    BY <1>1
  <2> HIDE DEF top
  <2>3. Lesser(top, window + step) \in Scale..top
    BY <1>1, <2>1, <2>2 DEF Lesser
  <2> QED BY <2>1, <2>3 DEF top
<1>4. HalvedWindow \in Scale..(Ceiling * Scale)
  <2> DEFINE top == Ceiling * Scale
  <2>2. top \in Nat /\ Scale <= top /\ window \in Scale..top
    BY <1>1
  <2> HIDE DEF top
  <2>3. Greater(Scale, window \div 2) \in Scale..top
    BY <1>1, <2>2 DEF Greater
  <2> QED BY <2>3 DEF top, HalvedWindow
<1> QED BY <1>1, <1>3, <1>4

LEMMA IntervalMoves ==
    ASSUME interval \in Nat, interval <= Greater(MaxInterval, MinInterval)
    PROVE  /\ Greater(MinInterval, (interval * 95) \div 100) \in Nat
           /\ Greater(MinInterval, (interval * 95) \div 100) <= Greater(MaxInterval, MinInterval)
           /\ Lesser(MaxInterval, Greater(Slow, interval * 2)) \in Nat
           /\ Lesser(MaxInterval, Greater(Slow, interval * 2)) <= Greater(MaxInterval, MinInterval)
BY ConstantsOK DEF Greater, Lesser

LEMMA SlotsAreBounded ==
    ASSUME window \in Scale..(Ceiling * Scale)
    PROVE  Slots \in Nat /\ Slots <= Ceiling
<1>1. window \in Nat /\ Scale \in Nat \ {0} /\ Ceiling \in Nat \ {0} /\ window <= Ceiling * Scale
  BY Top, ConstantsOK DEF TopIsAboveBottom
<1>2. window \div Scale \in Nat /\ window \div Scale <= Ceiling
  BY <1>1, QuotientIsNat, QuotientIsBounded
<1> QED BY <1>1, <1>2 DEF Slots, Greater

LEMMA TypedInit == Init => TypeOK
<1> SUFFICES ASSUME Init PROVE TypeOK
  OBVIOUS
<1>1. window \in Scale..(Ceiling * Scale)
  BY Top, ConstantsOK DEF Init, TopIsAboveBottom
<1> QED BY <1>1, ConstantsOK DEF Init, TypeOK, Greater

\* Each verdict, on the variables it may change.
LEMMA ApplyKeepsTypes ==
    ASSUME TypeOK, NEW v \in Verdict, Apply(v)
    PROVE  /\ window' \in Scale..(Ceiling * Scale)
           /\ interval' \in Nat /\ interval' <= Greater(MaxInterval, MinInterval)
           /\ gate' \in Nat /\ quarantine' \in Nat
           /\ streak' \in 0..MaxStreak /\ recovery' \in 0..Recovery
<1> USE DEF TypeOK
<1>0. /\ GrownWindow \in Scale..(Ceiling * Scale) /\ HalvedWindow \in Scale..(Ceiling * Scale)
      /\ Scale \in Scale..(Ceiling * Scale)
  BY WindowMoves
<1>1. CASE ApplyOk
  <2>1. recovery' \in 0..Recovery /\ streak' \in 0..MaxStreak
    BY <1>1, ConstantsOK DEF ApplyOk, Lesser
  <2>2. interval' \in Nat /\ interval' <= Greater(MaxInterval, MinInterval)
    BY <1>1, IntervalMoves DEF ApplyOk
  <2> QED BY <1>0, <1>1, <2>1, <2>2 DEF ApplyOk
<1>2. CASE ApplyThrottled
  BY <1>0, <1>2, IntervalMoves DEF ApplyThrottled
<1>3. CASE ApplyBlocked
  <2>1. streak + 1 \in 1..MaxStreak
    BY <1>3, ConstantsOK DEF ApplyBlocked
  <2>2. Backoff[streak + 1] \in Nat
    BY <2>1, BackoffGrows
  <2> QED BY <1>0, <1>3, <2>1, <2>2, ConstantsOK DEF ApplyBlocked
<1>4. CASE ApplyNeutral
  BY <1>4 DEF ApplyNeutral
<1> QED BY <1>1, <1>2, <1>3, <1>4 DEF Apply

LEMMA TypedNext == TypeOK /\ [Next]_vars => TypeOK'
<1> SUFFICES ASSUME TypeOK, [Next]_vars PROVE TypeOK'
  OBVIOUS
<1>1. CASE Tick
  BY <1>1 DEF Tick, TypeOK, Greater
<1>2. ASSUME NEW t \in Threads, Ask(t) \/ Refused(t) \/ AskAgain(t) PROVE TypeOK'
  BY <1>2 DEF Ask, Refused, AskAgain, lane, TypeOK
<1>3. ASSUME NEW t \in Threads, Acquire(t) PROVE TypeOK'
  BY <1>3 DEF Acquire, TypeOK
<1>4. ASSUME NEW t \in Threads, Release(t) PROVE TypeOK'
  <2> PICK v \in Verdict : Apply(v)
    BY <1>4 DEF Release
  <2>1. /\ pc' \in [Threads -> {"idle", "asking", "refused", "out"}]
        /\ in_flight' \in Nat
    BY <1>4 DEF Release, TypeOK, Greater
  <2> QED BY <2>1, ApplyKeepsTypes DEF TypeOK
<1>5. CASE UNCHANGED vars
  BY <1>5 DEF vars, TypeOK
<1> QED BY <1>1, <1>2, <1>3, <1>4, <1>5 DEF Next

\* The window stays between one slot and its ceiling and the spacing below its
\* maximum, through any sequence of verdicts.
THEOREM Typing == Spec => []TypeOK
BY TypedInit, TypedNext, PTL DEF Spec

-----------------------------------------------------------------------------
(* Permits *)

LEMMA OutIsFinite == IsFiniteSet(Out) /\ Cardinality(Out) \in Nat
BY ConstantsOK, FS_Subset, FS_CardinalityType DEF Out

Permits == TypeOK /\ PermitsAreHeld

LEMMA PermitsInit == Init => Permits
<1> SUFFICES ASSUME Init PROVE PermitsAreHeld
  BY TypedInit DEF Permits
<1>1. Out = {}
  BY DEF Init, Out
<1> QED BY <1>1, FS_EmptySet, ConstantsOK DEF Init, PermitsAreHeld

LEMMA PermitsNext == Permits /\ [Next]_vars => Permits'
<1> SUFFICES ASSUME Permits, [Next]_vars PROVE PermitsAreHeld'
  BY TypedNext DEF Permits
<1> USE ConstantsOK DEF Permits, PermitsAreHeld
<1>0. TypeOK /\ pc \in [Threads -> {"idle", "asking", "refused", "out"}]
  BY DEF TypeOK
<1>1. CASE Tick
  BY <1>1 DEF Tick, Out
<1>2. ASSUME NEW t \in Threads, Ask(t) \/ Refused(t) \/ AskAgain(t) PROVE PermitsAreHeld'
  <2>1. Out' = Out
    BY <1>0, <1>2 DEF Ask, Refused, AskAgain, Out
  <2> QED BY <1>2, <2>1 DEF Ask, Refused, AskAgain, lane
<1>3. ASSUME NEW t \in Threads, Acquire(t) PROVE PermitsAreHeld'
  <2>1. Out' = Out \cup {t} /\ t \notin Out
    BY <1>0, <1>3 DEF Acquire, Out
  <2>2. Cardinality(Out') = Cardinality(Out) + 1
    BY <2>1, OutIsFinite, FS_AddElement
  <2>3. in_flight < Slots /\ Slots \in Nat /\ Slots <= Ceiling
    BY <1>0, <1>3, SlotsAreBounded DEF Acquire, Admits, TypeOK
  <2> QED BY <1>0, <1>3, <2>2, <2>3 DEF Acquire, TypeOK
<1>4. ASSUME NEW t \in Threads, Release(t) PROVE PermitsAreHeld'
  <2>1. Out' = Out \ {t} /\ t \in Out
    BY <1>0, <1>4 DEF Release, Out
  <2>2. Cardinality(Out') = Cardinality(Out) - 1 /\ Cardinality(Out) \in Nat /\ Cardinality(Out) > 0
    BY <2>1, OutIsFinite, FS_RemoveElement, FS_EmptySet
  <2> QED BY <1>0, <1>4, <2>2 DEF Release, Greater, TypeOK
<1>5. CASE UNCHANGED vars
  BY <1>5 DEF vars, Out
<1> QED BY <1>1, <1>2, <1>3, <1>4, <1>5 DEF Next

\* With any number of threads and however the window is halved, reset and grown
\* under them, as many permits are out as are counted, and never more than the
\* ceiling.
THEOREM PermitsAreHeldByAny == Spec => []PermitsAreHeld
<1>1. Spec => []Permits
  BY PermitsInit, PermitsNext, PTL DEF Spec
<1>2. Permits => PermitsAreHeld
  BY DEF Permits
<1> QED BY <1>1, <1>2, PTL

-----------------------------------------------------------------------------
(* Quarantine *)

\* The requests still out when a lane was blocked are too few to earn its
\* recovery, because no permit is granted until the quarantine is over.
LateRequestsAreFew == quarantine > 0 => recovery + in_flight < Recovery

Quarantined == Permits /\ StreakOutlastsQuarantine /\ LateRequestsAreFew

LEMMA QuarantinedInit == Init => Quarantined
BY PermitsInit DEF Init, Quarantined, StreakOutlastsQuarantine, LateRequestsAreFew

LEMMA QuarantinedNext ==
    Quarantined /\ [Next]_vars => Quarantined' /\ (quarantine' >= quarantine \/ Tick)
<1> SUFFICES ASSUME Quarantined, [Next]_vars
             PROVE  /\ StreakOutlastsQuarantine' /\ LateRequestsAreFew'
                    /\ quarantine' >= quarantine \/ Tick
  BY PermitsNext DEF Quarantined
<1> USE ConstantsOK DEF Quarantined, StreakOutlastsQuarantine, LateRequestsAreFew
<1>0. TypeOK /\ PermitsAreHeld
  BY DEF Permits
<1>1. CASE Tick
  BY <1>0, <1>1, BackoffGrows DEF Tick, TypeOK, Greater
<1>2. ASSUME NEW t \in Threads, Ask(t) \/ Refused(t) \/ AskAgain(t) \/ Acquire(t)
      PROVE  /\ StreakOutlastsQuarantine' /\ LateRequestsAreFew'
             /\ quarantine' >= quarantine
  BY <1>0, <1>2 DEF Ask, Refused, AskAgain, Acquire, Admits, lane, TypeOK
<1>3. ASSUME NEW t \in Threads, Release(t)
      PROVE  /\ StreakOutlastsQuarantine' /\ LateRequestsAreFew'
             /\ quarantine' >= quarantine
  <2> PICK v \in Verdict : Apply(v)
    BY <1>3 DEF Release
  <2>1. t \in Out /\ in_flight \in Nat /\ in_flight > 0 /\ in_flight' = in_flight - 1
    <3>1. t \in Out
      BY <1>0, <1>3 DEF Release, Out
    <3>2. Cardinality(Out) # 0 /\ Cardinality(Out) \in Nat
      BY <3>1, OutIsFinite, FS_EmptySet
    <3> QED BY <1>0, <1>3, <3>1, <3>2 DEF Release, Greater, PermitsAreHeld
  <2>2. /\ quarantine \in Nat /\ streak \in 0..MaxStreak /\ recovery \in 0..Recovery
        /\ in_flight <= Ceiling
    BY <1>0 DEF TypeOK, PermitsAreHeld
  <2>3. CASE ApplyOk
    BY <2>1, <2>2, <2>3 DEF ApplyOk, Lesser
  <2>4. CASE ApplyThrottled \/ ApplyNeutral
    BY <2>1, <2>2, <2>4 DEF ApplyThrottled, ApplyNeutral
  <2>5. CASE ApplyBlocked
    <3>1. /\ streak' = streak + 1 /\ streak' \in 1..MaxStreak /\ recovery' = 0
          /\ quarantine' = Backoff[streak']
      BY <2>2, <2>5 DEF ApplyBlocked
    <3>2. quarantine' \in Nat
      BY <3>1, BackoffGrows
    <3>3. quarantine' >= quarantine
      <4>1. CASE quarantine = 0
        BY <3>2, <4>1
      <4>2. CASE quarantine > 0
        <5>1. streak \in 1..MaxStreak /\ quarantine <= Backoff[streak]
          BY <2>2, <4>2
        <5>2. Backoff[streak] \in Nat /\ Backoff[streak] <= Backoff[streak']
          BY <3>1, <5>1, <2>2, BackoffGrows
        <5> QED BY <2>2, <3>1, <3>2, <5>1, <5>2
      <4> QED BY <2>2, <4>1, <4>2
    <3> QED BY <2>1, <2>2, <3>1, <3>2, <3>3, CeilingBelowRecovery
  <2> QED BY <2>3, <2>4, <2>5 DEF Apply
<1>4. CASE UNCHANGED vars
  BY <1>0, <1>4 DEF vars, TypeOK
<1> QED BY <1>1, <1>2, <1>3, <1>4 DEF Next

\* While a lane is quarantined, the requests that were out when it was blocked
\* cannot earn its recovery: its streak is remembered for the next block.
THEOREM StreakOutlastsAnyQuarantine == Spec => []StreakOutlastsQuarantine
<1>1. Spec => []Quarantined
  BY QuarantinedInit, QuarantinedNext, PTL DEF Spec
<1>2. Quarantined => StreakOutlastsQuarantine
  BY DEF Quarantined
<1> QED BY <1>1, <1>2, PTL

\* Only time shortens a quarantine, whatever verdicts come in during it.
THEOREM QuarantineIsServedByAny == Spec => QuarantineIsServed
<1>1. Quarantined /\ [Next]_vars => [quarantine' >= quarantine \/ Tick]_vars
  BY QuarantinedNext
<1>2. Spec => []Quarantined
  BY QuarantinedInit, QuarantinedNext, PTL DEF Spec
<1> QED BY <1>1, <1>2, PTL DEF Spec, QuarantineIsServed
=============================================================================
