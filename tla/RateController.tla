--------------------------- MODULE RateController ---------------------------
(***************************************************************************)
(* One entry of the RateController of egress/control.py: the adaptive      *)
(* window, spacing and quarantine of an (egress, lane) pair, and the       *)
(* worker threads that ask it for permits.  Entries share nothing but the  *)
(* lock, which makes acquire, is_available and release one step each.      *)
(*                                                                         *)
(* Deadlines are held as the time that is left, in ticks.  The window is a *)
(* fixed-point number of Scale units a slot, the code's a float.           *)
(***************************************************************************)
EXTENDS Integers, FiniteSets

CONSTANTS Threads,      \* threads of the worker process
          Scale,        \* units of window in one slot
          Ceiling,      \* window_ceiling, in slots
          Recovery,     \* RECOVERY_SUCCESSES
          Base,         \* QUARANTINE_BASE_SECONDS, in ticks
          Longest,      \* QUARANTINE_CEILING_SECONDS, in ticks
          MinInterval,  \* minimum_interval_seconds, in ticks
          Slow,         \* the interval a first throttling asks for: 1.0 s in ticks
          MaxInterval,  \* MAXIMUM_INTERVAL_SECONDS, in ticks
          MaxStreak     \* bound on consecutive blocks (a float overflows at 1025)

\* _apply, BLOCKED: min(ceiling, base * 2 ** (streak - 1)).
Backoff == [n \in 1..MaxStreak |->
              LET doubled == Base * 2 ^ (n - 1)
              IN  IF doubled < Longest THEN doubled ELSE Longest]

ASSUME ConstantsOK ==
    /\ IsFiniteSet(Threads)
    /\ Scale \in Nat \ {0} /\ Ceiling \in Nat \ {0} /\ Recovery \in Nat \ {0}
    /\ Base \in Nat \ {0} /\ Longest \in Nat \ {0}
    /\ MinInterval \in Nat /\ Slow \in Nat \ {0} /\ MaxInterval \in Nat
    /\ MinInterval <= MaxInterval
    /\ MaxStreak \in Nat \ {0}

\* True of 6 and 20, the values in the code; TUBEDEPTH_WINDOW_CEILING can break it.
ASSUME CeilingBelowRecovery == Ceiling <= Recovery

\* A longer streak never earns a shorter quarantine.
ASSUME BackoffGrows ==
    /\ \A n \in 1..MaxStreak : Backoff[n] \in Nat \ {0}
    /\ \A m, n \in 1..MaxStreak : m <= n => Backoff[m] <= Backoff[n]

VARIABLES window, interval, gate, quarantine, streak, recovery, in_flight,
          pc     \* what each thread is doing

lane == <<window, interval, gate, quarantine, streak, recovery, in_flight>>
vars == <<window, interval, gate, quarantine, streak, recovery, in_flight, pc>>

Lesser(a, b) == IF a < b THEN a ELSE b
Greater(a, b) == IF a > b THEN a ELSE b

Verdict == {"ok", "throttled", "blocked", "neutral"}

-----------------------------------------------------------------------------

Init ==
    /\ window = Scale /\ interval = MinInterval /\ gate = 0
    /\ quarantine = 0 /\ streak = 0 /\ recovery = 0 /\ in_flight = 0
    /\ pc = [t \in Threads |-> "idle"]

\* Mutants of the definitions that follow each: bugs the properties must find.
SlotsRoundedUp == window \div Scale + 1
SlotsBelowWindow == (window - 1) \div Scale

\* The slots the window stands for: max(1, int(window)).
Slots == Greater(1, window \div Scale)

Admits == quarantine = 0 /\ in_flight < Slots /\ gate = 0

\* _wait_for_permit is entered.
Ask(t) ==
    /\ pc[t] = "idle"
    /\ pc' = [pc EXCEPT ![t] = "asking"]
    /\ UNCHANGED lane

Acquire(t) ==
    /\ pc[t] = "asking" /\ Admits
    /\ in_flight' = in_flight + 1
    /\ gate' = interval
    /\ pc' = [pc EXCEPT ![t] = "out"]
    /\ UNCHANGED <<window, interval, quarantine, streak, recovery>>

Refused(t) ==
    /\ pc[t] = "asking" /\ ~Admits
    /\ pc' = [pc EXCEPT ![t] = "refused"]
    /\ UNCHANGED lane

\* is_available, after a refusal: a quarantined lane is given up at once, any
\* other is asked again, unless permit_wait is over.
AskAgain(t) ==
    /\ pc[t] = "refused"
    /\ \/ quarantine = 0 /\ pc' = [pc EXCEPT ![t] = "asking"]
       \/ pc' = [pc EXCEPT ![t] = "idle"]
    /\ UNCHANGED lane

\* _apply for each verdict.
GrownWindow == Lesser(Ceiling * Scale, window + (Scale * Scale) \div window)
HalvedWindow == Greater(Scale, window \div 2)

ForgivenByOneSuccess ==
    /\ window' = GrownWindow
    /\ interval' = Greater(MinInterval, (interval * 95) \div 100)
    /\ recovery' = Lesser(Recovery, recovery + 1)
    /\ streak' = 0
    /\ UNCHANGED <<gate, quarantine>>

LiftedByOneSuccess ==
    /\ window' = GrownWindow
    /\ interval' = Greater(MinInterval, (interval * 95) \div 100)
    /\ recovery' = Lesser(Recovery, recovery + 1)
    /\ streak' = IF recovery + 1 >= Recovery THEN 0 ELSE streak
    /\ quarantine' = 0
    /\ UNCHANGED gate

ApplyOk ==
    /\ window' = GrownWindow
    /\ interval' = Greater(MinInterval, (interval * 95) \div 100)
    /\ recovery' = Lesser(Recovery, recovery + 1)
    /\ streak' = IF recovery + 1 >= Recovery THEN 0 ELSE streak
    /\ UNCHANGED <<gate, quarantine>>

ApplyThrottled ==
    /\ window' = HalvedWindow
    /\ interval' = Lesser(MaxInterval, Greater(Slow, interval * 2))
    /\ gate' = interval'
    /\ UNCHANGED <<quarantine, streak, recovery>>

ApplyBlocked ==
    /\ streak < MaxStreak
    /\ window' = Scale
    /\ streak' = streak + 1
    /\ recovery' = 0
    /\ quarantine' = Backoff[streak + 1]
    /\ UNCHANGED <<interval, gate>>

ApplyNeutral == UNCHANGED <<window, interval, gate, quarantine, streak, recovery>>

Apply(verdict) ==
    \/ verdict = "ok" /\ ApplyOk
    \/ verdict = "throttled" /\ ApplyThrottled
    \/ verdict = "blocked" /\ ApplyBlocked
    \/ verdict = "neutral" /\ ApplyNeutral

\* release, from the finally of _execute.
Release(t) ==
    /\ pc[t] = "out"
    /\ in_flight' = Greater(0, in_flight - 1)
    /\ pc' = [pc EXCEPT ![t] = "idle"]
    /\ \E verdict \in Verdict : Apply(verdict)

Tick ==
    /\ gate > 0 \/ quarantine > 0
    /\ gate' = Greater(0, gate - 1)
    /\ quarantine' = Greater(0, quarantine - 1)
    /\ UNCHANGED <<window, interval, streak, recovery, in_flight, pc>>

Next ==
    \/ Tick
    \/ \E t \in Threads : Ask(t) \/ Acquire(t) \/ Refused(t) \/ AskAgain(t) \/ Release(t)

Spec == Init /\ [][Next]_vars

\* Time passes and requests end.
FairSpec == Spec /\ WF_vars(Tick) /\ \A t \in Threads : WF_vars(Release(t))

-----------------------------------------------------------------------------

\* Types, with the ranges the constants promise: the window never falls below
\* one slot nor rises above its ceiling, nor the spacing above its maximum.
TypeOK ==
    /\ window \in Scale..(Ceiling * Scale)
    /\ interval \in Nat /\ interval <= Greater(MaxInterval, MinInterval)
    /\ gate \in Nat /\ quarantine \in Nat
    /\ streak \in 0..MaxStreak
    /\ recovery \in 0..Recovery
    /\ in_flight \in Nat
    /\ pc \in [Threads -> {"idle", "asking", "refused", "out"}]

Out == {t \in Threads : pc[t] = "out"}

\* The count of requests in flight is the number of threads that hold a permit,
\* and never exceeds the ceiling however the window moved meanwhile.
PermitsAreHeld == in_flight = Cardinality(Out) /\ in_flight <= Ceiling

\* While a quarantine lasts the streak that earned it is remembered: the
\* requests that were already out cannot earn its recovery.
StreakOutlastsQuarantine == quarantine > 0 => streak > 0 /\ quarantine <= Backoff[streak]

\* Only time ends a quarantine: no verdict of a late request shortens it.
QuarantineIsServed == [][quarantine' >= quarantine \/ Tick]_vars

\* However often it is throttled and blocked, the lane admits a request again.
AdmitsAgain == []<>Admits
=============================================================================
