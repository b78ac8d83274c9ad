--------------------------- MODULE WebhooksProofs ---------------------------
(***************************************************************************)
(* That a receiver is called again only with a reason, for any number of   *)
(* processes, jobs, lost answers and deaths.                               *)
(*                                                                         *)
(* While a job is not delivered every acceptance is either held by a       *)
(* sender that has not settled it, or accounted for by a lost answer or a  *)
(* death.  Once it is delivered no sweep reads it again, and the senders   *)
(* that still have it to post are what may call its receiver.  The two     *)
(* sets are disjoint, so together they are no more than the senders.       *)
(***************************************************************************)
EXTENDS Webhooks, FiniteSetTheorems, TLAPS

\* The senders whose unsettled post of j was accepted, and those that have j
\* still to post.
Holding(j) == {s \in Senders : posted[s] = j /\ heard[s]}
Owing(j) == {s \in Senders : j \in pending[s]}

\* What a sender has in hand at each point of its sweep.
InHand ==
    \A s \in Senders :
        /\ pc[s] \in {"idle", "sweeping"} => posted[s] = NoJob /\ ~heard[s]
        /\ pc[s] = "idle" => pending[s] = {}
        /\ pc[s] \in {"posted", "settling"} => posted[s] \in ended /\ posted[s] \notin pending[s]

\* A lost answer is an acceptance, and what was heard is one more of them.
Answered ==
    /\ \A j \in Jobs : unheard[j] <= accepted[j]
    /\ \A s \in Senders : heard[s] => accepted[posted[s]] > unheard[posted[s]]
    /\ \A j \in delivered : accepted[j] > unheard[j]

\* Where the acceptances come from.
Accounted ==
    \A j \in Jobs :
        /\ j \notin delivered =>
             accepted[j] <= unheard[j] + faults + Cardinality(Holding(j))
        /\ j \in delivered =>
             accepted[j] + Cardinality(Owing(j)) <= unheard[j] + faults + Cardinality(Senders)

Base == TypeOK /\ InHand

-----------------------------------------------------------------------------

LEMMA SubsetsCount ==
    ASSUME NEW S \in SUBSET Senders
    PROVE  IsFiniteSet(S) /\ Cardinality(S) \in Nat /\ Cardinality(S) <= Cardinality(Senders)
BY ConstantsOK, FS_Subset, FS_CardinalityType

LEMMA OneMore ==
    ASSUME NEW S \in SUBSET Senders, NEW s \in Senders, s \notin S
    PROVE  Cardinality(S \cup {s}) = Cardinality(S) + 1
BY SubsetsCount, FS_AddElement

LEMMA OneLess ==
    ASSUME NEW S \in SUBSET Senders, NEW s \in S
    PROVE  Cardinality(S \ {s}) = Cardinality(S) - 1
BY SubsetsCount, FS_RemoveElement

\* The holders and the debtors of a job are different senders.
LEMMA HoldersOweNothing ==
    ASSUME Base, NEW j \in Jobs
    PROVE  Cardinality(Holding(j)) + Cardinality(Owing(j)) <= Cardinality(Senders)
<1>1. Holding(j) \cap Owing(j) = {}
  BY DEF Base, InHand, TypeOK, Holding, Owing
<1>2. /\ Holding(j) \in SUBSET Senders /\ Owing(j) \in SUBSET Senders
      /\ Holding(j) \cup Owing(j) \in SUBSET Senders
  BY DEF Holding, Owing
<1>3. Cardinality(Holding(j) \cup Owing(j))
        = Cardinality(Holding(j)) + Cardinality(Owing(j)) - Cardinality(Holding(j) \cap Owing(j))
  BY <1>2, SubsetsCount, FS_Union
<1>4. Cardinality(Holding(j) \cap Owing(j)) = 0
  BY <1>1, FS_EmptySet
<1> QED BY <1>2, <1>3, <1>4, SubsetsCount

-----------------------------------------------------------------------------
(* Types *)

LEMMA BaseInit == Init => Base
BY DEF Init, Base, TypeOK, InHand

\* What the three ways to end a post have in common keeps the base.
LEMMA PostKeeps ==
    ASSUME Base, NEW s \in Senders, NEW j \in Jobs, Post(s, j),
           accepted' \in [Jobs -> Nat], unheard' \in [Jobs -> Nat],
           heard' \in [Senders -> BOOLEAN],
           \A t \in Senders \ {s} : heard'[t] = heard[t]
    PROVE  Base'
<1>1. TypeOK'
  BY DEF Base, TypeOK, Post, rows
<1>2. InHand'
  BY DEF Base, TypeOK, InHand, Post, rows
<1> QED BY <1>1, <1>2 DEF Base

LEMMA LeaveKeeps ==
    ASSUME Base, NEW s \in Senders, Leave(s), UNCHANGED <<rows, receivers>>, faults' \in Nat
    PROVE  Base'
<1>1. TypeOK'
  BY DEF Base, TypeOK, Leave, rows, receivers
<1>2. InHand'
  BY DEF Base, TypeOK, InHand, Leave, rows
<1> QED BY <1>1, <1>2 DEF Base

LEMMA BaseNext == Base /\ [Next]_vars => Base'
<1> SUFFICES ASSUME Base, [Next]_vars PROVE Base'
  OBVIOUS
<1> USE DEF Base
<1>1. ASSUME NEW j \in Jobs, End(j) PROVE Base'
  BY <1>1 DEF End, TypeOK, InHand, sweeps, receivers
<1>2. ASSUME NEW s \in Senders, Sweep(s) PROVE Base'
  <2>1. Owed \in SUBSET ended
    BY DEF Owed
  <2> QED BY <1>2, <2>1 DEF Sweep, TypeOK, InHand, rows, receivers
<1>3. ASSUME NEW s \in Senders, NEW j \in Jobs,
             Accepted(s, j) \/ AcceptedUnheard(s, j) \/ RefusedPost(s, j)
      PROVE  Base'
  <2>1. Post(s, j)
    BY <1>3 DEF Accepted, AcceptedUnheard, RefusedPost
  <2>2. /\ accepted' \in [Jobs -> Nat] /\ unheard' \in [Jobs -> Nat]
        /\ heard' \in [Senders -> BOOLEAN]
        /\ \A t \in Senders \ {s} : heard'[t] = heard[t]
    <3>1. /\ heard \in [Senders -> BOOLEAN]
          /\ accepted \in [Jobs -> Nat] /\ unheard \in [Jobs -> Nat]
      BY DEF TypeOK
    <3>2. CASE Accepted(s, j)
      BY <3>1, <3>2 DEF Accepted
    <3>3. CASE AcceptedUnheard(s, j)
      BY <3>1, <3>3 DEF AcceptedUnheard
    <3>4. CASE RefusedPost(s, j)
      BY <3>1, <3>4 DEF RefusedPost, receivers
    <3> QED BY <1>3, <3>2, <3>3, <3>4
  <2> QED BY <2>1, <2>2, PostKeeps
<1>4. ASSUME NEW s \in Senders, ReadSettle(s) PROVE Base'
  BY <1>4 DEF ReadSettle, TypeOK, InHand, rows, receivers
<1>5. ASSUME NEW s \in Senders, CommitSettle(s) PROVE Base'
  <2>1. posted[s] \in ended
    BY <1>5 DEF CommitSettle, InHand
  <2>2. TypeOK'
    BY <1>5, <2>1 DEF CommitSettle, DeliveredBy, TypeOK, receivers
  <2>3. InHand'
    BY <1>5 DEF CommitSettle, TypeOK, InHand
  <2> QED BY <2>2, <2>3
<1>6. ASSUME NEW s \in Senders, EndSweep(s) \/ Die(s) PROVE Base'
  BY <1>6, LeaveKeeps DEF EndSweep, Die, TypeOK
<1>7. CASE UNCHANGED vars
  BY <1>7 DEF vars, rows, sweeps, receivers, TypeOK, InHand
<1> QED BY <1>1, <1>2, <1>3, <1>4, <1>5, <1>6, <1>7 DEF Next, Progress

\* The state keeps its types, and what each sender has in hand its place.
THEOREM Typing == Spec => []TypeOK
<1>1. Spec => []Base
  BY BaseInit, BaseNext, PTL DEF Spec
<1>2. Base => TypeOK
  BY DEF Base
<1> QED BY <1>1, <1>2, PTL

-----------------------------------------------------------------------------
(* Answers *)

LEMMA AnsweredInit == Init => Answered
BY DEF Init, Answered

LEMMA AnsweredNext == Base /\ Answered /\ [Next]_vars => Answered'
<1> SUFFICES ASSUME Base, Answered, [Next]_vars PROVE Answered'
  OBVIOUS
<1>t. /\ heard \in [Senders -> BOOLEAN] /\ accepted \in [Jobs -> Nat]
      /\ unheard \in [Jobs -> Nat] /\ posted \in [Senders -> ended \cup {NoJob}]
      /\ ended \subseteq Jobs /\ delivered \subseteq Jobs
  BY DEF Base, TypeOK
<1>h. \A s \in Senders : heard[s] => posted[s] \in Jobs
  BY <1>t DEF Base, TypeOK, InHand
<1>1. ASSUME UNCHANGED <<posted, heard, accepted, unheard, delivered>> PROVE Answered'
  BY <1>1 DEF Answered
<1>2. ASSUME NEW s \in Senders, NEW j \in Jobs, Accepted(s, j) PROVE Answered'
  <2>1. /\ posted' = [posted EXCEPT ![s] = j] /\ heard' = [heard EXCEPT ![s] = TRUE]
        /\ accepted' = [accepted EXCEPT ![j] = @ + 1] /\ unheard' = unheard
        /\ delivered' = delivered
    BY <1>2 DEF Accepted, Post, rows
  <2>2. \A i \in Jobs : accepted'[i] = IF i = j THEN accepted[i] + 1 ELSE accepted[i]
    BY <1>t, <2>1
  <2> QED BY <1>t, <1>h, <2>1, <2>2 DEF Answered
<1>3. ASSUME NEW s \in Senders, NEW j \in Jobs, AcceptedUnheard(s, j) PROVE Answered'
  <2>1. /\ posted' = [posted EXCEPT ![s] = j] /\ heard' = [heard EXCEPT ![s] = FALSE]
        /\ accepted' = [accepted EXCEPT ![j] = @ + 1]
        /\ unheard' = [unheard EXCEPT ![j] = @ + 1]
        /\ delivered' = delivered
    BY <1>3 DEF AcceptedUnheard, Post, rows
  <2>2. \A i \in Jobs : /\ accepted'[i] = IF i = j THEN accepted[i] + 1 ELSE accepted[i]
                        /\ unheard'[i] = IF i = j THEN unheard[i] + 1 ELSE unheard[i]
    BY <1>t, <2>1
  <2> QED BY <1>t, <1>h, <2>1, <2>2 DEF Answered
<1>4. ASSUME NEW s \in Senders, NEW j \in Jobs, RefusedPost(s, j) PROVE Answered'
  BY <1>t, <1>h, <1>4 DEF RefusedPost, Post, rows, receivers, Answered
<1>5. ASSUME NEW s \in Senders, CommitSettle(s) PROVE Answered'
  BY <1>t, <1>h, <1>5 DEF CommitSettle, DeliveredBy, receivers, Answered
<1>6. ASSUME NEW s \in Senders, EndSweep(s) \/ Die(s) PROVE Answered'
  BY <1>t, <1>h, <1>6 DEF EndSweep, Die, Leave, rows, receivers, Answered
<1>7. ASSUME NEW s \in Senders, Sweep(s) \/ ReadSettle(s) PROVE Answered'
  BY <1>1, <1>7 DEF Sweep, ReadSettle, rows, receivers
<1>8. ASSUME NEW j \in Jobs, End(j) PROVE Answered'
  BY <1>1, <1>8 DEF End, sweeps, receivers
<1>9. CASE UNCHANGED vars
  BY <1>1, <1>9 DEF vars, rows, sweeps, receivers
<1> QED BY <1>2, <1>3, <1>4, <1>5, <1>6, <1>7, <1>8, <1>9 DEF Next, Progress

-----------------------------------------------------------------------------
(* Acceptances *)

LEMMA AccountedInit == Init => Accounted
<1> SUFFICES ASSUME Init, NEW j \in Jobs
             PROVE  accepted[j] <= unheard[j] + faults + Cardinality(Holding(j))
  BY DEF Accounted, Init
<1>1. Cardinality(Holding(j)) \in Nat
  BY SubsetsCount DEF Holding
<1> QED BY <1>1 DEF Init

\* A post moves its sender from the debtors of the job to its holders, or to neither.
LEMMA PostMoves ==
    ASSUME Base, NEW s \in Senders, NEW j \in Jobs, Post(s, j), NEW answer \in BOOLEAN,
           heard' = [heard EXCEPT ![s] = answer]
    PROVE  /\ Cardinality(Owing(j)') = Cardinality(Owing(j)) - 1
           /\ Cardinality(Holding(j)')
                = IF answer THEN Cardinality(Holding(j)) + 1 ELSE Cardinality(Holding(j))
           /\ \A i \in Jobs \ {j} : Owing(i)' = Owing(i) /\ Holding(i)' = Holding(i)
<1>1. /\ ~heard[s] /\ heard'[s] = answer /\ \A t \in Senders \ {s} : heard'[t] = heard[t]
      /\ posted'[s] = j /\ \A t \in Senders \ {s} : posted'[t] = posted[t]
      /\ pending'[s] = pending[s] \ {j} /\ \A t \in Senders \ {s} : pending'[t] = pending[t]
      /\ j \in pending[s]
  BY DEF Base, TypeOK, InHand, Post
<1>2. Owing(j)' = Owing(j) \ {s} /\ s \in Owing(j)
  BY <1>1 DEF Owing
<1>3. s \notin Holding(j) /\ Holding(j)' = IF answer THEN Holding(j) \cup {s} ELSE Holding(j)
  BY <1>1 DEF Holding
<1>4. ASSUME NEW i \in Jobs \ {j} PROVE Owing(i)' = Owing(i) /\ Holding(i)' = Holding(i)
  BY <1>1 DEF Owing, Holding
<1>5. Owing(j) \in SUBSET Senders /\ Holding(j) \in SUBSET Senders
  BY DEF Owing, Holding
<1> QED BY <1>2, <1>3, <1>4, <1>5, OneMore, OneLess

LEMMA AccountedNext == Base /\ Accounted /\ [Next]_vars => Accounted'
<1> SUFFICES ASSUME Base, Accounted, [Next]_vars PROVE Accounted'
  OBVIOUS
<1>t. /\ accepted \in [Jobs -> Nat] /\ unheard \in [Jobs -> Nat] /\ faults \in Nat
      /\ Cardinality(Senders) \in Nat
      /\ \A j \in Jobs : Cardinality(Holding(j)) \in Nat /\ Cardinality(Owing(j)) \in Nat
  BY SubsetsCount DEF Base, TypeOK, Holding, Owing
<1>1. ASSUME UNCHANGED <<posted, heard, pending, accepted, unheard, delivered, faults>>
      PROVE  Accounted'
  BY <1>1 DEF Accounted, Holding, Owing
<1>2. ASSUME NEW s \in Senders, NEW j \in Jobs, Accepted(s, j) PROVE Accounted'
  <2>1. /\ Post(s, j) /\ heard' = [heard EXCEPT ![s] = TRUE]
        /\ \A i \in Jobs : accepted'[i] = IF i = j THEN accepted[i] + 1 ELSE accepted[i]
        /\ unheard' = unheard /\ faults' = faults /\ delivered' = delivered
    BY <1>t, <1>2 DEF Accepted, Post, rows
  <2>2. /\ Cardinality(Owing(j)') = Cardinality(Owing(j)) - 1
        /\ Cardinality(Holding(j)') = Cardinality(Holding(j)) + 1
        /\ \A i \in Jobs \ {j} : Owing(i)' = Owing(i) /\ Holding(i)' = Holding(i)
    BY <2>1, PostMoves
  <2> QED BY <1>t, <2>1, <2>2 DEF Accounted
<1>3. ASSUME NEW s \in Senders, NEW j \in Jobs, AcceptedUnheard(s, j) PROVE Accounted'
  <2>1. /\ Post(s, j) /\ heard' = [heard EXCEPT ![s] = FALSE]
        /\ \A i \in Jobs : /\ accepted'[i] = IF i = j THEN accepted[i] + 1 ELSE accepted[i]
                           /\ unheard'[i] = IF i = j THEN unheard[i] + 1 ELSE unheard[i]
        /\ faults' = faults /\ delivered' = delivered
    BY <1>t, <1>3 DEF AcceptedUnheard, Post, rows
  <2>2. /\ Cardinality(Owing(j)') = Cardinality(Owing(j)) - 1
        /\ Cardinality(Holding(j)') = Cardinality(Holding(j))
        /\ \A i \in Jobs \ {j} : Owing(i)' = Owing(i) /\ Holding(i)' = Holding(i)
    BY <2>1, PostMoves
  <2> QED BY <1>t, <2>1, <2>2 DEF Accounted
<1>4. ASSUME NEW s \in Senders, NEW j \in Jobs, RefusedPost(s, j) PROVE Accounted'
  <2>1. /\ Post(s, j) /\ heard' = [heard EXCEPT ![s] = FALSE]
        /\ UNCHANGED <<accepted, unheard, faults, delivered>>
    BY <1>4 DEF RefusedPost, Post, rows, receivers
  <2>2. /\ Cardinality(Owing(j)') = Cardinality(Owing(j)) - 1
        /\ Cardinality(Holding(j)') = Cardinality(Holding(j))
        /\ \A i \in Jobs \ {j} : Owing(i)' = Owing(i) /\ Holding(i)' = Holding(i)
    BY <2>1, PostMoves
  <2> QED BY <1>t, <2>1, <2>2 DEF Accounted
<1>5. ASSUME NEW s \in Senders, CommitSettle(s) PROVE Accounted'
  <2>1. /\ UNCHANGED <<pending, accepted, unheard, faults>>
        /\ delivered' = IF heard[s] THEN delivered \cup {posted[s]} ELSE delivered
        /\ ~heard'[s] /\ \A r \in Senders \ {s} : heard'[r] = heard[r] /\ posted'[r] = posted[r]
    BY <1>5 DEF CommitSettle, DeliveredBy, receivers, Base, TypeOK
  <2>2. \A j \in Jobs : Owing(j)' = Owing(j)
    BY <2>1 DEF Owing
  <2>3. ASSUME NEW j \in Jobs, j \notin delivered' PROVE Holding(j)' = Holding(j)
    BY <2>1, <2>3 DEF Holding
  <2>4. ASSUME NEW j \in Jobs, j \in delivered', j \notin delivered
        PROVE  accepted[j] + Cardinality(Owing(j)) <= unheard[j] + faults + Cardinality(Senders)
    BY <1>t, <2>4, HoldersOweNothing DEF Accounted
  <2> QED BY <1>t, <2>1, <2>2, <2>3, <2>4 DEF Accounted
<1>6. ASSUME NEW s \in Senders, Die(s) PROVE Accounted'
  <2>1. /\ UNCHANGED <<accepted, unheard, delivered>> /\ faults' = faults + 1
        /\ ~heard'[s] /\ \A r \in Senders \ {s} : heard'[r] = heard[r] /\ posted'[r] = posted[r]
        /\ pending'[s] = {} /\ \A r \in Senders \ {s} : pending'[r] = pending[r]
    BY <1>6 DEF Die, Leave, rows, receivers, Base, TypeOK
  <2>2. ASSUME NEW j \in Jobs
        PROVE  Owing(j)' = Owing(j) \ {s} /\ Holding(j)' = Holding(j) \ {s}
    BY <2>1 DEF Owing, Holding
  <2>3. ASSUME NEW S \in SUBSET Senders
        PROVE  /\ Cardinality(S) \in Nat
               /\ Cardinality(S \ {s}) = IF s \in S THEN Cardinality(S) - 1 ELSE Cardinality(S)
    <3>1. CASE s \in S
      BY <3>1, OneLess, SubsetsCount
    <3>2. CASE s \notin S
      <4>1. S \ {s} = S
        BY <3>2
      <4> QED BY <3>2, <4>1, SubsetsCount
    <3> QED BY <3>1, <3>2
  <2>4. ASSUME NEW j \in Jobs
        PROVE  /\ Cardinality(Owing(j)') <= Cardinality(Owing(j)) /\ Cardinality(Owing(j)') \in Nat
               /\ Cardinality(Holding(j)) <= Cardinality(Holding(j)') + 1
               /\ Cardinality(Holding(j)') \in Nat
    <3>1. /\ Owing(j) \in SUBSET Senders /\ Holding(j) \in SUBSET Senders
          /\ Owing(j) \ {s} \in SUBSET Senders /\ Holding(j) \ {s} \in SUBSET Senders
      BY DEF Owing, Holding
    <3> QED BY <2>2, <2>3, <3>1
  <2> QED BY <1>t, <2>1, <2>4 DEF Accounted
<1>7. ASSUME NEW s \in Senders, Sweep(s) PROVE Accounted'
  <2>1. UNCHANGED <<posted, heard, accepted, unheard, delivered, faults>>
    BY <1>7 DEF Sweep, rows, receivers
  <2>2. \A j \in Jobs : Holding(j)' = Holding(j)
    BY <2>1 DEF Holding
  <2>3. ASSUME NEW j \in delivered PROVE Owing(j)' = Owing(j)
    <3>1. /\ pending[s] = {} /\ pending'[s] = Owed
          /\ \A r \in Senders \ {s} : pending'[r] = pending[r]
      BY <1>7 DEF Sweep, Base, TypeOK, InHand
    <3>2. j \notin Owed
      BY DEF Owed
    <3> QED BY <3>1, <3>2 DEF Owing
  <2> QED BY <2>1, <2>2, <2>3 DEF Accounted
<1>8. ASSUME NEW s \in Senders, ReadSettle(s) PROVE Accounted'
  BY <1>1, <1>8 DEF ReadSettle, rows, receivers
<1>9. ASSUME NEW s \in Senders, EndSweep(s) PROVE Accounted'
  <2>1. UNCHANGED <<posted, heard, pending>>
    BY <1>9 DEF EndSweep, Leave, Base, TypeOK, InHand
  <2> QED BY <1>1, <1>9, <2>1 DEF EndSweep, rows, receivers
<1>10. ASSUME NEW j \in Jobs, End(j) PROVE Accounted'
  BY <1>1, <1>10 DEF End, sweeps, receivers
<1>11. CASE UNCHANGED vars
  BY <1>1, <1>11 DEF vars, rows, sweeps, receivers
<1> QED
  BY <1>2, <1>3, <1>4, <1>5, <1>6, <1>7, <1>8, <1>9, <1>10, <1>11 DEF Next, Progress

\* A job is marked as delivered only when its receiver accepted it, and it is
\* accepted no more often than there are processes, lost answers and deaths.
THEOREM DuplicatesHaveAReasonForAny == Spec => []DuplicatesHaveAReason
<1>1. Spec => [](Base /\ Answered /\ Accounted)
  BY BaseInit, BaseNext, AnsweredInit, AnsweredNext, AccountedInit, AccountedNext, PTL DEF Spec
<1>2. Base /\ Answered /\ Accounted => DuplicatesHaveAReason
  <2> SUFFICES ASSUME Base, Answered, Accounted, NEW j \in Jobs
               PROVE  /\ j \in delivered => accepted[j] > unheard[j]
                      /\ accepted[j] <= Cardinality(Senders) + unheard[j] + faults
    BY DEF DuplicatesHaveAReason
  <2>1. /\ accepted[j] \in Nat /\ unheard[j] \in Nat /\ faults \in Nat
        /\ Cardinality(Senders) \in Nat
        /\ Cardinality(Holding(j)) \in Nat /\ Cardinality(Holding(j)) <= Cardinality(Senders)
        /\ Cardinality(Owing(j)) \in Nat
    BY SubsetsCount DEF Base, TypeOK, Holding, Owing
  <2> QED BY <2>1 DEF Answered, Accounted
<1> QED BY <1>1, <1>2, PTL
=============================================================================
