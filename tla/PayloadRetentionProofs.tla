----------------------- MODULE PayloadRetentionProofs -----------------------
(***************************************************************************)
(* Two results about retention, for any number of digests, rows, and       *)
(* collectors: a prune sweeps fewer orphans than the rows it leaves, and   *)
(* a row keeps its payload unless that payload was put again in one of the *)
(* two windows the code leaves open.                                       *)
(*                                                                         *)
(* The second rests on what a prune in flight may assume of a digest it is *)
(* about to remove and that nobody has risked: no row that stays and no    *)
(* collector between its write and its row relies on it.                   *)
(***************************************************************************)
EXTENDS PayloadRetention, FiniteSetTheorems, TLAPS

Acting == {"judged", "unlinking", "sweeping"}

\* What the locals of the code hold in each phase of prune.
Shape ==
    /\ expired \subseteq Rows
    /\ aged \subseteq Stored
    /\ doomed # {} => ppc \in {"judged", "unlinking"}
    /\ ppc = "judged" => expiring \subseteq expired
    /\ \A c \in Collectors : pc[c] # "idle" => put[c] \in Digests

Base == TypeOK /\ Shape

-----------------------------------------------------------------------------
(* Types *)

LEMMA BaseInit == Init => Base
<1> SUFFICES ASSUME Init PROVE Base
  OBVIOUS
<1> QED BY ConstantsOK DEF Init, Base, TypeOK, Shape, Rows, Stored

LEMMA SurvivingIsNumber == Surviving \in Nat
<1>1. IsFiniteSet(Rows \ expired)
  BY ConstantsOK, FS_Subset DEF Rows
<1> QED BY <1>1, FS_CardinalityType DEF Surviving

LEMMA BaseNext == Base /\ [Next]_vars => Base'
<1> SUFFICES ASSUME Base, [Next]_vars PROVE Base'
  OBVIOUS
<1> USE DEF Base
<1>1. ASSUME NEW i \in Ids, AgeRow(i) PROVE Base'
  BY <1>1 DEF AgeRow, TypeOK, Shape, Rows, Stored, store, collecting, pruning
<1>2. ASSUME NEW d \in Digests, AgeFile(d) PROVE Base'
  BY <1>2 DEF AgeFile, TypeOK, Shape, Rows, Stored, index, collecting, pruning
<1>3. ASSUME NEW c \in Collectors, NEW d \in Digests, Fetch(c, d) PROVE Base'
  BY <1>3 DEF Fetch, TypeOK, Shape, Rows, Stored, index, store, pruning
<1>4. ASSUME NEW c \in Collectors, OpenFile(c) PROVE Base'
  BY <1>4 DEF OpenFile, TypeOK, Shape, Rows, Stored, index, pruning
<1>5. ASSUME NEW c \in Collectors, WriteFile(c) PROVE Base'
  <2>1. put[c] \in Digests
    BY <1>5 DEF WriteFile, Shape
  <2> QED BY <1>5, <2>1 DEF WriteFile, TypeOK, Shape, Rows, Stored, index, pruning
<1>6. ASSUME NEW c \in Collectors, NEW i \in Ids, Record(c, i) PROVE Base'
  BY <1>6, ConstantsOK DEF Record, Idle, TypeOK, Shape, Rows, Stored, store, pruning
<1>7. ASSUME NEW c \in Collectors, Unrecorded(c) PROVE Base'
  BY <1>7 DEF Unrecorded, Idle, TypeOK, Shape, Rows, Stored, index, store, pruning
<1>8. ASSUME NEW c \in Collectors, CrashCollector(c) PROVE Base'
  BY <1>8 DEF CrashCollector, Idle, TypeOK, Shape, Rows, Stored, index, store, pruning
<1>9. CASE StartPrune
  BY <1>9 DEF StartPrune, TypeOK, Shape, Rows, Stored, index, store, Referenced
<1>10. CASE Judge
  <2>1. Live \subseteq Digests /\ Doomed \subseteq Digests
    BY DEF Live, Doomed, Rows, TypeOK
  <2> QED BY <1>10, <2>1, SurvivingIsNumber
      DEF Judge, TypeOK, Shape, Rows, Stored, index, store, collecting
<1>11. CASE RefusePrune \/ EndPrune
  BY <1>11 DEF RefusePrune, EndPrune, Forget, TypeOK, Shape, Rows, Stored, index, store, collecting
<1>12. CASE CommitDeletes
  BY <1>12 DEF CommitDeletes, TypeOK, Shape, Rows, Stored, store, collecting
<1>13. ASSUME NEW d \in Digests, Unlink(d) PROVE Base'
  BY <1>13 DEF Unlink, Remove, TypeOK, Shape, Rows, Stored, index, collecting
<1>14. CASE StartSweep
  BY <1>14 DEF StartSweep, TypeOK, Shape, Rows, Stored, index, store, collecting
<1>15. ASSUME NEW d \in Digests, Sweep(d) PROVE Base'
  BY <1>15 DEF Sweep, Remove, TypeOK, Shape, Rows, Stored, index, store, collecting
<1>16. CASE CrashPrune
  BY <1>16 DEF CrashPrune, Forget, TypeOK, Shape, Rows, Stored, index, store, collecting
<1>17. CASE UNCHANGED vars
  BY <1>17 DEF vars, index, store, collecting, pruning, TypeOK, Shape, Rows, Stored
<1> QED
  BY <1>1, <1>2, <1>3, <1>4, <1>5, <1>6, <1>7, <1>8, <1>9, <1>10, <1>11, <1>12, <1>13,
     <1>14, <1>15, <1>16, <1>17
  DEF Next, Collecting, Pruning

\* The state keeps its types, and an aged file and an expired row exist.
THEOREM Typing == Spec => []TypeOK
<1>1. Spec => []Base
  BY BaseInit, BaseNext, PTL DEF Spec
<1>2. Base => TypeOK
  BY DEF Base
<1> QED BY <1>1, <1>2, PTL
-----------------------------------------------------------------------------
(* Proportion *)

\* What the sweep of the prune in flight may still remove.
Remaining == aged \ (live \cup doomed)

Proportionate ==
    ppc \in Acting /\ ~Forced =>
        swept + Cardinality(Remaining) < AtLeastOne(surviving)

LEMMA DigestsCount ==
    ASSUME NEW S \in SUBSET Digests
    PROVE  IsFiniteSet(S) /\ Cardinality(S) \in Nat
BY ConstantsOK, FS_Subset, FS_CardinalityType

\* A step that adds nothing to what may be removed, and leaves the count alone.
LEMMA FewerRemain ==
    ASSUME Base, Proportionate, ppc \in Acting,
           aged' \ (live' \cup doomed') \subseteq Remaining,
           surviving' = surviving, swept' = swept
    PROVE  Proportionate'
<1>1. /\ Remaining \in SUBSET Digests /\ Remaining' \in SUBSET Digests
      /\ Remaining' \subseteq Remaining /\ swept \in Nat /\ surviving \in Nat
  BY DEF Base, TypeOK, Remaining
<1>2. Cardinality(Remaining') <= Cardinality(Remaining)
  BY <1>1, DigestsCount, FS_Subset
<1> QED BY <1>1, <1>2, DigestsCount DEF Proportionate, AtLeastOne

LEMMA ProportionateNext == Base /\ Proportionate /\ [Next]_vars => Proportionate'
<1> SUFFICES ASSUME Base, Proportionate, [Next]_vars PROVE Proportionate'
  OBVIOUS
<1>1. ASSUME ppc' \notin Acting PROVE Proportionate'
  BY <1>1 DEF Proportionate
<1>2. ASSUME UNCHANGED pruning, aged' \subseteq aged PROVE Proportionate'
  <2>1. CASE ppc \in Acting
    BY <1>2, <2>1, FewerRemain DEF pruning, Remaining
  <2>2. CASE ppc \notin Acting
    BY <1>1, <1>2, <2>2 DEF pruning
  <2> QED BY <2>1, <2>2
<1>3. ASSUME NEW i \in Ids, AgeRow(i) PROVE Proportionate'
  BY <1>2, <1>3 DEF AgeRow, store
<1>4. ASSUME NEW d \in Digests, AgeFile(d) PROVE Proportionate'
  BY <1>1, <1>4 DEF AgeFile, Untouched, pruning, Acting
<1>5. ASSUME NEW c \in Collectors, Collecting(c) \/ CrashCollector(c) PROVE Proportionate'
  BY <1>2, <1>5
  DEF Collecting, CrashCollector, Fetch, OpenFile, WriteFile, Unrecorded, Record, store
<1>6. CASE StartPrune \/ RefusePrune \/ EndPrune \/ CrashPrune
  BY <1>1, <1>6 DEF StartPrune, RefusePrune, EndPrune, CrashPrune, Forget, Acting
<1>7. CASE Judge
  <2>1. /\ ~Disproportionate /\ live' = Live /\ doomed' = Doomed /\ aged' = aged
        /\ surviving' = Surviving /\ swept' = 0
    BY <1>7 DEF Judge, store
  <2>2. aged' \ (live' \cup doomed') = Orphans
    <3>1. Live \cup Doomed = Referenced
      BY DEF Live, Doomed, Referenced
    <3> QED BY <2>1, <3>1 DEF Orphans, Base, Shape
  <2>3. Orphans \in SUBSET Digests
    BY DEF Orphans, Stored
  <2>4. ~Forced => Cardinality(Orphans) < AtLeastOne(Surviving)
    <3>1. CASE Orphans = {}
      BY <3>1, SurvivingIsNumber, FS_EmptySet DEF AtLeastOne
    <3>2. CASE Orphans # {}
      BY <2>1, <2>3, <3>2, SurvivingIsNumber, DigestsCount DEF Disproportionate, AtLeastOne
    <3> QED BY <3>1, <3>2
  <2>5. Remaining' = Orphans /\ Cardinality(Orphans) \in Nat
    BY <2>2, <2>3, DigestsCount DEF Remaining
  <2>6. ~Forced => swept' + Cardinality(Remaining') < AtLeastOne(surviving')
    BY <2>1, <2>4, <2>5
  <2> QED BY <2>6 DEF Proportionate, AtLeastOne
<1>8. CASE CommitDeletes \/ StartSweep
  BY <1>8, FewerRemain DEF CommitDeletes, StartSweep, store, Remaining, Acting
<1>9. ASSUME NEW d \in Digests, Unlink(d) PROVE Proportionate'
  BY <1>9, FewerRemain DEF Unlink, Remove, Remaining, Acting
<1>10. ASSUME NEW d \in Digests, Sweep(d) PROVE Proportionate'
  <2>1. ppc = "sweeping" /\ ppc' = ppc /\ UNCHANGED <<live, doomed, surviving>>
    BY <1>10 DEF Sweep
  <2>2. CASE ~Sweepable(d)
    BY <1>10, <2>1, <2>2, FewerRemain DEF Sweep, store, Remaining, Acting
  <2>3. CASE Sweepable(d)
    <3>1. swept' = swept + 1 /\ aged' = aged \ {d} /\ d \in aged /\ d \notin live
      BY <1>10, <2>3 DEF Sweep, Remove, Sweepable
    <3>2. Remaining' = Remaining \ {d} /\ d \in Remaining
      BY <2>1, <3>1 DEF Remaining, Base, Shape
    <3>3. Remaining \in SUBSET Digests /\ swept \in Nat /\ surviving \in Nat
      BY DEF Remaining, Base, TypeOK
    <3>4. Cardinality(Remaining') = Cardinality(Remaining) - 1
      BY <3>2, <3>3, DigestsCount, FS_RemoveElement
    <3> QED BY <2>1, <3>1, <3>3, <3>4, DigestsCount DEF Proportionate, AtLeastOne
  <2> QED BY <2>2, <2>3
<1>11. CASE UNCHANGED vars
  BY <1>2, <1>11 DEF vars, store
<1> QED
  BY <1>3, <1>4, <1>5, <1>6, <1>7, <1>8, <1>9, <1>10, <1>11 DEF Next, Pruning

\* A prune that was not forced sweeps fewer orphans than it leaves rows, and none
\* from an index it leaves empty, however large the store.
THEOREM SweepIsProportionateForAny == Spec => []SweepIsProportionate
<1>0. Init => Proportionate
  BY DEF Init, Proportionate, Acting
<1> DEFINE Swept == swept > 0 => ppc = "sweeping"
<1>3. Init => Swept
  BY DEF Init
<1>4. Base /\ Swept /\ [Next]_vars => Swept'
  <2> SUFFICES ASSUME Base, Swept, [Next]_vars PROVE Swept'
    OBVIOUS
  <2>1. CASE UNCHANGED <<swept, ppc>>
    BY <2>1
  <2>2. CASE StartPrune \/ Judge \/ RefusePrune \/ CommitDeletes \/ StartSweep
             \/ EndPrune \/ CrashPrune
    BY <2>2
    DEF StartPrune, Judge, RefusePrune, CommitDeletes, StartSweep, EndPrune, CrashPrune, Forget
  <2>3. ASSUME NEW d \in Digests, Unlink(d) \/ Sweep(d) PROVE Swept'
    BY <2>3 DEF Unlink, Sweep
  <2>4. ASSUME NEW c \in Collectors, Collecting(c) \/ CrashCollector(c) PROVE Swept'
    BY <2>1, <2>4
    DEF Collecting, CrashCollector, Fetch, OpenFile, WriteFile, Unrecorded, Record, pruning
  <2>5. ASSUME (\E i \in Ids : AgeRow(i)) \/ (\E d \in Digests : AgeFile(d)) PROVE Swept'
    BY <2>1, <2>5 DEF AgeRow, AgeFile, pruning
  <2>6. CASE UNCHANGED vars
    BY <2>1, <2>6 DEF vars, pruning
  <2> QED BY <2>2, <2>3, <2>4, <2>5, <2>6 DEF Next, Pruning
<1>5. Base /\ Proportionate /\ Swept => SweepIsProportionate
  <2> SUFFICES ASSUME Base, Proportionate, Swept, ~Forced, swept > 0
               PROVE  swept < AtLeastOne(surviving)
    BY DEF SweepIsProportionate
  <2>1. Remaining \in SUBSET Digests /\ swept \in Nat /\ surviving \in Nat
    BY DEF Remaining, Base, TypeOK
  <2> QED BY <2>1, DigestsCount DEF Proportionate, Acting, AtLeastOne
<1>6. Spec => [](Base /\ Proportionate /\ Swept)
  BY BaseInit, BaseNext, ProportionateNext, <1>0, <1>3, <1>4, PTL DEF Spec
<1> QED BY <1>5, <1>6, PTL
-----------------------------------------------------------------------------
(* Payloads *)

Putting(c) == pc[c] \in {"writing", "written"}

\* An aged file was written before every put that is under way.
AgedIsOld == \A d \in aged : \A c \in Collectors : Putting(c) => put[c] # d

\* A collector that has written its file finds it there when it records the row.
PutsHold ==
    \A c \in Collectors : put[c] \notin risked =>
        /\ pc[c] = "writing" => file[put[c]] # "none"
        /\ pc[c] = "written" => Readable(put[c])

\* Before a prune judges, nobody is putting again what an expired row names.
NotPutAgain ==
    ppc = "started" =>
        \A i \in expired : digest[i] \notin risked =>
            \A c \in Collectors : Putting(c) => put[c] # digest[i]

\* The rows that stay when the prune in flight has committed.
Kept == IF ppc = "judged" THEN Rows \ expiring ELSE Rows

\* Nothing relies on what the prune in flight may remove.
Unneeded ==
    ppc \in Acting =>
        \A d \in (aged \cup doomed) \ (live \cup risked) :
            /\ \A i \in Kept : digest[i] # d
            /\ \A c \in Collectors : Putting(c) => put[c] # d

\* A doomed file is there until it is unlinked, so that a put of it is noticed.
DoomedAreStored == \A d \in doomed \ risked : file[d] # "none" /\ d \notin live

Safe ==
    /\ AgedIsOld /\ PutsHold /\ NotPutAgain /\ Unneeded /\ DoomedAreStored
    /\ RowsKeepPayloads

LEMMA SafeInit == Init => Safe
<1> SUFFICES ASSUME Init PROVE Safe
  OBVIOUS
<1> QED
  BY DEF Init, Safe, AgedIsOld, PutsHold, NotPutAgain, Unneeded, DoomedAreStored,
         RowsKeepPayloads, Rows, Putting, Acting

\* Time, and the end of a prune.
LEMMA SafeInTime ==
    ASSUME Base, Safe,
           \/ \E i \in Ids : AgeRow(i)
           \/ \E d \in Digests : AgeFile(d)
           \/ RefusePrune \/ EndPrune \/ CrashPrune
    PROVE  Safe'
<1>1. ASSUME NEW i \in Ids, AgeRow(i) PROVE Safe'
  <2>1. ppc = "idle" /\ UNCHANGED <<digest, file, aged, pc, put, risked, doomed, ppc, live>>
    BY <1>1 DEF AgeRow, Untouched, store, collecting, pruning
  <2> QED
    BY <2>1 DEF Safe, AgedIsOld, PutsHold, NotPutAgain, Unneeded, DoomedAreStored,
                RowsKeepPayloads, Rows, Putting, Acting, Readable
<1>2. ASSUME NEW d \in Digests, AgeFile(d) PROVE Safe'
  <2>1. /\ ppc = "idle" /\ UNCHANGED <<digest, file, pc, put, risked, doomed, ppc, live>>
        /\ aged' = aged \cup {d} /\ \A c \in Collectors : Putting(c) => put[c] # d
    BY <1>2 DEF AgeFile, Untouched, index, collecting, pruning, Putting
  <2> QED
    BY <2>1 DEF Safe, AgedIsOld, PutsHold, NotPutAgain, Unneeded, DoomedAreStored,
                RowsKeepPayloads, Rows, Putting, Acting, Readable
<1>3. CASE RefusePrune \/ EndPrune \/ CrashPrune
  <2>1. /\ ppc' = "idle" /\ UNCHANGED <<digest, expired, file, aged, pc, put, risked>>
        /\ doomed' \subseteq doomed /\ (doomed' # {} => live' = live)
    BY <1>3 DEF RefusePrune, EndPrune, CrashPrune, Forget, index, store, collecting
  <2> QED
    BY <2>1 DEF Safe, AgedIsOld, PutsHold, NotPutAgain, Unneeded, DoomedAreStored,
                RowsKeepPayloads, Rows, Putting, Acting, Readable
<1> QED BY <1>1, <1>2, <1>3

\* A collector opens its file: if a prune may remove it, it is there and so risked.
LEMMA SafeOpen == ASSUME Base, Safe, NEW c \in Collectors, OpenFile(c) PROVE Safe'
<1> PICK d \in Digests : d = put[c]
  BY DEF OpenFile, Base, Shape
<1>1. /\ pc[c] = "fetched" /\ pc' = [pc EXCEPT ![c] = "writing"] /\ put' = put
      /\ file' = [file EXCEPT ![d] = "torn"] /\ aged' = aged \ {d}
      /\ risked' = IF d \in Stored /\ ppc # "idle" THEN risked \cup {d} ELSE risked
      /\ UNCHANGED <<digest, expired, ppc, expiring, live, doomed>>
  BY DEF OpenFile, index, pruning
<1>2. /\ pc'[c] = "writing" /\ \A k \in Collectors \ {c} : pc'[k] = pc[k]
      /\ file'[d] = "torn" /\ \A e \in Digests \ {d} : file'[e] = file[e]
      /\ risked \subseteq risked'
  BY <1>1 DEF Base, TypeOK
<1>3. Rows' = Rows /\ Kept' = Kept
  BY <1>1 DEF Rows, Kept
<1>4. \A e \in Digests : Readable(e) => Readable(e)'
  BY <1>1, <1>2 DEF Readable
<1>5. AgedIsOld'
  BY <1>1, <1>2 DEF Safe, AgedIsOld, Putting
<1>6. PutsHold'
  <2>1. \A k \in Collectors : pc[k] # "idle" => put[k] \in Digests
    BY DEF Base, Shape
  <2> QED BY <1>1, <1>2, <1>4, <2>1 DEF Safe, PutsHold
<1>7. RowsKeepPayloads'
  BY <1>1, <1>2, <1>3, <1>4 DEF Safe, RowsKeepPayloads, Base, TypeOK, Rows
<1>8. NotPutAgain'
  <2> SUFFICES ASSUME ppc = "started", NEW i \in expired, digest[i] \notin risked',
                      NEW k \in Collectors, Putting(k)'
               PROVE  put[k] # digest[i]
    BY <1>1 DEF NotPutAgain
  <2>1. digest[i] \notin risked /\ i \in Rows /\ digest[i] \in Digests
    BY <1>2 DEF Base, Shape, TypeOK, Rows
  <2>2. CASE k = c
    <3>1. Readable(digest[i])
      BY <2>1 DEF Safe, RowsKeepPayloads
    <3>2. digest[i] \in Stored
      BY <2>1, <3>1 DEF Readable, Stored
    <3> QED BY <1>1, <2>2, <3>2
  <2>3. CASE k # c
    BY <1>2, <2>1, <2>3 DEF Putting, Safe, NotPutAgain
  <2> QED BY <2>2, <2>3
<1>9. d \in doomed => d \in risked'
  BY <1>1 DEF Safe, DoomedAreStored, Stored, Base, Shape
<1>10. Unneeded'
  BY <1>1, <1>2, <1>3, <1>9 DEF Safe, Unneeded, Putting, Acting
<1>11. DoomedAreStored'
  BY <1>1, <1>2, <1>9 DEF Safe, DoomedAreStored, Base, TypeOK
<1> QED BY <1>5, <1>6, <1>7, <1>8, <1>10, <1>11 DEF Safe

LEMMA SafeWrite == ASSUME Base, Safe, NEW c \in Collectors, WriteFile(c) PROVE Safe'
<1> PICK d \in Digests : d = put[c]
  BY DEF WriteFile, Base, Shape
<1>1. /\ pc[c] = "writing" /\ pc' = [pc EXCEPT ![c] = "written"]
      /\ file' = [file EXCEPT ![d] = IF @ = "none" THEN "none" ELSE "whole"]
      /\ UNCHANGED <<digest, expired, aged, put, risked, ppc, expiring, live, doomed>>
  BY DEF WriteFile, index, pruning
<1>2. /\ pc'[c] = "written" /\ \A k \in Collectors \ {c} : pc'[k] = pc[k]
      /\ file'[d] = (IF file[d] = "none" THEN "none" ELSE "whole")
      /\ \A e \in Digests \ {d} : file'[e] = file[e]
  BY <1>1 DEF Base, TypeOK
<1>3. Rows' = Rows /\ Kept' = Kept
  BY <1>1 DEF Rows, Kept
<1>4. \A e \in Digests : Readable(e) => Readable(e)'
  BY <1>1, <1>2 DEF Readable
<1>5. d \notin risked => file'[d] = "whole"
  BY <1>1, <1>2 DEF Safe, PutsHold
<1>6. \A k \in Collectors : Putting(k)' <=> Putting(k)
  BY <1>1, <1>2 DEF Putting
<1>7. AgedIsOld' /\ NotPutAgain' /\ Unneeded'
  BY <1>1, <1>3, <1>6 DEF Safe, AgedIsOld, NotPutAgain, Unneeded
<1>8. PutsHold'
  <2>1. \A k \in Collectors : pc[k] # "idle" => put[k] \in Digests
    BY DEF Base, Shape
  <2> QED BY <1>1, <1>2, <1>4, <1>5, <2>1 DEF Safe, PutsHold, Readable
<1>9. RowsKeepPayloads'
  BY <1>1, <1>3, <1>4 DEF Safe, RowsKeepPayloads, Base, TypeOK, Rows
<1>10. DoomedAreStored'
  BY <1>1, <1>2 DEF Safe, DoomedAreStored, Base, TypeOK
<1> QED BY <1>7, <1>8, <1>9, <1>10 DEF Safe

\* A collector that is at rest after this step, and a file untouched by it.
LEMMA SafeRecord ==
    ASSUME Base, Safe, NEW c \in Collectors, NEW i \in Ids, Record(c, i)
    PROVE  Safe'
<1> PICK d \in Digests : d = put[c]
  BY DEF Record, Base, Shape
<1>1. /\ pc[c] = "written" /\ i \notin Rows /\ digest' = [digest EXCEPT ![i] = d]
      /\ pc' = [pc EXCEPT ![c] = "idle"] /\ put' = [put EXCEPT ![c] = NoDigest]
      /\ UNCHANGED <<expired, file, aged, risked, ppc, expiring, live, doomed>>
  BY DEF Record, Idle, store, pruning
<1>2. /\ ~Putting(c)' /\ \A k \in Collectors \ {c} : pc'[k] = pc[k] /\ put'[k] = put[k]
      /\ digest'[i] = d /\ \A r \in Ids \ {i} : digest'[r] = digest[r]
      /\ Rows' = Rows \cup {i}
  BY <1>1, ConstantsOK DEF Base, TypeOK, Putting, Rows
<1>3. \A e \in Digests : Readable(e) => Readable(e)'
  BY <1>1, <1>2 DEF Readable
<1>4. \A k \in Collectors : Putting(k)' => Putting(k) /\ put'[k] = put[k]
  BY <1>2 DEF Putting
<1>5. i \notin expired /\ (ppc = "judged" => i \notin expiring)
  BY <1>1 DEF Base, Shape
<1>6. AgedIsOld'
  BY <1>1, <1>4 DEF Safe, AgedIsOld
<1>7. PutsHold'
  <2>1. \A k \in Collectors : pc[k] # "idle" => put[k] \in Digests
    BY DEF Base, Shape
  <2> QED BY <1>1, <1>2, <1>3, <2>1 DEF Safe, PutsHold, Putting
<1>8. NotPutAgain'
  BY <1>1, <1>2, <1>4, <1>5 DEF Safe, NotPutAgain, Base, TypeOK
<1>9. Kept' = Kept \cup {i} /\ i \notin Kept
  BY <1>1, <1>2, <1>5 DEF Kept
<1>10. ASSUME NEW e \in (aged \cup doomed) \ (live \cup risked), ppc \in Acting PROVE e # d
  BY <1>1, <1>10 DEF Safe, Unneeded, Putting
<1>11. Unneeded'
  <2>1. \A r \in Kept : digest'[r] = digest[r]
    BY <1>1, <1>2, <1>9 DEF Kept, Rows
  <2> QED BY <1>1, <1>2, <1>4, <1>9, <1>10, <2>1 DEF Safe, Unneeded
<1>12. RowsKeepPayloads'
  <2>1. d \in risked \/ Readable(d)
    BY <1>1 DEF Safe, PutsHold
  <2>2. \A r \in Rows : r # i /\ digest'[r] = digest[r] /\ digest[r] \in Digests
    BY <1>1, <1>2 DEF Rows, Base, TypeOK
  <2> QED BY <1>1, <1>2, <1>3, <2>1, <2>2 DEF Safe, RowsKeepPayloads
<1>13. DoomedAreStored'
  BY <1>1 DEF Safe, DoomedAreStored
<1> QED BY <1>6, <1>7, <1>8, <1>11, <1>12, <1>13 DEF Safe

\* A collection starts, ends without a row, or is killed: in the last case what
\* its torn file would have broken is risked.
LEMMA SafeLeave ==
    ASSUME Base, Safe, NEW c \in Collectors,
           Unrecorded(c) \/ CrashCollector(c) \/ \E d \in Digests : Fetch(c, d)
    PROVE  Safe'
<1>1. /\ UNCHANGED <<digest, expired, file, aged, ppc, expiring, live, doomed>>
      /\ risked \subseteq risked'
      /\ ~Putting(c)' /\ \A k \in Collectors \ {c} : pc'[k] = pc[k] /\ put'[k] = put[k]
  BY DEF Unrecorded, CrashCollector, Fetch, Idle, index, store, pruning, Base, TypeOK, Putting
<1>2. \A k \in Collectors : Putting(k)' => Putting(k) /\ put'[k] = put[k]
  BY <1>1 DEF Putting
<1>3. Rows' = Rows /\ Kept' = Kept
  BY <1>1 DEF Rows, Kept
<1>4. pc[c] = "writing" => risked' = IF Wanted(c) THEN risked \cup {put[c]} ELSE risked
  BY DEF Unrecorded, CrashCollector, Fetch
<1>5. ASSUME NEW e \in Digests, Readable(e), e \notin risked', ~Readable(e)'
      PROVE  /\ \A i \in Rows : digest[i] # e
             /\ \A k \in Collectors \ {c} : Putting(k) => put[k] # e
  <2>1. pc[c] = "writing" /\ put[c] = e
    BY <1>1, <1>5 DEF Readable
  <2>2. ~Wanted(c)
    BY <1>4, <1>5, <2>1
  <2> QED BY <2>1, <2>2 DEF Wanted, Referenced, Putting
<1>6. AgedIsOld' /\ NotPutAgain' /\ Unneeded' /\ DoomedAreStored'
  BY <1>1, <1>2, <1>3
  DEF Safe, AgedIsOld, NotPutAgain, Unneeded, DoomedAreStored
<1>7. PutsHold'
  <2>1. \A k \in Collectors : pc[k] # "idle" => put[k] \in Digests
    BY DEF Base, Shape
  <2> QED BY <1>1, <1>5, <2>1 DEF Safe, PutsHold, Putting
<1>8. RowsKeepPayloads'
  <2>1. \A i \in Rows : digest[i] \in Digests
    BY DEF Rows, Base, TypeOK
  <2> QED BY <1>1, <1>3, <1>5, <2>1 DEF Safe, RowsKeepPayloads
<1> QED BY <1>6, <1>7, <1>8 DEF Safe

\* The steps of a prune that remove no file.
LEMMA SafePrune ==
    ASSUME Base, Safe, StartPrune \/ Judge \/ CommitDeletes \/ StartSweep
    PROVE  Safe'
<1>1. UNCHANGED <<file, aged, pc, put>> /\ risked \subseteq risked'
  BY DEF StartPrune, Judge, CommitDeletes, StartSweep, index, store, collecting
<1>2. \A e \in Digests : Readable(e) <=> Readable(e)'
  BY <1>1 DEF Readable
<1>3. /\ Rows' \subseteq Rows /\ \A i \in Rows' : digest'[i] = digest[i]
      /\ \A i \in Rows : digest[i] \in Digests
  BY DEF StartPrune, Judge, CommitDeletes, StartSweep, index, Rows, Base, TypeOK
<1>4. AgedIsOld'
  BY <1>1 DEF Safe, AgedIsOld, Putting
<1>5. PutsHold'
  <2>1. \A k \in Collectors : pc[k] # "idle" => put[k] \in Digests
    BY DEF Base, Shape
  <2> QED BY <1>1, <1>2, <2>1 DEF Safe, PutsHold
<1>6. RowsKeepPayloads'
  BY <1>1, <1>2, <1>3 DEF Safe, RowsKeepPayloads
<1>7. NotPutAgain' /\ Unneeded' /\ DoomedAreStored'
  <2>1. CASE StartPrune
    <3>1. /\ ppc' = "started" /\ doomed' = {} /\ digest' = digest /\ expired' = expired
          /\ \A k \in Collectors : Putting(k) /\ put[k] \in Referenced => put[k] \in risked'
      BY <2>1 DEF StartPrune, index, Base, Shape, Putting
    <3>2. \A i \in expired : digest[i] \in Referenced
      BY DEF Referenced, Base, Shape
    <3> QED BY <1>1, <3>1, <3>2 DEF NotPutAgain, Unneeded, DoomedAreStored, Acting, Putting
  <2>2. CASE Judge
    <3>1. /\ ppc = "started" /\ ppc' = "judged" /\ UNCHANGED <<digest, expired, risked>>
          /\ live' = Live /\ doomed' = Doomed /\ expiring' = Rows \cap expired
      BY <2>2 DEF Judge, index, collecting
    <3>2. \A e \in Digests \ Live : \A i \in Rows \ expired : digest[i] # e
      BY DEF Live
    <3>3. \A e \in Doomed : e \notin Live /\ \E i \in expired : digest[i] = e /\ i \in Rows
      BY DEF Doomed
    <3>4. Kept' = Rows \ expired
      BY <3>1 DEF Kept, Rows
    <3>5. aged \subseteq Digests /\ Doomed \subseteq Digests
      BY DEF Base, TypeOK, Doomed, Rows
    <3>6. Unneeded'
      <4>1. ASSUME NEW e \in (aged \cup Doomed) \ (Live \cup risked), NEW c \in Collectors, Putting(c)
            PROVE  put[c] # e
        <5>1. CASE e \in aged
          BY <4>1, <5>1 DEF Safe, AgedIsOld
        <5>2. CASE e \in Doomed
          BY <3>1, <3>3, <4>1, <5>2 DEF Safe, NotPutAgain
        <5> QED BY <5>1, <5>2
      <4> QED BY <1>1, <3>1, <3>2, <3>4, <3>5, <4>1 DEF Unneeded, Putting
    <3>7. DoomedAreStored'
      BY <1>1, <3>1, <3>3 DEF DoomedAreStored, Safe, RowsKeepPayloads, Readable
    <3> QED BY <3>1, <3>6, <3>7 DEF NotPutAgain
  <2>3. CASE CommitDeletes
    <3>1. ppc = "judged" /\ ppc' = "unlinking" /\ UNCHANGED <<live, doomed, risked>>
      BY <2>3 DEF CommitDeletes, collecting
    <3>2. Kept' = Kept /\ \A i \in Kept : digest'[i] = digest[i]
      BY <2>3, <3>1 DEF CommitDeletes, Kept, Rows, Base, TypeOK
    <3> QED BY <1>1, <3>1, <3>2
        DEF Safe, NotPutAgain, Unneeded, DoomedAreStored, Acting, Putting
  <2>4. CASE StartSweep
    <3>1. /\ ppc = "unlinking" /\ ppc' = "sweeping"
          /\ UNCHANGED <<digest, live, doomed, risked>>
      BY <2>4 DEF StartSweep, index, collecting
    <3>2. Kept' = Kept
      BY <3>1 DEF Kept, Rows
    <3> QED BY <1>1, <3>1, <3>2
        DEF Safe, NotPutAgain, Unneeded, DoomedAreStored, Acting, Putting
  <2> QED BY <2>1, <2>2, <2>3, <2>4
<1> QED BY <1>4, <1>5, <1>6, <1>7 DEF Safe

\* A file is removed that nothing needs.
LEMMA SafeRemove ==
    ASSUME Base, Safe, NEW d \in Digests, Remove(d), ppc \in Acting \ {"judged"},
           d \in risked \/ /\ \A i \in Kept : digest[i] # d
                           /\ \A c \in Collectors : Putting(c) => put[c] # d,
           doomed' \subseteq doomed \ {d},
           UNCHANGED <<digest, expired, pc, put, risked, ppc, expiring, live>>
    PROVE  Safe'
<1>1. /\ Kept = Rows /\ Kept' = Kept /\ Rows' = Rows
      /\ aged' = aged \ {d} /\ \A e \in Digests \ {d} : file'[e] = file[e]
  BY DEF Kept, Rows, Remove, Base, TypeOK, Acting
<1>2. \A e \in Digests \ {d} : Readable(e) => Readable(e)'
  BY <1>1 DEF Readable
<1>3. AgedIsOld' /\ NotPutAgain' /\ Unneeded'
  BY <1>1 DEF Safe, AgedIsOld, NotPutAgain, Unneeded, Putting
<1>4. PutsHold'
  <2>1. \A k \in Collectors : pc[k] # "idle" => put[k] \in Digests
    BY DEF Base, Shape
  <2> QED BY <1>1, <1>2, <2>1 DEF Safe, PutsHold, Putting
<1>5. RowsKeepPayloads'
  BY <1>1, <1>2 DEF Safe, RowsKeepPayloads, Rows, Base, TypeOK
<1>6. DoomedAreStored'
  BY <1>1 DEF Safe, DoomedAreStored, Base, TypeOK
<1> QED BY <1>3, <1>4, <1>5, <1>6 DEF Safe

LEMMA SafeNext == Base /\ Safe /\ [Next]_vars => Safe'
<1> SUFFICES ASSUME Base, Safe, [Next]_vars PROVE Safe'
  OBVIOUS
<1>1. ASSUME NEW d \in Digests, Unlink(d) PROVE Safe'
  <2>1. /\ ppc = "unlinking" /\ d \in doomed /\ Remove(d) /\ doomed' = doomed \ {d}
        /\ UNCHANGED <<digest, expired, pc, put, risked, ppc, expiring, live>>
    BY <1>1 DEF Unlink, index, collecting
  <2>2. d \in risked \/ /\ \A i \in Kept : digest[i] # d
                        /\ \A c \in Collectors : Putting(c) => put[c] # d
    BY <2>1 DEF Safe, DoomedAreStored, Unneeded, Acting
  <2> QED BY <2>1, <2>2, SafeRemove DEF Acting
<1>2. ASSUME NEW d \in Digests, Sweep(d), Sweepable(d) PROVE Safe'
  <2>1. /\ ppc = "sweeping" /\ d \in aged \ live /\ Remove(d) /\ doomed = {} /\ doomed' = doomed
        /\ UNCHANGED <<digest, expired, pc, put, risked, ppc, expiring, live>>
    BY <1>2 DEF Sweep, Sweepable, index, collecting, Base, Shape
  <2>2. d \in risked \/ /\ \A i \in Kept : digest[i] # d
                        /\ \A c \in Collectors : Putting(c) => put[c] # d
    BY <2>1 DEF Safe, Unneeded, Acting
  <2> QED BY <2>1, <2>2, SafeRemove DEF Acting
<1>3. ASSUME UNCHANGED <<digest, expired, file, aged, pc, put, risked, ppc, expiring,
                         live, doomed>>
      PROVE  Safe'
  BY <1>3 DEF Safe, AgedIsOld, PutsHold, NotPutAgain, Unneeded, DoomedAreStored,
              RowsKeepPayloads, Rows, Kept, Putting, Readable
<1>4. ASSUME NEW d \in Digests, Sweep(d), ~Sweepable(d) PROVE Safe'
  BY <1>3, <1>4 DEF Sweep, index, store, collecting
<1>5. CASE UNCHANGED vars
  BY <1>3, <1>5 DEF vars, index, store, collecting, pruning
<1> QED
  BY <1>1, <1>2, <1>4, <1>5, SafeInTime, SafeOpen, SafeWrite, SafeRecord, SafeLeave, SafePrune
  DEF Next, Pruning, Collecting

\* Every row keeps its payload, for any number of rows, digests, collectors and
\* crashes, unless the payload was put again in one of the windows left open.
THEOREM RowsKeepPayloadsForAny == Spec => []RowsKeepPayloads
<1>1. Spec => [](Base /\ Safe)
  BY BaseInit, BaseNext, SafeInit, SafeNext, PTL DEF Spec
<1>2. Safe => RowsKeepPayloads
  BY DEF Safe
<1> QED BY <1>1, <1>2, PTL
=============================================================================
