--------------------------- MODULE TransferProofs ---------------------------
(***************************************************************************)
(* Theorems of Transfer, for any number of transfers at once, any rows,    *)
(* any size of a batch and any number of crashes.                          *)
(***************************************************************************)
EXTENDS Transfer, FiniteSetTheorems, TLAPS

LEMMA TablesAre == Tables[1] = Artifacts /\ Tables[2] = Jobs /\ Len(Tables) = 2
BY DEF Tables

LEMMA BatchesAreLeft == ASSUME NEW r \in Runs, NEW b \in Batches(r) PROVE b \subseteq left[r]
BY DEF Batches

LEMMA NotPruningIsTyped ==
    NotPruning \in [on : BOOLEAN, live : SUBSET Artifacts, expiring : SUBSET Artifacts,
                    found : SUBSET Artifacts, early : BOOLEAN, late : SUBSET Late]
BY DEF NotPruning

LEMMA TypedInit == Init => TypeOK
<1> SUFFICES ASSUME Init PROVE TypeOK
  OBVIOUS
<1>1. faults \in 0..MaxFaults
  BY ConstantsOK DEF Init
<1>2. /\ values \in [Runs -> SUBSET Rows] /\ left \in [Runs -> SUBSET Rows]
      /\ pc \in [Runs -> {"off", "read", "write", "done", "failed"}]
      /\ table \in [Runs -> {1, 2}]
  BY DEF Init
<1>3. source \subseteq Rows /\ payload \subseteq Artifacts /\ target \subseteq Rows
  BY DEF Init, Rows
<1> QED BY <1>1, <1>2, <1>3, NotPruningIsTyped DEF Init, TypeOK

\* The end of a transfer is its own.
LEMMA EndIsOwn ==
    ASSUME TypeOK, NEW r \in Runs, NEW how \in {"done", "failed"}, Ends(r, how)
    PROVE  /\ pc'[r] = how /\ table'[r] = 1 /\ undercut' = undercut \ {r}
           /\ \A q \in Runs \ {r} : /\ pc'[q] = pc[q] /\ table'[q] = table[q]
                                    /\ values'[q] = values[q] /\ left'[q] = left[q]
           /\ pc' \in [Runs -> {"off", "read", "write", "done", "failed"}]
           /\ table' \in [Runs -> {1, 2}]
           /\ values' \in [Runs -> SUBSET Rows] /\ left' \in [Runs -> SUBSET Rows]
BY DEF Ends, TypeOK

\* How a recount can go.
LEMMA RecountGoes ==
    ASSUME TypeOK, NEW r \in Runs, Recount(r)
    PROVE  \/ Ends(r, "failed") /\ moved' = moved
           \/ /\ table[r] = 1 /\ table' = [table EXCEPT ![r] = 2]
              /\ pc' = [pc EXCEPT ![r] = "read"]
              /\ UNCHANGED <<values, left, undercut, moved>>
           \/ /\ table[r] = 2 /\ Ends(r, "done")
              /\ moved' = (moved \/ r \notin undercut)
<1>1. table[r] \in {1, 2} /\ Len(Tables) = 2
  BY TablesAre DEF TypeOK
<1>2. CASE table[r] = 1
  BY <1>1, <1>2 DEF Recount, Raises
<1>3. CASE table[r] = 2
  BY <1>1, <1>3 DEF Recount, Raises
<1> QED BY <1>1, <1>2, <1>3

\* How the write of a batch can go.
LEMMA BatchGoes ==
    ASSUME TypeOK, NEW r \in Runs, WriteBatch(r)
    PROVE  /\ UNCHANGED <<source, payload, schema, late, moved, pruning, faults>>
           /\ \/ \E b \in Batches(r) :
                    /\ target' = target \cup b /\ left' = [left EXCEPT ![r] = @ \ b]
                    /\ UNCHANGED <<pc, table, values, undercut>>
              \/ Ends(r, "failed") /\ target' = target
BY DEF WriteBatch, Raises

LEMMA TypedNext == TypeOK /\ [Next]_vars => TypeOK'
<1> SUFFICES ASSUME TypeOK, [Next]_vars PROVE TypeOK'
  OBVIOUS
<1> USE ConstantsOK DEF TypeOK, databases, locals, copying, pruning, Rows
<1>1. ASSUME NEW d \in Databases, Migrate(d) PROVE TypeOK'
  BY <1>1 DEF Migrate, Databases
<1>2. ASSUME NEW a \in Late, RecordAtSource(a) \/ RecordAtTarget(a) PROVE TypeOK'
  BY <1>2 DEF RecordAtSource, RecordAtTarget, Recorded
<1>3. CASE EmptyTarget
  <2>1. pc' \in [Runs -> {"off", "read", "write", "done", "failed"}]
    BY <1>3 DEF EmptyTarget
  <2>2. faults' \in 0..MaxFaults
    BY <1>3 DEF EmptyTarget
  <2>3. undercut' \subseteq Runs /\ moved' \in BOOLEAN
    BY <1>3 DEF EmptyTarget, Active
  <2> QED BY <1>3, <2>1, <2>2, <2>3 DEF EmptyTarget
<1>4. ASSUME NEW r \in Runs, Begin(r) PROVE TypeOK'
  BY <1>4 DEF Begin
<1>5. ASSUME NEW r \in Runs, ReadTable(r) PROVE TypeOK'
  BY <1>5 DEF ReadTable, Selected
<1>6. ASSUME NEW r \in Runs, WriteBatch(r) PROVE TypeOK'
  <2>1. ASSUME NEW b \in Batches(r), target' = target \cup b,
               left' = [left EXCEPT ![r] = @ \ b], UNCHANGED <<pc, table, values, undercut>>
        PROVE  TypeOK'
    BY <1>6, <2>1, BatchesAreLeft, BatchGoes
  <2>2. CASE Ends(r, "failed") /\ target' = target
    BY <1>6, <2>2, EndIsOwn, BatchGoes
  <2> QED BY <1>6, <2>1, <2>2, BatchGoes
<1>7. ASSUME NEW r \in Runs, Recount(r) PROVE TypeOK'
  <2>0. TypeOK /\ UNCHANGED <<databases, pruning, faults>>
    BY <1>7 DEF Recount
  <2>1. CASE Ends(r, "failed") /\ moved' = moved
    BY <2>0, <2>1, EndIsOwn
  <2>2. CASE /\ table' = [table EXCEPT ![r] = 2]
             /\ pc' = [pc EXCEPT ![r] = "read"]
             /\ UNCHANGED <<values, left, undercut, moved>>
    BY <2>0, <2>2
  <2>3. CASE Ends(r, "done") /\ moved' = (moved \/ r \notin undercut)
    BY <2>0, <2>3, EndIsOwn
  <2> QED BY <1>7, <2>1, <2>2, <2>3, RecountGoes
<1>8. ASSUME NEW r \in Runs, Fail(r) PROVE TypeOK'
  <2>1. Ends(r, "failed") /\ UNCHANGED <<databases, moved, pruning>> /\ faults' \in 0..MaxFaults
    BY <1>8 DEF Fail, Raises
  <2> QED BY <2>1, EndIsOwn
<1>9. CASE Judge
  BY <1>9 DEF Judge, Index
<1>10. CASE DeleteRows \/ Sweep \/ CrashPrune
  BY <1>10, NotPruningIsTyped DEF DeleteRows, Sweep, CrashPrune
<1>11. CASE UNCHANGED vars
  BY <1>11 DEF vars
<1> QED
  BY <1>1, <1>2, <1>3, <1>4, <1>5, <1>6, <1>7, <1>8, <1>9, <1>10, <1>11
  DEF Next, Transferring

-----------------------------------------------------------------------------

\* Of the rows in s, those a transfer has to bring are in the target.
Brought(s) == s \ (late \cup pruned) \subseteq target

\* A transfer that has reached its second table has brought the first, unless the
\* target was emptied under it.
FirstTableIsBrought ==
    \A r \in Runs \ undercut :
        pc[r] \in {"read", "write"} /\ table[r] = 2 => Brought(source \cap Artifacts)

\* What it has read of a table is all of it, and what it no longer has to write
\* has arrived.
ReadIsWritten ==
    \A r \in Runs \ undercut : pc[r] = "write" =>
        /\ (source \cap Tables[table[r]]) \ late \subseteq values[r]
        /\ values[r] \ left[r] \subseteq target \cup pruned

\* A transfer begins at the first table.
IdleIsAtTheFirst == \A r \in Runs : pc[r] \notin {"read", "write"} => table[r] = 1

Whole ==
    TypeOK /\ SuccessIsWhole /\ FirstTableIsBrought /\ ReadIsWritten /\ IdleIsAtTheFirst

LEMMA WholeInit == Init => Whole
BY TypedInit DEF Init, Whole, SuccessIsWhole, FirstTableIsBrought, ReadIsWritten, IdleIsAtTheFirst

\* One that ends takes nothing of the others with it.
LEMMA WholeEnd ==
    ASSUME Whole, TypeOK', NEW r \in Runs, NEW how \in {"done", "failed"}, Ends(r, how),
           UNCHANGED <<source, target, late, pruned>>, SuccessIsWhole'
    PROVE  Whole'
<1>1. /\ pc'[r] = how /\ table'[r] = 1 /\ undercut' = undercut \ {r}
      /\ \A q \in Runs \ {r} : /\ pc'[q] = pc[q] /\ table'[q] = table[q]
                               /\ values'[q] = values[q] /\ left'[q] = left[q]
  BY EndIsOwn DEF Whole
<1>2. pc'[r] \notin {"read", "write"}
  BY <1>1
<1> QED
  BY <1>1, <1>2 DEF Whole, FirstTableIsBrought, ReadIsWritten, IdleIsAtTheFirst, Brought

LEMMA WholeNext == Whole /\ [Next]_vars => Whole'
<1> SUFFICES ASSUME Whole, [Next]_vars PROVE Whole'
  OBVIOUS
<1>0. TypeOK /\ TypeOK'
  BY TypedNext DEF Whole
<1> USE DEF Whole, SuccessIsWhole, FirstTableIsBrought, ReadIsWritten, IdleIsAtTheFirst, Brought
<1>1. ASSUME NEW d \in Databases, Migrate(d) PROVE Whole'
  BY <1>0, <1>1 DEF Migrate, locals, copying, pruning
<1>2. ASSUME NEW a \in Late, RecordAtSource(a) \/ RecordAtTarget(a) PROVE Whole'
  BY <1>0, <1>2 DEF RecordAtSource, RecordAtTarget, Recorded, locals, copying, pruning
<1>3. CASE EmptyTarget
  <2>1. /\ ~moved' /\ table' = table /\ undercut' = undercut \cup Active
        /\ pc' = [r \in Runs |-> IF pc[r] = "failed" THEN "off" ELSE pc[r]]
    BY <1>3 DEF EmptyTarget
  <2>2. \A r \in Runs : pc'[r] = IF pc[r] = "failed" THEN "off" ELSE pc[r]
    BY <2>1
  <2>3. \A r \in Runs : pc'[r] \in {"read", "write"} => r \in undercut'
    BY <2>1, <2>2 DEF Active
  <2>4. IdleIsAtTheFirst'
    BY <2>1, <2>2
  <2> QED BY <1>0, <2>1, <2>3, <2>4
<1>4. ASSUME NEW r \in Runs, Begin(r) PROVE Whole'
  <2>1. pc'[r] = "read" /\ pc[r] \notin {"read", "write"}
    BY <1>0, <1>4 DEF Begin, TypeOK, Active
  <2>2. /\ source' = source /\ target' = target /\ pruned' = pruned /\ moved' = moved
        /\ values' = values /\ left' = left /\ table' = table /\ undercut' = undercut
        /\ \A q \in Runs \ {r} : pc'[q] = pc[q]
    BY <1>0, <1>4 DEF Begin, TypeOK, pruning
  <2>3. CASE Active = {} /\ ~moved
    <3>1. \A q \in Runs \ {r} : pc'[q] \notin {"read", "write"}
      BY <2>2, <2>3 DEF Active
    <3> QED BY <1>0, <2>1, <2>2, <2>3, <3>1
  <2>4. CASE ~(Active = {} /\ ~moved)
    <3>1. late' = late
      BY <1>4, <2>4 DEF Begin
    <3> QED BY <1>0, <2>1, <2>2, <3>1
  <2> QED BY <2>3, <2>4
<1>5. ASSUME NEW r \in Runs, ReadTable(r) PROVE Whole'
  <2>1. /\ UNCHANGED <<source, target, late, pruned, moved, table, undercut>>
        /\ values'[r] = source \cap Tables[table[r]] /\ left'[r] = values'[r]
        /\ pc[r] = "read" /\ pc'[r] = "write"
        /\ \A q \in Runs \ {r} : pc'[q] = pc[q] /\ values'[q] = values[q] /\ left'[q] = left[q]
    BY <1>0, <1>5 DEF ReadTable, Selected, TypeOK, databases, pruning
  <2> QED BY <1>0, <2>1
<1>6. ASSUME NEW r \in Runs, WriteBatch(r) PROVE Whole'
  <2>1. UNCHANGED <<source, late, pruned, moved>>
    BY <1>0, <1>6, BatchGoes DEF pruning
  <2>2. ASSUME NEW b \in Batches(r), target' = target \cup b,
               left' = [left EXCEPT ![r] = @ \ b], UNCHANGED <<pc, table, values, undercut>>
        PROVE  Whole'
    <3>1. left'[r] = left[r] \ b /\ \A q \in Runs \ {r} : left'[q] = left[q]
      BY <1>0, <2>2 DEF TypeOK
    <3> QED BY <1>0, <2>1, <2>2, <3>1
  <2>3. CASE Ends(r, "failed") /\ target' = target
    BY <1>0, <2>1, <2>3, WholeEnd
  <2> QED BY <1>0, <1>6, <2>2, <2>3, BatchGoes
<1>7. ASSUME NEW r \in Runs, Recount(r) PROVE Whole'
  <2>1. /\ UNCHANGED <<source, target, late, pruned>>
        /\ pc[r] = "write" /\ left[r] = {}
    BY <1>7 DEF Recount, databases, pruning
  <2>2. r \notin undercut => Brought(source \cap Tables[table[r]])
    BY <2>1
  <2>3. CASE Ends(r, "failed") /\ moved' = moved
    BY <1>0, <2>1, <2>3, WholeEnd
  <2>4. CASE /\ table[r] = 1 /\ table' = [table EXCEPT ![r] = 2]
             /\ pc' = [pc EXCEPT ![r] = "read"]
             /\ UNCHANGED <<values, left, undercut, moved>>
    <3>1. /\ table'[r] = 2 /\ pc'[r] = "read"
          /\ \A q \in Runs \ {r} : table'[q] = table[q] /\ pc'[q] = pc[q]
      BY <1>0, <2>4 DEF TypeOK
    <3>2. r \notin undercut => Brought(source \cap Artifacts)
      BY <2>2, <2>4, TablesAre
    <3> QED BY <1>0, <2>1, <2>4, <3>1, <3>2
  <2>5. CASE /\ table[r] = 2 /\ Ends(r, "done")
             /\ moved' = (moved \/ r \notin undercut)
    <3>1. r \notin undercut => Brought(source \cap Artifacts) /\ Brought(source \cap Jobs)
      BY <2>1, <2>2, <2>5, TablesAre
    <3>2. source \subseteq Artifacts \cup Jobs
      BY <1>0 DEF TypeOK, Rows
    <3>3. SuccessIsWhole'
      BY <2>1, <2>5, <3>1, <3>2
    <3> QED BY <1>0, <2>1, <2>5, <3>3, WholeEnd
  <2> QED
    BY <1>0, <1>7, <2>3, <2>4, <2>5, RecountGoes
<1>8. ASSUME NEW r \in Runs, Fail(r) PROVE Whole'
  <2>1. Ends(r, "failed") /\ UNCHANGED <<source, target, late, pruned, moved>>
    BY <1>8 DEF Fail, Raises, databases, pruning
  <2> QED BY <1>0, <2>1, WholeEnd
<1>9. CASE Judge \/ Sweep \/ CrashPrune
  BY <1>0, <1>9 DEF Judge, Sweep, CrashPrune, databases, locals, copying
<1>10. CASE DeleteRows
  BY <1>0, <1>10 DEF DeleteRows, locals, copying
<1>11. CASE UNCHANGED vars
  BY <1>0, <1>11 DEF vars, databases, locals, copying, pruning
<1> QED
  BY <1>1, <1>2, <1>3, <1>4, <1>5, <1>6, <1>7, <1>8, <1>9, <1>10, <1>11
  DEF Next, Transferring

\* A transfer that returned has brought every row of a quiet source that prune has
\* not removed since, with any number of transfers, workers and crashes beside it,
\* unless the target was emptied while it ran.
THEOREM SuccessIsWholeForAny == Spec => []SuccessIsWhole
<1>1. Spec => []Whole
  BY WholeInit, WholeNext, PTL DEF Spec
<1>2. Whole => SuccessIsWhole
  BY DEF Whole
<1> QED BY <1>1, <1>2, PTL

\* Every reachable state of the two databases and their transfers is well typed.
THEOREM Typing == Spec => []TypeOK
BY TypedInit, TypedNext, PTL DEF Spec

-----------------------------------------------------------------------------
(* What a prune of the target takes *)

\* Among rows that have not aged out, what prune is about to sweep.
Doomed == (prune.found \ prune.live) \ Old

\* A prune under way sweeps less than it keeps, and one that judged after a
\* transfer had returned sweeps nothing that the transfer had to bring.
JudgedInProportion == prune.on /\ Doomed # {} => Cardinality(Doomed) < Cardinality(prune.live)
JudgedAfterTheMove == prune.on /\ ~prune.early => Doomed \cap source \subseteq prune.late
OnlyOldIsPruned == pruned \subseteq Old /\ prune.expiring \subseteq Old

\* What it found is still there.
FoundIsKept == prune.on => prune.found \subseteq payload

Judged ==
    Whole /\ JudgedInProportion /\ JudgedAfterTheMove /\ OnlyOldIsPruned /\ FoundIsKept

LEMMA MaxOfOne ==
    ASSUME NEW m \in Nat, NEW n \in Nat, n # 0, ~(n >= Max({m, 1}))
    PROVE  n < m
<1>1. PICK k \in {m, 1} : \A j \in {m, 1} : k >= j
  <2>1. CASE m >= 1
    BY <2>1
  <2>2. CASE ~(m >= 1)
    BY <2>2
  <2> QED BY <2>1, <2>2
<1>2. Max({m, 1}) \in {m, 1} /\ \A j \in {m, 1} : Max({m, 1}) >= j
  BY <1>1 DEF Max
<1>3. CASE Max({m, 1}) = m
  BY <1>3
<1>4. CASE Max({m, 1}) = 1
  BY <1>4
<1> QED BY <1>2, <1>3, <1>4

LEMMA JudgeIsProportionate ==
    ASSUME TypeOK, Judge
    PROVE  /\ Doomed' = Orphans \ Old
           /\ Doomed' # {} => Cardinality(Doomed') < Cardinality(prune'.live)
<1> DEFINE live == Index \ Old
<1>1. Doomed' = Orphans \ Old /\ prune'.live = live
  BY DEF Judge, Doomed, Orphans
<1>2. IsFiniteSet(Orphans) /\ IsFiniteSet(live)
  <2>1. IsFiniteSet(Artifacts \cup Jobs)
    BY ConstantsOK
  <2>2. Orphans \subseteq Artifacts \cup Jobs /\ live \subseteq Artifacts \cup Jobs
    BY DEF Orphans, Index, TypeOK
  <2> QED BY <2>1, <2>2, FS_Subset
<1>3. /\ Cardinality(Orphans) \in Nat /\ Cardinality(live) \in Nat
      /\ Cardinality(Orphans \ Old) \in Nat
      /\ Cardinality(Orphans \ Old) <= Cardinality(Orphans)
  BY <1>2, FS_CardinalityType, FS_Subset
<1>4. ASSUME Doomed' # {} PROVE Cardinality(Orphans) < Cardinality(live)
  <2>1. Orphans # {}
    BY <1>1, <1>4
  <2>2. Cardinality(Orphans) # 0
    BY <1>2, <2>1, FS_EmptySet
  <2>3. ~(Cardinality(Orphans) >= Max({Cardinality(live), 1}))
    BY <2>1 DEF Judge, Disproportionate
  <2> HIDE DEF live
  <2> QED BY <1>3, <2>2, <2>3, MaxOfOne
<1> HIDE DEF live
<1> QED BY <1>1, <1>3, <1>4

LEMMA JudgedInit == Init => Judged
BY WholeInit DEF Init, Judged, JudgedInProportion, JudgedAfterTheMove, OnlyOldIsPruned,
   FoundIsKept, NotPruning

\* What only steps of prune change.
LEMMA PruneAside ==
    ASSUME Judged, prune' = prune, pruned' \subseteq pruned, payload \subseteq payload',
           source' \cap payload \subseteq source
    PROVE  JudgedInProportion' /\ JudgedAfterTheMove' /\ OnlyOldIsPruned' /\ FoundIsKept'
<1>1. Doomed' = Doomed /\ Doomed \subseteq prune.found
  BY DEF Doomed
<1>2. JudgedInProportion' /\ OnlyOldIsPruned' /\ FoundIsKept'
  BY <1>1 DEF Judged, JudgedInProportion, OnlyOldIsPruned, FoundIsKept
<1>3. JudgedAfterTheMove'
  BY <1>1 DEF Judged, JudgedAfterTheMove, FoundIsKept
<1> QED BY <1>2, <1>3

LEMMA JudgedNext == Judged /\ [Next]_vars => Judged'
<1> SUFFICES ASSUME Judged, [Next]_vars PROVE Judged'
  OBVIOUS
<1> DEFINE Kept == JudgedInProportion' /\ JudgedAfterTheMove' /\ OnlyOldIsPruned' /\ FoundIsKept'
<1>0. TypeOK /\ Whole /\ Whole'
  BY WholeNext DEF Judged, Whole
<1>a. SUFFICES Kept
  BY <1>0 DEF Judged
<1>1. ASSUME NEW d \in Databases, Migrate(d) PROVE Kept
  BY <1>1, PruneAside DEF Migrate, pruning
<1>2. ASSUME NEW a \in Late, RecordAtSource(a) \/ RecordAtTarget(a) PROVE Kept
  <2>1. /\ UNCHANGED pruning /\ payload \subseteq payload' /\ a \notin payload
        /\ source' \subseteq source \cup {a}
    BY <1>2 DEF RecordAtSource, RecordAtTarget, Recorded
  <2> QED BY <2>1, PruneAside DEF pruning
<1>3. CASE EmptyTarget
  <2>1. prune' = prune /\ pruned' = {} /\ payload' = payload /\ source' = source
    BY <1>3 DEF EmptyTarget
  <2> QED BY <2>1, PruneAside
<1>4. ASSUME NEW r \in Runs, Begin(r) PROVE Kept
  <2>1. UNCHANGED <<pruning, payload, source>>
    BY <1>4 DEF Begin, databases
  <2> QED BY <2>1, PruneAside DEF pruning
<1>5. ASSUME NEW r \in Runs, Transferring(r) \/ Fail(r) PROVE Kept
  <2>1. UNCHANGED <<pruning, payload, source>>
    BY <1>5 DEF Transferring, ReadTable, WriteBatch, Recount, Fail, databases
  <2> QED BY <2>1, PruneAside DEF pruning
<1>6. CASE Judge
  <2>1. /\ Doomed' = Orphans \ Old
        /\ Doomed' # {} => Cardinality(Doomed') < Cardinality(prune'.live)
    BY <1>0, <1>6, JudgeIsProportionate
  <2>2. /\ prune'.early = ~moved /\ prune'.expiring = Index \cap Old /\ prune'.late = late
        /\ prune'.found = payload /\ payload' = payload
        /\ source' = source /\ pruned' = pruned
    BY <1>6 DEF Judge, databases
  <2>3. moved => (Orphans \ Old) \cap source \subseteq late
    BY <1>0 DEF Whole, SuccessIsWhole, Judged, OnlyOldIsPruned, Orphans, Index, TypeOK
  <2> QED BY <2>1, <2>2, <2>3
    DEF Judged, JudgedInProportion, JudgedAfterTheMove, OnlyOldIsPruned, FoundIsKept
<1>7. CASE DeleteRows
  <2>1. /\ prune'.on = prune.on /\ prune'.live = prune.live /\ prune'.found = prune.found
        /\ prune'.early = prune.early /\ prune'.expiring = {} /\ prune'.late = prune.late
        /\ pruned' \subseteq pruned \cup prune.expiring
        /\ source' = source /\ payload' = payload
    BY <1>0, <1>7 DEF DeleteRows, TypeOK
  <2>2. Doomed' = Doomed
    BY <2>1 DEF Doomed
  <2> QED BY <2>1, <2>2
    DEF Judged, JudgedInProportion, JudgedAfterTheMove, OnlyOldIsPruned, FoundIsKept
<1>8. CASE Sweep \/ CrashPrune
  <2>1. ~prune'.on /\ prune'.expiring = {} /\ pruned' = pruned
    BY <1>8 DEF Sweep, CrashPrune, NotPruning
  <2> QED BY <2>1
    DEF Judged, JudgedInProportion, JudgedAfterTheMove, OnlyOldIsPruned, FoundIsKept
<1>9. CASE UNCHANGED vars
  BY <1>9, PruneAside DEF vars, databases, pruning
<1> QED
  BY <1>1, <1>2, <1>3, <1>4, <1>5, <1>6, <1>7, <1>8, <1>9 DEF Next

\* What is gone in a sweep is what had been doomed, and no other step takes a payload.
LEMMA SweepSpares ==
    ASSUME Judged, [Next]_vars
    PROVE  LET gone == ((payload \ payload') \cap source) \ Old
           IN \/ prune.early /\ (gone # {} => Cardinality(gone) < Cardinality(prune.live))
              \/ gone \subseteq prune.late
<1> DEFINE gone == ((payload \ payload') \cap source) \ Old
<1>1. CASE Sweep
  <2>1. prune.on /\ gone \subseteq Doomed \cap source
    BY <1>1 DEF Sweep, Doomed
  <2>2. CASE ~prune.early
    BY <2>1, <2>2 DEF Judged, JudgedAfterTheMove
  <2>3. CASE prune.early
    <3>1. IsFiniteSet(Doomed) /\ IsFiniteSet(prune.live)
      <4>1. Doomed \subseteq Artifacts \cup Jobs /\ prune.live \subseteq Artifacts \cup Jobs
        BY DEF Judged, Whole, TypeOK, Doomed
      <4> QED BY <4>1, ConstantsOK, FS_Subset
    <3>2. /\ Cardinality(gone) <= Cardinality(Doomed)
          /\ Cardinality(gone) \in Nat /\ Cardinality(Doomed) \in Nat
          /\ Cardinality(prune.live) \in Nat
      <4>1. gone \subseteq Doomed
        BY <2>1
      <4> HIDE DEF gone
      <4> QED BY <3>1, <4>1, FS_Subset, FS_CardinalityType
    <3>3. gone # {} => Cardinality(Doomed) < Cardinality(prune.live)
      <4> HIDE DEF gone
      <4> QED BY <2>1 DEF Judged, JudgedInProportion
    <3> HIDE DEF gone
    <3>4. gone # {} => Cardinality(gone) < Cardinality(prune.live)
      BY <3>2, <3>3
    <3> QED BY <2>3, <3>4 DEF gone
  <2> QED BY <2>2, <2>3
<1>2. CASE ~Sweep
  <2>1. payload \subseteq payload'
    BY <1>2 DEF Next, vars, databases, Migrate, RecordAtSource, RecordAtTarget, Recorded,
       EmptyTarget, Begin, Transferring, ReadTable, WriteBatch, Recount, Fail, Judge,
       DeleteRows, CrashPrune
  <2> QED BY <2>1
<1> QED BY <1>1, <1>2

\* A prune that judged after a transfer had returned takes the payload of no row that
\* the transfer had to bring and that has not aged out, and one that judged earlier
\* takes fewer such payloads than it keeps: with any number of rows and transfers,
\* and whatever they do between its judgement and its sweep.
THEOREM SweepSparesTheMovedOfAny == Spec => SweepSparesTheMoved
<1>1. Judged /\ [Next]_vars =>
        [LET gone == ((payload \ payload') \cap source) \ Old
         IN \/ prune.early /\ (gone # {} => Cardinality(gone) < Cardinality(prune.live))
            \/ gone \subseteq prune.late]_vars
  BY SweepSpares
<1> QED BY <1>1, JudgedInit, JudgedNext, PTL DEF Spec, SweepSparesTheMoved
=============================================================================
