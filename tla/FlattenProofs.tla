---------------------------- MODULE FlattenProofs ----------------------------
(***************************************************************************)
(* Theorems of Flatten, for any number of artifacts, comments and passes,  *)
(* any lag and any batch size: the cursor passes nothing by, the comments  *)
(* follow the newest harvest and bundles are unpacked whole.               *)
(***************************************************************************)
EXTENDS Flatten, FiniteSetTheorems, TLAPS

-----------------------------------------------------------------------------
(* Finite orders *)

\* A strict order leaves some element of a finite set with nothing above it.
LEMMA MaximalExists ==
    ASSUME NEW S, IsFiniteSet(S), S # {}, NEW R,
           \A i \in S : <<i, i>> \notin R,
           \A i, j, k \in S : <<i, j>> \in R /\ <<j, k>> \in R => <<i, k>> \in R
    PROVE  \E i \in S : \A j \in S : <<i, j>> \notin R
<1> DEFINE above(i) == {j \in S : <<i, j>> \in R}
           T == {above(i) : i \in S}
<1>1. IsWellFoundedOn(StrictSubsetOrdering(S), SUBSET S)
  BY FS_StrictSubsetOrderingWellFounded, FS_FiniteSubsetsOfFinite
<1>2. T \subseteq SUBSET S /\ T # {}
  <2>1. PICK i \in S : TRUE
    OBVIOUS
  <2>2. above(i) \in T
    BY <2>1
  <2>3. \A k \in S : above(k) \in SUBSET S
    OBVIOUS
  <2> HIDE DEF above
  <2> QED BY <2>2, <2>3
<1> HIDE DEF T
<1>3. PICK x \in T : \A y \in T : ~(<<y, x>> \in StrictSubsetOrdering(S))
  BY <1>1, <1>2, WFMin
<1>4. PICK i \in S : x = above(i)
  BY DEF T
<1> SUFFICES ASSUME NEW j \in S, <<i, j>> \in R PROVE FALSE
  OBVIOUS
<1>5. above(j) \subseteq above(i) /\ j \in above(i) /\ j \notin above(j)
  OBVIOUS
<1>6. above(j) \in T
  BY DEF T
<1>7. <<above(j), x>> \in StrictSubsetOrdering(S)
  BY <1>4, <1>5 DEF StrictSubsetOrdering
<1> QED
  BY <1>3, <1>6, <1>7

-----------------------------------------------------------------------------
(* The order of the cursor *)

\* Keys are compared as pairs: a strict total order of the artifacts.
LEMMA BeforeIsOrder ==
    ASSUME TypeOK
    PROVE  /\ \A i \in Ids : Key(i) \in Keys /\ ~Before(Key(i), Key(i))
           /\ \A i, j \in Ids : i # j => Before(Key(i), Key(j)) \/ Before(Key(j), Key(i))
           /\ \A k, l, m \in Keys : Before(k, l) /\ Before(l, m) => Before(k, m)
           /\ \A k, l, m \in Keys : ~Before(k, l) /\ ~Before(l, m) => ~Before(k, m)
           /\ \A k, l \in Keys : Before(k, l) => ~Before(l, k)
<1>1. \A i \in Ids : i \in Nat /\ fetched[i] \in Nat
  BY ConstantsOK DEF TypeOK
<1>2. \A i \in Ids : Key(i) \in Keys /\ ~Before(Key(i), Key(i))
  BY <1>1 DEF Keys, Key, Before
<1>3. \A i, j \in Ids : i # j => Before(Key(i), Key(j)) \/ Before(Key(j), Key(i))
  <2>1. \A i \in Ids : Key(i).at = fetched[i] /\ Key(i).id = i
    BY DEF Key
  <2> QED BY <1>1, <2>1 DEF Before
<1>4. \A k \in Keys : k.at \in Nat /\ k.id \in Nat
  <2>1. Ids \cup {0} \subseteq Nat
    BY ConstantsOK
  <2> QED BY <2>1 DEF Keys
<1>5. \A k, l, m \in Keys :
        /\ Before(k, l) /\ Before(l, m) => Before(k, m)
        /\ ~Before(k, l) /\ ~Before(l, m) => ~Before(k, m)
        /\ Before(k, l) => ~Before(l, k)
  BY <1>4 DEF Before
<1> QED
  BY <1>2, <1>3, <1>5

\* Nothing precedes the start but itself.
LEMMA StartIsFirst ==
    ASSUME TypeOK PROVE Start \in Keys /\ \A i \in Ids : Before(Start, Key(i))
BY ConstantsOK DEF TypeOK, Keys, Key, Before, Start

\* The last artifact of a batch is one of it, and no other is after it.
LEMMA LastOfIsLast ==
    ASSUME TypeOK, NEW S \in SUBSET Ids, S # {}
    PROVE  LastOf(S) \in S /\ \A j \in S : ~Before(Key(LastOf(S)), Key(j))
<1> DEFINE R == {e \in S \X S : Before(Key(e[1]), Key(e[2]))}
<1>1. IsFiniteSet(S)
  BY ConstantsOK, FS_Subset
<1>2. \A i, j \in S : <<i, j>> \in R <=> Before(Key(i), Key(j))
  OBVIOUS
<1> HIDE DEF R
<1>3. \E i \in S : \A j \in S : <<i, j>> \notin R
  <2>1. \A i \in S : <<i, i>> \notin R
    BY <1>2, BeforeIsOrder
  <2>2. \A i, j, k \in S : <<i, j>> \in R /\ <<j, k>> \in R => <<i, k>> \in R
    BY <1>2, BeforeIsOrder
  <2> QED BY <1>1, <2>1, <2>2, MaximalExists
<1>4. \E i \in S : \A j \in S : ~Before(Key(i), Key(j))
  BY <1>2, <1>3
<1> QED
  BY <1>4 DEF LastOf

\* Likewise the harvest that inserts a comment, and the newest one.
LEMMA EarliestIsOne ==
    ASSUME TypeOK, NEW H \in SUBSET Ids, H # {}
    PROVE  Earliest(H) \in H
<1> DEFINE R == {e \in H \X H : Before(Key(e[2]), Key(e[1]))}
<1>1. IsFiniteSet(H)
  BY ConstantsOK, FS_Subset
<1>2. \A i, j \in H : <<i, j>> \in R <=> Before(Key(j), Key(i))
  OBVIOUS
<1> HIDE DEF R
<1>3. \E i \in H : \A j \in H : <<i, j>> \notin R
  <2>1. \A i \in H : <<i, i>> \notin R
    BY <1>2, BeforeIsOrder
  <2>2. \A i, j, k \in H : <<i, j>> \in R /\ <<j, k>> \in R => <<i, k>> \in R
    BY <1>2, BeforeIsOrder
  <2> QED BY <1>1, <2>1, <2>2, MaximalExists
<1>4. \E i \in H : \A j \in H : ~Before(Key(j), Key(i))
  BY <1>2, <1>3
<1> QED
  BY <1>4 DEF Earliest

LEMMA NewestIsNewest ==
    ASSUME TypeOK, NEW H \in SUBSET Ids, H # {}
    PROVE  Newest(H) \in H /\ \A j \in H : fetched[j] <= fetched[Newest(H)]
<1> DEFINE worse(i, j) == fetched[i] < fetched[j] \/ (fetched[i] = fetched[j] /\ j < i)
           R == {e \in H \X H : worse(e[1], e[2])}
<1>1. IsFiniteSet(H)
  BY ConstantsOK, FS_Subset
<1>2. \A i, j \in H : <<i, j>> \in R <=> worse(i, j)
  OBVIOUS
<1>3. \A i \in H : i \in Nat /\ fetched[i] \in Nat
  BY ConstantsOK DEF TypeOK
<1>4. \A i \in H : ~worse(i, i)
  BY <1>3
<1>5. \A i, j, k \in H : worse(i, j) /\ worse(j, k) => worse(i, k)
  BY <1>3
<1>6. \A i, j \in H : ~worse(i, j) =>
        /\ fetched[j] < fetched[i] \/ (fetched[j] = fetched[i] /\ i <= j)
        /\ fetched[j] <= fetched[i]
  BY <1>3
<1> HIDE DEF R, worse
<1>7. \E i \in H : \A j \in H : <<i, j>> \notin R
  BY <1>1, <1>2, <1>4, <1>5, MaximalExists
<1>8. \E i \in H : \A j \in H :
        fetched[j] < fetched[i] \/ (fetched[j] = fetched[i] /\ i <= j)
  BY <1>2, <1>6, <1>7
<1>9. /\ Newest(H) \in H
      /\ \A j \in H : \/ fetched[j] < fetched[Newest(H)]
                      \/ fetched[j] = fetched[Newest(H)] /\ Newest(H) <= j
  BY <1>8 DEF Newest
<1> QED
  BY <1>3, <1>9

-----------------------------------------------------------------------------
(* The batch *)

\* A batch takes the artifacts after the cursor in order: it leaves out none
\* that precedes one it has taken, and it takes at least one.
LEMMA FirstOfIsFirst ==
    ASSUME TypeOK, NEW S \in SUBSET Ids, NEW size \in Nat \ {0}
    PROVE  /\ FirstOf(S, size) \subseteq S
           /\ S # {} => FirstOf(S, size) # {}
           /\ \A i \in S, j \in FirstOf(S, size) : ~Before(Key(j), Key(i)) => i \in FirstOf(S, size)
<1> DEFINE earlier(i) == {j \in S : Before(Key(j), Key(i))}
<1>1. \A i \in S : i \in FirstOf(S, size) <=> Cardinality(earlier(i)) < size
  BY DEF FirstOf
<1>2. \A i \in S : IsFiniteSet(earlier(i)) /\ Cardinality(earlier(i)) \in Nat
  BY ConstantsOK, FS_Subset, FS_CardinalityType
<1>3. FirstOf(S, size) \subseteq S
  BY DEF FirstOf
<1>4. ASSUME S # {} PROVE FirstOf(S, size) # {}
  <2> DEFINE R == {e \in S \X S : Before(Key(e[2]), Key(e[1]))}
  <2>1. IsFiniteSet(S)
    BY ConstantsOK, FS_Subset
  <2>2. \A i, j \in S : <<i, j>> \in R <=> Before(Key(j), Key(i))
    OBVIOUS
  <2> HIDE DEF R
  <2>3. \A i \in S : <<i, i>> \notin R
    BY <2>2, BeforeIsOrder
  <2>4. \A i, j, k \in S : <<i, j>> \in R /\ <<j, k>> \in R => <<i, k>> \in R
    BY <2>2, BeforeIsOrder
  <2>5. PICK i \in S : \A j \in S : <<i, j>> \notin R
    BY <1>4, <2>1, <2>3, <2>4, MaximalExists
  <2>6. earlier(i) = {}
    BY <2>2, <2>5
  <2>7. Cardinality(earlier(i)) = 0
    BY <2>6, FS_EmptySet
  <2> QED BY <1>1, <2>7
<1>5. ASSUME NEW i \in S, NEW j \in FirstOf(S, size), ~Before(Key(j), Key(i))
      PROVE  i \in FirstOf(S, size)
  <2>1. j \in S
    BY <1>3
  <2>2. earlier(i) \subseteq earlier(j)
    BY <1>5, <2>1, BeforeIsOrder
  <2>3. Cardinality(earlier(i)) <= Cardinality(earlier(j))
    BY <1>2, <2>1, <2>2, FS_Subset
  <2> HIDE DEF earlier
  <2> QED BY <1>1, <1>2, <2>1, <2>3
<1> QED
  BY <1>3, <1>4, <1>5

-----------------------------------------------------------------------------
(* The inductive invariant *)

\* Passes and tables speak of artifacts whose rows have been committed, so
\* nothing they remember of one changes.
Committed(S) == \A i \in S : row[i] \in {"stored", "gone"}
OnlyCommitted ==
    Committed(written) /\ Committed(snapshots) /\ \A p \in Passes : Committed(batch[p])

\* A pass works on its batch and has none between two.
WorksOnBatch ==
    \A p \in Passes : /\ unread[p] \cup prepared[p] \subseteq batch[p]
                      /\ pc[p] # "prepare" => batch[p] = {}

\* An open transaction is young.
OpenIsYoung == \A i \in Ids : row[i] = "open" => clock <= fetched[i] + CommitWithin

\* A cursor points to what was settled when it was read, so that whatever is
\* still open will come after it.
Past(k) == k = Start \/ k.at + Lag < clock
CursorsAreSettled == Past(stored) /\ \A p \in Passes : Past(cursor[p])

\* The cursor of a pass that will store it passes nothing by but its own batch.
PassesAreHonest ==
    \A p \in Passes : ~dry[p] =>
      \A i \in Ids : row[i] = "stored" /\ ~Before(cursor[p], Key(i)) =>
        Accounted(i) \/ i \in batch[p]

Invariant ==
    /\ TypeOK
    /\ OnlyCommitted
    /\ WorksOnBatch
    /\ OpenIsYoung
    /\ CursorsAreSettled
    /\ PassesAreHonest
    /\ CursorIsHonest
    /\ CommentsFollowNewest
    /\ BundlesAreWhole

-----------------------------------------------------------------------------
(* What the statements of a batch make of a comment *)

CommentRow == [first : Nat, last : Nat, by : Ids \cup {0}]

LEMMA InsertedIsRow ==
    ASSUME TypeOK, NEW i \in Ids
    PROVE  /\ Inserted(i) \in CommentRow /\ Inserted(i) # NoComment
           /\ Inserted(i).last = fetched[i] /\ Inserted(i).by = i
<1>1. fetched[i] \in Nat /\ i # 0
  BY ConstantsOK DEF TypeOK
<1>2. Inserted(i).by # NoComment.by
  BY <1>1 DEF Inserted, NoComment
<1>3. Inserted(i) # NoComment
  BY <1>2
<1>4. Inserted(i) \in CommentRow /\ Inserted(i).last = fetched[i] /\ Inserted(i).by = i
  BY <1>1 DEF Inserted, CommentRow
<1> QED
  BY <1>3, <1>4

LEMMA UpdatedIsRow ==
    ASSUME TypeOK, NEW c \in CommentRow, NEW i \in Ids
    PROVE  /\ Updated(c, i) \in CommentRow
           /\ fetched[i] > c.last =>
                Updated(c, i).last = fetched[i] /\ Updated(c, i).by = i
           /\ ~(fetched[i] > c.last) => Updated(c, i) = c
<1>1. fetched[i] \in Nat
  BY DEF TypeOK
<1>2. CASE fetched[i] > c.last
  BY <1>1, <1>2 DEF Updated, CommentRow
<1>3. CASE ~(fetched[i] > c.last)
  BY <1>3 DEF Updated
<1> QED
  BY <1>2, <1>3

\* A comment that some of the harvests saw ends at the newest of them, or stays
\* at a newer one.
LEMMA UpsertIsNewest ==
    ASSUME TypeOK, NEW old \in CommentRow, NEW H \in SUBSET Ids, H # {},
           NEW new, new = Upsert(old, H)
    PROVE  /\ new \in CommentRow /\ new # NoComment
           /\ new.last >= old.last
           /\ \A i \in H : fetched[i] <= new.last
           /\ \/ new.by \in H /\ new.last = fetched[new.by]
              \/ old # NoComment /\ new = old
<1> DEFINE base == IF old = NoComment THEN Inserted(Earliest(H)) ELSE old
           n == Newest(H)
<1>1. n \in H /\ n \in Ids /\ \A i \in H : fetched[i] <= fetched[n]
  BY NewestIsNewest
<1>2. Earliest(H) \in H /\ Earliest(H) \in Ids
  BY EarliestIsOne
<1>3. /\ base \in CommentRow /\ base # NoComment
      /\ old = NoComment => base.by \in H /\ base.last = fetched[base.by]
      /\ old # NoComment => base = old
  BY <1>2, InsertedIsRow
<1>4. new = Updated(base, n)
  BY DEF Upsert
<1>5. base.last \in Nat /\ old.last \in Nat /\ \A i \in H : fetched[i] \in Nat
  BY <1>3 DEF TypeOK, CommentRow
<1>6. old = NoComment => old.last = 0
  BY DEF NoComment
<1>7. base.last >= old.last
  BY <1>3, <1>5, <1>6
<1> HIDE DEF base, n
<1>8. CASE fetched[n] > base.last
  <2>1. new \in CommentRow /\ new.last = fetched[n] /\ new.by = n
    BY <1>1, <1>3, <1>4, <1>8, UpdatedIsRow
  <2>2. NoComment.by = 0 /\ n # 0
    BY <1>1, ConstantsOK DEF NoComment
  <2>3. new # NoComment
    BY <2>1, <2>2
  <2>4. new.last >= old.last
    BY <1>1, <1>5, <1>7, <1>8, <2>1
  <2> QED BY <1>1, <2>1, <2>3, <2>4
<1>9. CASE ~(fetched[n] > base.last)
  <2>1. new = base
    BY <1>1, <1>3, <1>4, <1>9, UpdatedIsRow
  <2>2. \A i \in H : fetched[i] <= base.last
    BY <1>1, <1>5, <1>9
  <2> QED BY <1>3, <1>7, <2>1, <2>2
<1> QED
  BY <1>8, <1>9

-----------------------------------------------------------------------------
(* Types *)

LEMMA TypedInit == Init => TypeOK
<1> SUFFICES ASSUME Init PROVE TypeOK
  OBVIOUS
<1>1. Start \in Keys
  BY DEF Start, Keys
<1>2. comments \in [Comments -> [first : Nat, last : Nat, by : Ids \cup {0}]]
  BY DEF Init, NoComment
<1> QED
  BY <1>1, <1>2 DEF Init, TypeOK

LEMMA TypedWrite ==
    ASSUME TypeOK, NEW p \in Passes, NEW refused, WriteBatch(p, refused)
    PROVE  TypeOK'
<1> USE DEF TypeOK
<1>1. CASE dry[p]
  BY <1>1 DEF WriteBatch, collected, files, tables, history
<1>2. CASE ~dry[p]
  <2> DEFINE S == prepared[p] \ refused
  <2>1. S \in SUBSET Ids /\ batch[p] \in SUBSET Ids /\ cursor[p] \in Keys
    OBVIOUS
  <2>2. comments' = [c \in Comments |-> Upsert(comments[c], {i \in S : c \in Harvest[i]})]
    BY <1>2 DEF WriteBatch, Upserted
  <2> HIDE DEF S
  <2>3. ASSUME NEW c \in Comments
        PROVE  Upsert(comments[c], {i \in S : c \in Harvest[i]}) \in CommentRow
    <3> DEFINE H == {i \in S : c \in Harvest[i]}
    <3>1. comments[c] \in CommentRow
      BY DEF CommentRow
    <3>2. CASE H = {}
      BY <3>1, <3>2 DEF Upsert
    <3>3. CASE H # {}
      <4>1. H \in SUBSET Ids
        BY <2>1
      <4> HIDE DEF H
      <4>2. Upsert(comments[c], H) \in CommentRow
        BY <3>1, <3>3, <4>1, UpsertIsNewest
      <4> QED BY <4>2 DEF H
    <3> QED BY <3>2, <3>3
  <2>4. comments' \in [Comments -> [first : Nat, last : Nat, by : Ids \cup {0}]]
    BY <2>2, <2>3 DEF CommentRow
  <2>5. snapshots' = snapshots \cup (S \cap Snapshots) /\ stored' = cursor[p]
    BY <1>2 DEF WriteBatch, SnapshotsOf, S
  <2>6. written' = written \cup S /\ skipped' = skipped \cup (batch[p] \ S)
    BY <1>2 DEF WriteBatch, S
  <2>7. snapshots' \subseteq Snapshots /\ stored' \in Keys /\ written' \subseteq Ids /\ skipped' \subseteq Ids
    BY <2>1, <2>5, <2>6
  <2>8. /\ pc' = [pc EXCEPT ![p] = "read"]
        /\ batch' = [batch EXCEPT ![p] = {}] /\ prepared' = [prepared EXCEPT ![p] = {}]
        /\ UNCHANGED <<clock, row, fetched, files, dry, cursor, seen, unread, faults>>
    BY DEF WriteBatch, collected
  <2> QED BY <2>4, <2>7, <2>8 DEF files
<1> QED
  BY <1>1, <1>2

\* A batch is not empty, so it has a last artifact and the cursor a place to be.
LEMMA BatchRead ==
    ASSUME TypeOK, NEW p \in Passes, ReadBatch(p)
    PROVE  LET entries == FirstOf(After(cursor[p]), Size(p)) IN
           /\ entries \in SUBSET After(cursor[p]) /\ entries # {}
           /\ LastOf(entries) \in entries
           /\ \A j \in entries : ~Before(Key(LastOf(entries)), Key(j))
           /\ \A i \in After(cursor[p]), j \in entries :
                ~Before(Key(j), Key(i)) => i \in entries
<1> DEFINE S == After(cursor[p])
           entries == FirstOf(S, Size(p))
<1>1. S \in SUBSET Ids /\ S # {}
  BY DEF ReadBatch, After
<1>2. Size(p) \in Nat \ {0}
  <2>1. Limit[p] \in Nat /\ seen[p] \in Nat /\ BatchSize \in Nat \ {0}
    BY ConstantsOK DEF TypeOK
  <2>2. Limit[p] = NoLimit \/ seen[p] < Limit[p]
    BY <2>1 DEF ReadBatch, Reached
  <2> QED BY <2>1, <2>2 DEF Size, NoLimit
<1> HIDE DEF S
<1>3. /\ entries \subseteq S /\ entries # {}
      /\ \A i \in S, j \in entries : ~Before(Key(j), Key(i)) => i \in entries
  BY <1>1, <1>2, FirstOfIsFirst
<1> HIDE DEF entries
<1>4. entries \in SUBSET Ids /\ entries # {}
  BY <1>1, <1>3
<1>5. LastOf(entries) \in entries /\ \A j \in entries : ~Before(Key(LastOf(entries)), Key(j))
  BY <1>4, LastOfIsLast
<1> QED
  BY <1>3, <1>5 DEF entries, S

\* The ways a pass ends.
Stops(p) == EndPass(p) \/ Abort(p) \/ \E i \in Ids : PayloadRaises(p, i)

LEMMA TypedNext ==
    ASSUME TypeOK, [Next]_vars
    PROVE  TypeOK'
<1>0. Start \in Keys /\ MaxFaults \in Nat
  BY ConstantsOK, StartIsFirst
<1> USE DEF TypeOK, collected, files, tables, passes, history
<1>1. CASE Tick \/ ClearCursor
  <2>1. CASE Tick
    BY <2>1 DEF Tick
  <2>2. CASE ClearCursor
    BY <1>0, <2>2 DEF ClearCursor
  <2> QED BY <1>1, <2>1, <2>2
<1>2. ASSUME NEW i \in Ids, Fetch(i) \/ Commit(i) \/ PruneRow(i) \/ Unlink(i) PROVE TypeOK'
  <2>1. CASE Fetch(i)
    BY <2>1 DEF Fetch
  <2>2. CASE Commit(i) \/ PruneRow(i)
    BY <2>2 DEF Commit, PruneRow
  <2>3. CASE Unlink(i)
    BY <2>3 DEF Unlink
  <2> QED BY <1>2, <2>1, <2>2, <2>3
<1>3. ASSUME NEW p \in Passes, NEW rehearsal \in BOOLEAN, StartPass(p, rehearsal) PROVE TypeOK'
  BY <1>3 DEF StartPass
<1>4. ASSUME NEW p \in Passes, ReadBatch(p) PROVE TypeOK'
  <2> DEFINE entries == FirstOf(After(cursor[p]), Size(p))
  <2>1. entries \in SUBSET Ids /\ LastOf(entries) \in entries
    BY <1>4, BatchRead DEF After
  <2> DEFINE n == Cardinality(entries)
             k == Key(LastOf(entries))
  <2>2. n \in Nat /\ k \in Keys
    BY <2>1, ConstantsOK, FS_Subset, FS_CardinalityType, BeforeIsOrder
  <2>3. /\ batch' = [batch EXCEPT ![p] = entries] /\ unread' = [unread EXCEPT ![p] = entries]
        /\ cursor' = [cursor EXCEPT ![p] = k]
        /\ seen' = [seen EXCEPT ![p] = IF Limit[p] = NoLimit THEN 0 ELSE seen[p] + n]
        /\ pc' = [pc EXCEPT ![p] = "prepare"]
        /\ UNCHANGED <<collected, tables, dry, prepared, history, faults>>
    BY <1>4 DEF ReadBatch, Advanced
  <2> HIDE DEF entries, n, k
  <2> QED BY <2>1, <2>2, <2>3
<1>5. ASSUME NEW p \in Passes, NEW i \in Ids, Prepare(p, i) PROVE TypeOK'
  BY <1>5 DEF Prepare, NextToRead
<1>6. ASSUME NEW p \in Passes, NEW refused \in SUBSET Refusable, WriteBatch(p, refused)
      PROVE  TypeOK'
  BY <1>6, TypedWrite
<1>7. ASSUME NEW p \in Passes, Stops(p) PROVE TypeOK'
  <2>1. Rest(p) /\ UNCHANGED <<collected, tables, history>> /\ faults' \in Nat
    BY <1>7 DEF Stops, EndPass, Abort, PayloadRaises
  <2>2. /\ pc' \in [Passes -> {"idle", "read", "prepare"}] /\ dry' \in [Passes -> BOOLEAN]
        /\ cursor' \in [Passes -> Keys] /\ seen' \in [Passes -> Nat]
        /\ batch' \in [Passes -> SUBSET Ids] /\ unread' \in [Passes -> SUBSET Ids]
        /\ prepared' \in [Passes -> SUBSET Ids]
    BY <1>0, <2>1 DEF Rest
  <2>3. Keys' = Keys
    BY DEF Keys
  <2> QED BY <2>1, <2>2, <2>3
<1>8. ASSUME NEW i \in Ids, PutAgain(i) \/ WritePart(i) \/ WriteRest(i) \/ StopWriting(i)
      PROVE  TypeOK'
  <2>1. CASE PutAgain(i)
    BY <2>1 DEF PutAgain
  <2>2. CASE WritePart(i)
    BY <2>2 DEF WritePart
  <2>3. CASE WriteRest(i)
    BY <2>3 DEF WriteRest
  <2>4. CASE StopWriting(i)
    BY <2>4 DEF StopWriting
  <2> QED BY <1>8, <2>1, <2>2, <2>3, <2>4
<1>9. CASE UNCHANGED vars
  BY <1>9 DEF vars
<1> QED
  BY <1>1, <1>2, <1>3, <1>4, <1>5, <1>6, <1>7, <1>8, <1>9 DEF Next, Step, Stops

\* Every reachable state is well typed: a cursor is always a place in the index
\* or its start, and a comment is always somebody's.
THEOREM Typing == Spec => []TypeOK
BY TypedInit, TypedNext, PTL DEF Spec

-----------------------------------------------------------------------------
(* Steps that leave the tables *)

\* Committed rows keep their instants, so the tables say of them what they said.
LEMMA TablesStay ==
    ASSUME Invariant, UNCHANGED <<snapshots, comments, history>>,
           \A i \in Ids : row[i] \in {"stored", "gone"} => fetched'[i] = fetched[i]
    PROVE  /\ CommentsFollowNewest' /\ BundlesAreWhole'
           /\ \A i \in Ids : row[i] \in {"stored", "gone"} =>
                Key(i)' = Key(i) /\ (Accounted(i) => Accounted(i)')
<1> USE DEF Invariant, TypeOK, OnlyCommitted, Committed, history
<1>1. \A i \in Ids : row[i] \in {"stored", "gone"} =>
        Key(i)' = Key(i) /\ (Unpacked(i) => Unpacked(i)')
  BY DEF Key, Unpacked
<1>2. CommentsFollowNewest'
  <2> SUFFICES ASSUME NEW c \in Comments
      PROVE LET sightings == {i \in written : c \in Harvest[i]} IN
            /\ comments[c] = NoComment <=> sightings = {}
            /\ sightings # {} =>
                  /\ comments[c].by \in sightings
                  /\ comments[c].last = fetched'[comments[c].by]
                  /\ \A i \in sightings : fetched'[i] <= comments[c].last
    BY DEF CommentsFollowNewest
  <2>1. \A i \in written : fetched'[i] = fetched[i]
    OBVIOUS
  <2> QED BY <2>1 DEF CommentsFollowNewest
<1>3. BundlesAreWhole'
  <2>1. \A i \in snapshots : i \in Ids /\ row[i] \in {"stored", "gone"} /\ Unpacked(i)
    BY ConstantsOK DEF BundlesAreWhole
  <2> QED BY <1>1, <2>1 DEF BundlesAreWhole
<1> QED
  BY <1>1, <1>2, <1>3 DEF Accounted

\* Of a step of the index: a row is fetched now, committed or pruned.
LEMMA IndexStep ==
    ASSUME Invariant, TypeOK', NEW i \in Ids, Fetch(i) \/ Commit(i) \/ PruneRow(i) \/ Unlink(i)
    PROVE  Invariant'
<1> USE DEF Invariant, TypeOK
<1>1. /\ UNCHANGED <<clock, tables, passes, history>>
      /\ \A j \in Ids \ {i} : row'[j] = row[j] /\ fetched'[j] = fetched[j]
      /\ row[i] \in {"stored", "gone"} => row'[i] \in {row[i], "gone"} /\ fetched'[i] = fetched[i]
      /\ row'[i] = "stored" => row[i] \in {"open", "stored"} /\ fetched'[i] = fetched[i]
      /\ row'[i] = "open" => fetched'[i] = clock
  BY DEF Fetch, Commit, PruneRow, Unlink
<1> USE DEF tables, passes
<1>2. \A j \in Ids : row[j] \in {"stored", "gone"} =>
        row'[j] \in {"stored", "gone"} /\ fetched'[j] = fetched[j]
  BY <1>1
<1>3. /\ CommentsFollowNewest' /\ BundlesAreWhole'
      /\ \A j \in Ids : row[j] \in {"stored", "gone"} =>
           Key(j)' = Key(j) /\ (Accounted(j) => Accounted(j)')
  BY <1>1, <1>2, TablesStay
<1>4. OnlyCommitted' /\ WorksOnBatch'
  <2>1. \A S \in SUBSET Ids : Committed(S) => Committed(S)'
    BY <1>2 DEF Committed
  <2>2. snapshots \in SUBSET Ids
    BY ConstantsOK
  <2>3. OnlyCommitted'
    BY <1>1, <2>1, <2>2 DEF OnlyCommitted, history
  <2> QED BY <1>1, <2>3 DEF WorksOnBatch
<1>5. OpenIsYoung'
  BY <1>1, ConstantsOK DEF OpenIsYoung
<1>6. CursorsAreSettled'
  BY <1>1 DEF CursorsAreSettled, Past
<1>7. ASSUME NEW k \in Keys, Past(k), NEW j \in Ids, row'[j] = "stored", ~Before(k, Key(j)')
      PROVE  row[j] = "stored" /\ Key(j)' = Key(j)
  <2>1. CASE row[j] = "open"
    <3>1. j = i /\ fetched'[j] = fetched[j] /\ clock <= fetched[j] + CommitWithin
      BY <1>1, <1>7, <2>1 DEF OpenIsYoung
    <3>2. Key(j)' = Key(j)
      BY <3>1 DEF Key
    <3>3. k # Start
      BY <1>7, <3>2, StartIsFirst
    <3>4. k.at + Lag < clock
      BY <1>7, <3>3 DEF Past
    <3>5. k.at < fetched[j]
      BY <3>1, <3>4, ConstantsOK DEF Keys
    <3> QED BY <1>7, <3>2, <3>5 DEF Before, Key
  <2>2. CASE row[j] # "open"
    <3>1. row[j] = "stored"
      BY <1>1, <1>7, <2>2
    <3> QED BY <1>3, <3>1
  <2> QED BY <2>1, <2>2
<1>8. CursorIsHonest'
  <2> SUFFICES ASSUME NEW j \in Ids, row'[j] = "stored", ~Before(stored, Key(j)')
               PROVE  Accounted(j)'
    BY <1>1 DEF CursorIsHonest, Accounted
  <2>1. row[j] = "stored" /\ Key(j)' = Key(j)
    BY <1>7 DEF CursorsAreSettled
  <2> QED BY <1>3, <2>1 DEF CursorIsHonest, Accounted
<1>9. PassesAreHonest'
  <2> SUFFICES ASSUME NEW p \in Passes, ~dry[p],
                      NEW j \in Ids, row'[j] = "stored", ~Before(cursor[p], Key(j)')
               PROVE  Accounted(j)' \/ j \in batch[p]
    BY <1>1 DEF PassesAreHonest
  <2>1. row[j] = "stored" /\ Key(j)' = Key(j)
    BY <1>7 DEF CursorsAreSettled
  <2> QED BY <1>3, <2>1 DEF PassesAreHonest
<1> QED
  BY <1>3, <1>4, <1>5, <1>6, <1>8, <1>9

\* Time passes, or an operator clears the cursor.
LEMMA ClockStep ==
    ASSUME Invariant, TypeOK', Tick \/ ClearCursor
    PROVE  Invariant'
<1> USE DEF Invariant, TypeOK
<1>1. UNCHANGED <<row, fetched, snapshots, comments, passes, history>>
  BY DEF Tick, ClearCursor, collected, tables
<1> USE DEF passes
<1>2. /\ CommentsFollowNewest' /\ BundlesAreWhole'
      /\ \A j \in Ids : row[j] \in {"stored", "gone"} =>
           Key(j)' = Key(j) /\ (Accounted(j) => Accounted(j)')
  BY <1>1, TablesStay
<1>3. OnlyCommitted' /\ WorksOnBatch'
  BY <1>1 DEF OnlyCommitted, Committed, WorksOnBatch, history
<1>4. OpenIsYoung'
  BY <1>1, ConstantsOK DEF OpenIsYoung, Tick, ClearCursor, collected
<1>5. clock' \in {clock, clock + 1} /\ stored' \in {stored, Start}
  BY DEF Tick, ClearCursor, collected, tables
<1>6. \A k \in Keys : Past(k) => Past(k)'
  BY <1>5, ConstantsOK DEF Past, Keys
<1>7. CursorsAreSettled'
  BY <1>1, <1>5, <1>6 DEF CursorsAreSettled, Past
<1>8. CursorIsHonest'
  <2> SUFFICES ASSUME NEW j \in Ids, row[j] = "stored", ~Before(stored', Key(j)')
               PROVE  Accounted(j)'
    BY <1>1 DEF CursorIsHonest, Accounted
  <2>1. Key(j)' = Key(j)
    BY <1>2
  <2>2. stored' = stored
    BY <1>5, <2>1, StartIsFirst
  <2> QED BY <1>2, <2>1, <2>2 DEF CursorIsHonest, Accounted
<1>9. PassesAreHonest'
  BY <1>1, <1>2 DEF PassesAreHonest
<1> QED
  BY <1>2, <1>3, <1>4, <1>7, <1>8, <1>9

\* A payload is put again: of all that passes and tables rest on nothing changes.
LEMMA FileStep ==
    ASSUME Invariant, TypeOK', NEW i \in Ids,
           PutAgain(i) \/ WritePart(i) \/ WriteRest(i) \/ StopWriting(i)
    PROVE  Invariant'
<1>1. UNCHANGED <<clock, row, fetched, tables, passes, history>>
  BY DEF PutAgain, WritePart, WriteRest, StopWriting
<1> QED
  BY <1>1
  DEF tables, passes, history, Invariant, OnlyCommitted, Committed,
      WorksOnBatch, OpenIsYoung, CursorsAreSettled, Past, PassesAreHonest, Accounted,
      CursorIsHonest, CommentsFollowNewest, BundlesAreWhole, Unpacked, Before, Key

\* What a step that leaves index and tables must leave of the pass that takes it.
PassIsSound(p) ==
    /\ Committed(batch[p])
    /\ unread[p] \cup prepared[p] \subseteq batch[p]
    /\ pc[p] # "prepare" => batch[p] = {}
    /\ Past(cursor[p])
    /\ ~dry[p] => \A i \in Ids : row[i] = "stored" /\ ~Before(cursor[p], Key(i)) =>
                    Accounted(i) \/ i \in batch[p]

LEMMA EveryPassIsSound ==
    (\A p \in Passes : PassIsSound(p)) <=>
        /\ \A p \in Passes : Committed(batch[p])
        /\ WorksOnBatch
        /\ \A p \in Passes : Past(cursor[p])
        /\ PassesAreHonest
BY DEF PassIsSound, WorksOnBatch, PassesAreHonest

LEMMA PassStep ==
    ASSUME Invariant, TypeOK', UNCHANGED <<collected, tables, history>>,
           NEW p \in Passes, PassIsSound(p)',
           \A q \in Passes \ {p} :
             /\ pc'[q] = pc[q] /\ dry'[q] = dry[q] /\ cursor'[q] = cursor[q]
             /\ batch'[q] = batch[q] /\ unread'[q] = unread[q] /\ prepared'[q] = prepared[q]
    PROVE  Invariant'
<1> USE DEF Invariant
<1>1. UNCHANGED <<clock, row, fetched, stored, snapshots, comments, skipped, written>>
  BY DEF collected, tables, history
<1>2. \A i \in Ids : Key(i)' = Key(i) /\ (Accounted(i)' <=> Accounted(i))
  BY <1>1 DEF Key, Accounted, Unpacked
<1>3. \A q \in Passes : PassIsSound(q)'
  <2> SUFFICES ASSUME NEW q \in Passes \ {p} PROVE PassIsSound(q)'
    OBVIOUS
  <2>1. PassIsSound(q)
    BY EveryPassIsSound DEF OnlyCommitted, CursorsAreSettled
  <2> QED BY <1>1, <1>2, <2>1 DEF PassIsSound, Committed, Past
<1>4. /\ \A q \in Passes : Committed(batch[q])'
      /\ WorksOnBatch'
      /\ \A q \in Passes : Past(cursor[q])'
      /\ PassesAreHonest'
  BY <1>3 DEF PassIsSound, WorksOnBatch, PassesAreHonest
<1>5. OnlyCommitted' /\ CursorsAreSettled'
  BY <1>1, <1>4 DEF OnlyCommitted, CursorsAreSettled, Committed, Past
<1>6. OpenIsYoung' /\ CursorIsHonest' /\ CommentsFollowNewest' /\ BundlesAreWhole'
  BY <1>1 DEF OpenIsYoung, CursorIsHonest, CommentsFollowNewest, BundlesAreWhole, Before,
     Key, Unpacked
<1> QED
  BY <1>4, <1>5, <1>6

\* The steps of a pass but its write.
LEMMA StartStep ==
    ASSUME Invariant, TypeOK', NEW p \in Passes, NEW rehearsal \in BOOLEAN,
           StartPass(p, rehearsal)
    PROVE  Invariant'
<1> USE DEF Invariant, TypeOK
<1>1. /\ UNCHANGED <<collected, tables, history, batch, unread, prepared>>
      /\ pc'[p] = "read" /\ cursor'[p] = stored /\ pc[p] = "idle"
      /\ \A q \in Passes \ {p} :
           pc'[q] = pc[q] /\ dry'[q] = dry[q] /\ cursor'[q] = cursor[q]
  BY DEF StartPass
<1>2. UNCHANGED <<clock, row, fetched, snapshots, comments, skipped>>
  BY <1>1 DEF collected, tables, history
<1>3. PassIsSound(p)
  BY EveryPassIsSound DEF OnlyCommitted, CursorsAreSettled
<1>4. batch'[p] = {} /\ unread'[p] \cup prepared'[p] \subseteq {}
  BY <1>1, <1>3 DEF PassIsSound
<1>5. Past(cursor[p])'
  BY <1>1, <1>2 DEF CursorsAreSettled, Past
<1>6. \A i \in Ids : row[i] = "stored" /\ ~Before(stored, Key(i)) => Accounted(i)
  BY DEF CursorIsHonest, Accounted
<1>7. \A i \in Ids : Key(i)' = Key(i) /\ (Accounted(i)' <=> Accounted(i))
  BY <1>2 DEF Key, Accounted, Unpacked
<1>8. PassIsSound(p)'
  BY <1>1, <1>2, <1>4, <1>5, <1>6, <1>7 DEF PassIsSound, Committed
<1> QED
  BY <1>1, <1>8, PassStep

LEMMA ReadStep ==
    ASSUME Invariant, TypeOK', NEW p \in Passes, ReadBatch(p)
    PROVE  Invariant'
<1> USE DEF Invariant, TypeOK
<1> DEFINE entries == FirstOf(After(cursor[p]), Size(p))
           k == Key(LastOf(entries))
<1>1. /\ entries \in SUBSET After(cursor[p])
      /\ LastOf(entries) \in entries
      /\ \A i \in After(cursor[p]), j \in entries : ~Before(Key(j), Key(i)) => i \in entries
  BY BatchRead
<1>2. /\ UNCHANGED <<collected, tables, history, dry, prepared>>
      /\ batch'[p] = entries /\ unread'[p] = entries /\ cursor'[p] = k
      /\ pc[p] = "read" /\ pc'[p] = "prepare"
      /\ \A q \in Passes \ {p} :
           /\ pc'[q] = pc[q] /\ cursor'[q] = cursor[q]
           /\ batch'[q] = batch[q] /\ unread'[q] = unread[q]
  BY DEF ReadBatch, Advanced
<1> HIDE DEF entries
<1>3. UNCHANGED <<clock, row, fetched, snapshots, comments, skipped>>
  BY <1>2 DEF collected, tables, history
<1>4. PassIsSound(p)
  BY EveryPassIsSound DEF OnlyCommitted, CursorsAreSettled
<1>5. \A i \in entries : i \in Ids /\ row[i] = "stored" /\ fetched[i] < clock - Lag
  BY <1>1 DEF After, Settled
<1>6. LastOf(entries) \in Ids /\ k.at = fetched[LastOf(entries)] /\ k.at < clock - Lag
  BY <1>1, <1>5 DEF Key
<1> HIDE DEF k
<1>7. k.at + Lag < clock /\ k.at \in Nat
  <2>1. k.at \in Nat /\ clock \in Nat /\ Lag \in Nat
    BY <1>6, ConstantsOK
  <2> QED BY <1>6, <2>1
<1>8. ASSUME ~dry[p], NEW i \in Ids, row[i] = "stored", ~Before(k, Key(i))
      PROVE  Accounted(i) \/ i \in entries
  <2>1. CASE Before(cursor[p], Key(i))
    <3>1. fetched[i] <= k.at
      BY <1>7, <1>8 DEF Before, Key
    <3>2. i \in After(cursor[p])
      BY <1>7, <1>8, <2>1, <3>1, ConstantsOK DEF After, Settled
    <3> QED BY <1>1, <1>8, <3>2 DEF k
  <2>2. CASE ~Before(cursor[p], Key(i))
    BY <1>2, <1>4, <1>8, <2>2 DEF PassIsSound
  <2> QED BY <2>1, <2>2
<1>9. \A i \in Ids : Key(i)' = Key(i) /\ (Accounted(i)' <=> Accounted(i))
  BY <1>3 DEF Key, Accounted, Unpacked
<1>10. PassIsSound(p)'
  BY <1>2, <1>3, <1>4, <1>5, <1>7, <1>8, <1>9 DEF PassIsSound, Committed, Past
<1> QED
  BY <1>2, <1>10, PassStep

LEMMA PrepareStep ==
    ASSUME Invariant, TypeOK', NEW p \in Passes, NEW i \in Ids, Prepare(p, i)
    PROVE  Invariant'
<1> USE DEF Invariant, TypeOK
<1>1. /\ UNCHANGED <<collected, tables, history, pc, dry, cursor, batch>>
      /\ unread'[p] = unread[p] \ {i}
      /\ prepared'[p] \subseteq prepared[p] \cup {i} /\ i \in unread[p]
      /\ \A q \in Passes \ {p} : unread'[q] = unread[q] /\ prepared'[q] = prepared[q]
  BY DEF Prepare, NextToRead
<1>2. UNCHANGED <<clock, row, fetched, snapshots, comments, skipped>>
  BY <1>1 DEF collected, tables, history
<1>3. PassIsSound(p)
  BY EveryPassIsSound DEF OnlyCommitted, CursorsAreSettled
<1>4. \A j \in Ids : Key(j)' = Key(j) /\ (Accounted(j)' <=> Accounted(j))
  BY <1>2 DEF Key, Accounted, Unpacked
<1>5. PassIsSound(p)'
  BY <1>1, <1>2, <1>3, <1>4 DEF PassIsSound, Committed, Past
<1> QED
  BY <1>1, <1>5, PassStep

LEMMA RestStep ==
    ASSUME Invariant, TypeOK', NEW p \in Passes, Stops(p)
    PROVE  Invariant'
<1> USE DEF Invariant, TypeOK
<1>1. Rest(p) /\ UNCHANGED <<collected, tables, history>>
  BY DEF Stops, EndPass, Abort, PayloadRaises
<1>2. /\ pc'[p] = "idle" /\ cursor'[p] = Start
      /\ batch'[p] = {} /\ unread'[p] = {} /\ prepared'[p] = {}
      /\ \A q \in Passes \ {p} :
           /\ pc'[q] = pc[q] /\ dry'[q] = dry[q] /\ cursor'[q] = cursor[q]
           /\ batch'[q] = batch[q] /\ unread'[q] = unread[q] /\ prepared'[q] = prepared[q]
  BY <1>1 DEF Rest
<1>3. UNCHANGED <<row, fetched>>
  BY <1>1 DEF collected
<1>4. \A j \in Ids : Before(Start, Key(j)')
  BY <1>3, StartIsFirst DEF Key
<1>5. PassIsSound(p)'
  BY <1>2, <1>4 DEF PassIsSound, Committed, Past
<1> QED
  BY <1>1, <1>2, <1>5, PassStep

-----------------------------------------------------------------------------
(* The write of a batch *)

\* What a batch that is not a rehearsal writes of the artifacts in S: every
\* comment one of them saw ends at the newest harvest of all that were written.
LEMMA CommentsWritten ==
    ASSUME Invariant, NEW S \in SUBSET Ids, NEW c \in Comments,
           NEW new, new = Upsert(comments[c], {i \in S : c \in Harvest[i]})
    PROVE  /\ comments[c] # NoComment => new # NoComment /\ new.last >= comments[c].last
           /\ \A i \in S : c \in Harvest[i] => new # NoComment /\ new.last >= fetched[i]
           /\ LET sightings == {i \in written \cup S : c \in Harvest[i]} IN
              /\ new = NoComment <=> sightings = {}
              /\ sightings # {} =>
                    /\ new.by \in sightings
                    /\ new.last = fetched[new.by]
                    /\ \A i \in sightings : fetched[i] <= new.last
<1> USE DEF Invariant, TypeOK
<1> DEFINE H == {i \in S : c \in Harvest[i]}
           old == comments[c]
           before == {i \in written : c \in Harvest[i]}
           sightings == {i \in written \cup S : c \in Harvest[i]}
<1>1. sightings = before \cup H
  OBVIOUS
<1>2. /\ old = NoComment <=> before = {}
      /\ before # {} => /\ old.by \in before /\ old.last = fetched[old.by]
                        /\ \A i \in before : fetched[i] <= old.last
  BY DEF CommentsFollowNewest
<1>3. old \in CommentRow /\ H \in SUBSET Ids /\ before \in SUBSET Ids
  BY DEF CommentRow
<1>4. \A i \in Ids : fetched[i] \in Nat
  OBVIOUS
<1>5. old.last \in Nat
  BY <1>3 DEF CommentRow
<1>6. \A i \in S : c \in Harvest[i] <=> i \in H
  OBVIOUS
<1>7. new = Upsert(old, H)
  OBVIOUS
<1> HIDE DEF H, old, before, sightings
<1>8. CASE H = {}
  <2>1. new = old
    BY <1>7, <1>8 DEF Upsert
  <2>2. old.last >= old.last
    BY <1>5
  <2>3. /\ old # NoComment => new # NoComment /\ new.last >= old.last
        /\ \A i \in S : c \in Harvest[i] => new # NoComment /\ new.last >= fetched[i]
    BY <1>6, <1>8, <2>1, <2>2
  <2>4. sightings = before
    BY <1>1, <1>8
  <2> QED BY <1>2, <2>1, <2>3, <2>4 DEF old, sightings
<1>9. CASE H # {}
  <2>1. /\ new \in CommentRow /\ new # NoComment
        /\ new.last >= old.last
        /\ \A i \in H : fetched[i] <= new.last
        /\ \/ new.by \in H /\ new.last = fetched[new.by]
           \/ old # NoComment /\ new = old
    BY <1>3, <1>7, <1>9, UpsertIsNewest
  <2>2. new.last \in Nat
    BY <2>1 DEF CommentRow
  <2>3. \A i \in S : c \in Harvest[i] => new # NoComment /\ new.last >= fetched[i]
    BY <1>4, <1>6, <2>1, <2>2
  <2>4. \A i \in before : fetched[i] <= new.last
    BY <1>2, <1>3, <1>4, <1>5, <2>1, <2>2
  <2>5. \A i \in sightings : fetched[i] <= new.last
    BY <1>1, <2>1, <2>4
  <2>6. new.by \in sightings /\ new.last = fetched[new.by]
    BY <1>1, <1>2, <2>1
  <2>7. sightings # {} /\ new # NoComment /\ new.last >= old.last
    BY <1>1, <1>9, <2>1
  <2> QED BY <2>3, <2>5, <2>6, <2>7 DEF old, sightings
<1> QED
  BY <1>8, <1>9

\* Only WriteBatch writes the tables, in one transaction with the cursor.
LEMMA WriteStep ==
    ASSUME Invariant, TypeOK', NEW p \in Passes, NEW refused, WriteBatch(p, refused)
    PROVE  Invariant'
<1> USE DEF Invariant, TypeOK
<1>1. /\ UNCHANGED <<collected, dry, cursor, unread>>
      /\ pc'[p] = "read" /\ batch'[p] = {} /\ prepared'[p] = {} /\ unread[p] = {}
      /\ \A q \in Passes \ {p} :
           pc'[q] = pc[q] /\ batch'[q] = batch[q] /\ prepared'[q] = prepared[q]
  BY DEF WriteBatch
<1>2. UNCHANGED <<clock, row, fetched>>
  BY <1>1 DEF collected
<1>3. PassIsSound(p)
  BY EveryPassIsSound DEF OnlyCommitted, CursorsAreSettled
<1>4. \A i \in Ids : Key(i)' = Key(i)
  BY <1>2 DEF Key
<1>5. CASE dry[p]
  <2>1. UNCHANGED <<tables, history>>
    BY <1>5 DEF WriteBatch
  <2>2. PassIsSound(p)'
    BY <1>1, <1>2, <1>3, <1>5 DEF PassIsSound, Committed, Past
  <2> QED BY <1>1, <2>1, <2>2, PassStep
<1>6. CASE ~dry[p]
  <2> DEFINE S == prepared[p] \ refused
  <2>1. S \in SUBSET Ids /\ S \subseteq batch[p] /\ batch[p] \in SUBSET Ids
    BY <1>3 DEF PassIsSound
  <2>2. /\ snapshots' = snapshots \cup (S \cap Snapshots)
        /\ comments' = [c \in Comments |-> Upsert(comments[c], {i \in S : c \in Harvest[i]})]
        /\ stored' = cursor[p]
        /\ written' = written \cup S
        /\ skipped' = skipped \cup (batch[p] \ S)
    BY <1>6 DEF WriteBatch, SnapshotsOf, Upserted
  <2> HIDE DEF S
  <2>3. ASSUME NEW c \in Comments
        PROVE  /\ comments[c] # NoComment =>
                    comments'[c] # NoComment /\ comments'[c].last >= comments[c].last
               /\ \A i \in S : c \in Harvest[i] =>
                    comments'[c] # NoComment /\ comments'[c].last >= fetched[i]
               /\ LET sightings == {i \in written' : c \in Harvest[i]} IN
                  /\ comments'[c] = NoComment <=> sightings = {}
                  /\ sightings # {} =>
                        /\ comments'[c].by \in sightings
                        /\ comments'[c].last = fetched[comments'[c].by]
                        /\ \A i \in sightings : fetched[i] <= comments'[c].last
    <3>1. comments'[c] = Upsert(comments[c], {i \in S : c \in Harvest[i]})
      BY <2>2
    <3>2. {i \in written' : c \in Harvest[i]} = {i \in written \cup S : c \in Harvest[i]}
      BY <2>2
    <3>3. PICK new : new = comments'[c] /\ new = Upsert(comments[c], {i \in S : c \in Harvest[i]})
      BY <3>1
    <3>4. /\ comments[c] # NoComment => new # NoComment /\ new.last >= comments[c].last
          /\ \A i \in S : c \in Harvest[i] => new # NoComment /\ new.last >= fetched[i]
          /\ LET sightings == {i \in written \cup S : c \in Harvest[i]} IN
             /\ new = NoComment <=> sightings = {}
             /\ sightings # {} =>
                   /\ new.by \in sightings
                   /\ new.last = fetched[new.by]
                   /\ \A i \in sightings : fetched[i] <= new.last
      BY <2>1, <3>3, CommentsWritten
    <3> QED BY <3>2, <3>3, <3>4, Zenon
  <2>4. CommentsFollowNewest'
    BY <1>2, <2>3 DEF CommentsFollowNewest
  <2>5. \A i \in S : Unpacked(i)'
    <3> SUFFICES ASSUME NEW i \in S PROVE Unpacked(i)'
      OBVIOUS
    <3>1. i \in Snapshots => i \in snapshots'
      BY <2>2
    <3>2. \A c \in Harvest[i] : c \in Comments
      BY <2>1, ConstantsOK
    <3>3. \A c \in Harvest[i] : comments'[c] # NoComment /\ comments'[c].last >= fetched[i]
      BY <2>3, <3>2
    <3> QED BY <1>2, <3>1, <3>3 DEF Unpacked
  <2>6. ASSUME NEW i \in Ids, Unpacked(i) PROVE Unpacked(i)'
    <3>1. i \in Snapshots => i \in snapshots'
      BY <2>2, <2>6 DEF Unpacked
    <3>2. ASSUME NEW c \in Harvest[i]
          PROVE  comments'[c] # NoComment /\ comments'[c].last >= fetched[i]
      <4>1. c \in Comments
        BY ConstantsOK
      <4>2. /\ comments[c] # NoComment /\ comments[c].last >= fetched[i]
            /\ comments'[c] # NoComment /\ comments'[c].last >= comments[c].last
        BY <2>3, <2>6, <4>1 DEF Unpacked
      <4>3. fetched[i] \in Nat /\ comments[c].last \in Nat /\ comments'[c].last \in Nat
        BY <4>1
      <4> QED BY <4>2, <4>3
    <3> QED BY <1>2, <3>1, <3>2 DEF Unpacked
  <2>7. \A i \in Ids : Accounted(i) \/ i \in batch[p] => Accounted(i)'
    BY <2>2, <2>5, <2>6 DEF Accounted
  <2>8. BundlesAreWhole'
    BY <2>1, <2>2, <2>5, <2>6, ConstantsOK DEF BundlesAreWhole
  <2>9. \A i \in Ids : row[i] = "stored" /\ ~Before(cursor[p], Key(i)) => Accounted(i)'
    BY <1>3, <1>6, <2>7 DEF PassIsSound
  <2>10. CursorIsHonest'
    BY <1>2, <1>4, <2>2, <2>9 DEF CursorIsHonest, Accounted
  <2>11. PassesAreHonest'
    <3> SUFFICES ASSUME NEW q \in Passes, ~dry[q], NEW i \in Ids,
                        row[i] = "stored", ~Before(cursor[q], Key(i))
                 PROVE  Accounted(i)' \/ i \in batch'[q]
      BY <1>1, <1>2, <1>4 DEF PassesAreHonest
    <3>1. Accounted(i) \/ i \in batch[q]
      BY DEF PassesAreHonest
    <3> QED BY <1>1, <2>7, <3>1
  <2>12. WorksOnBatch'
    BY <1>1 DEF WorksOnBatch
  <2>13. OpenIsYoung' /\ CursorsAreSettled'
    BY <1>1, <1>2, <2>2 DEF OpenIsYoung, CursorsAreSettled, Past
  <2>14. OnlyCommitted'
    BY <1>1, <1>2, <2>1, <2>2 DEF OnlyCommitted, Committed
  <2> QED BY <2>4, <2>8, <2>10, <2>11, <2>12, <2>13, <2>14
<1> QED
  BY <1>5, <1>6

-----------------------------------------------------------------------------
(* The theorems *)

LEMMA InvariantInit == Init => Invariant
<1> SUFFICES ASSUME Init PROVE Invariant
  OBVIOUS
<1>1. TypeOK
  BY TypedInit
<1>2. OnlyCommitted /\ WorksOnBatch /\ OpenIsYoung /\ CursorsAreSettled
  BY DEF Init, OnlyCommitted, Committed, WorksOnBatch, OpenIsYoung, CursorsAreSettled, Past
<1>3. PassesAreHonest /\ CursorIsHonest
  BY DEF Init, PassesAreHonest, CursorIsHonest
<1>4. CommentsFollowNewest /\ BundlesAreWhole
  BY DEF Init, CommentsFollowNewest, BundlesAreWhole
<1> QED
  BY <1>1, <1>2, <1>3, <1>4 DEF Invariant

LEMMA InvariantNext == Invariant /\ [Next]_vars => Invariant'
<1> SUFFICES ASSUME Invariant, [Next]_vars PROVE Invariant'
  OBVIOUS
<1>1. TypeOK'
  BY TypedNext DEF Invariant
<1>2. CASE UNCHANGED vars
  BY <1>1, <1>2
  DEF vars, collected, tables, passes, history, Invariant, OnlyCommitted, Committed,
      WorksOnBatch, OpenIsYoung, CursorsAreSettled, Past, PassesAreHonest, Accounted,
      CursorIsHonest, CommentsFollowNewest, BundlesAreWhole, Unpacked, Before, Key
<1>3. CASE Next
  BY <1>1, <1>3, ClockStep, IndexStep, FileStep, StartStep, ReadStep, PrepareStep,
     WriteStep, RestStep
  DEF Next, Step, Stops
<1> QED
  BY <1>2, <1>3

LEMMA AlwaysInvariant == Spec => []Invariant
BY InvariantInit, InvariantNext, PTL DEF Spec

\* The cursor passes nothing by, whatever the lag of a commit, the ties of
\* fetched_at, the size of a batch, and the passes that overlap, die, rehearse
\* or start over.
THEOREM CursorIsHonestAlways == Spec => []CursorIsHonest
<1>1. Invariant => CursorIsHonest
  BY DEF Invariant
<1> QED
  BY <1>1, AlwaysInvariant, PTL

\* Replays and overlapping passes never take a comment back from its newest harvest.
THEOREM CommentsFollowNewestAlways == Spec => []CommentsFollowNewest
<1>1. Invariant => CommentsFollowNewest
  BY DEF Invariant
<1> QED
  BY <1>1, AlwaysInvariant, PTL

\* No snapshot of a bundle is there without its comments.
THEOREM BundlesAreWholeAlways == Spec => []BundlesAreWhole
<1>1. Invariant => BundlesAreWhole
  BY DEF Invariant
<1> QED
  BY <1>1, AlwaysInvariant, PTL
=============================================================================
