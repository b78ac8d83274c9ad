------------------------------- MODULE Flatten -------------------------------
(***************************************************************************)
(* FlattenService (flatten.py): passes that walk the artifact index behind *)
(* a stored cursor and unpack what they find into the queryable tables,    *)
(* while collections commit rows and write files again, retention deletes  *)
(* both, an operator clears the cursor, and passes overlap or die.         *)
(*                                                                         *)
(* An artifact is unpacked into a snapshot row of its own, into comment    *)
(* rows it shares with other harvests, or, a bundle, into both.  Listings  *)
(* and channels are written like snapshots, transcripts like comments.     *)
(* Of an observed comment only the harvest it was copied from is kept.     *)
(***************************************************************************)
EXTENDS Integers, FiniteSets

CONSTANTS Ids,          \* artifact identifiers, in their order
          Comments,
          Snapshots,    \* the artifacts with a snapshot to write
          Harvest,      \* Harvest[i] are the comments artifact i has observed
          Broken,       \* artifacts whose payload no transform accepts
          Refusable,    \* artifacts whose statements the database may refuse
          Passes,       \* processes that run flatten
          Rehearsers,   \* those that may run it with --dry-run
          Lag,          \* SAFETY_LAG, in ticks
          MaximumAge,   \* what retention keeps, in ticks
          Expiring,     \* bound on the artifacts that retention deletes
          Rewritten,    \* and on those whose content is collected and put again
          CommitWithin, \* ticks between a row's fetched_at and its commit
          BatchSize,
          Limit,        \* Limit[p] of a pass of p, or NoLimit
          Horizon,      \* bound on the instants at which artifacts are fetched
          MaxPuts,      \* bound on the payloads written again
          MaxFaults     \* bound on dead passes and writers, and cleared cursors

ASSUME ConstantsOK ==
    /\ Ids \subseteq Nat \ {0} /\ IsFiniteSet(Ids)
    /\ Snapshots \subseteq Ids /\ Broken \subseteq Ids /\ Refusable \subseteq Ids
    /\ Expiring \subseteq Ids /\ Rewritten \subseteq Ids /\ Rehearsers \subseteq Passes
    /\ Harvest \in [Ids -> SUBSET Comments]
    /\ Lag \in Nat /\ MaximumAge \in Nat /\ CommitWithin \in 0..Lag
    /\ BatchSize \in Nat \ {0} /\ Limit \in [Passes -> Nat]
    /\ Horizon \in Nat /\ MaxPuts \in Nat /\ MaxFaults \in Nat

NoLimit == 0            \* no limit of the command line is 0

VARIABLES clock,
          row,       \* row[i] of the index: "absent", "open", "stored" or "gone"
          fetched,   \* its fetched_at
          file,      \* its payload file: "none", "empty", "cut" or "whole"
          writing,   \* the artifacts whose payload is being written again
          puts,
          stored,    \* the cursor of FlattenProgress
          snapshots, \* the artifacts with a snapshot row
          comments,  \* the comment rows
          pc, dry,   \* of each pass
          cursor,    \* of each pass, in memory
          seen,      \* of each pass, the artifacts it has read, if that is limited
          batch,     \* of each pass, the entries of its batch,
          unread,    \* those whose payload is still to be read,
          prepared,  \* and those that have been transformed
          skipped,   \* artifacts a pass counted instead of writing (history)
          written,   \* artifacts whose statements were committed (history)
          faults

files == <<file, writing, puts>>
collected == <<clock, row, fetched, files>>
tables == <<stored, snapshots, comments>>
passes == <<pc, dry, cursor, seen, batch, unread, prepared>>
history == <<skipped, written>>
vars == <<collected, tables, passes, history, faults>>

-----------------------------------------------------------------------------

\* A cursor is a pair; the one of an empty FlattenProgress precedes all others.
Key(i) == [at |-> fetched[i], id |-> i]
Start == [at |-> 0, id |-> 0]
Before(k, l) == k.at < l.at \/ (k.at = l.at /\ k.id < l.id)

NoComment == [first |-> 0, last |-> 0, by |-> 0]

Init ==
    /\ clock = 0
    /\ row = [i \in Ids |-> "absent"] /\ fetched = [i \in Ids |-> 0]
    /\ file = [i \in Ids |-> "none"] /\ writing = {} /\ puts = 0
    /\ stored = Start /\ snapshots = {} /\ comments = [c \in Comments |-> NoComment]
    /\ pc = [p \in Passes |-> "idle"] /\ dry = [p \in Passes |-> FALSE]
    /\ cursor = [p \in Passes |-> Start] /\ seen = [p \in Passes |-> 0]
    /\ batch = [p \in Passes |-> {}]
    /\ unread = [p \in Passes |-> {}] /\ prepared = [p \in Passes |-> {}]
    /\ skipped = {} /\ written = {} /\ faults = 0

-----------------------------------------------------------------------------
(* Collection and retention *)

\* A collection has put its payload and built its row, in an open transaction.
Fetch(i) ==
    /\ row[i] = "absent" /\ clock < Horizon
    /\ row' = [row EXCEPT ![i] = "open"]
    /\ fetched' = [fetched EXCEPT ![i] = clock]
    /\ file' = [file EXCEPT ![i] = "whole"]
    /\ UNCHANGED <<clock, writing, puts, tables, passes, history, faults>>

Commit(i) ==
    /\ row[i] = "open"
    /\ row' = [row EXCEPT ![i] = "stored"]
    /\ UNCHANGED <<clock, fetched, files, tables, passes, history, faults>>

SettledAtOnce(i) == row[i] = "stored"
Settled(i) == row[i] = "stored" /\ fetched[i] < clock - Lag

\* Time does not pass the commit of an open transaction, nor a use for it.
Tick ==
    /\ clock < Horizon + Lag
    /\ \A i \in Ids : row[i] = "open" => clock < fetched[i] + CommitWithin
    /\ clock' = clock + 1
    /\ UNCHANGED <<row, fetched, files, tables, passes, history, faults>>

\* RetentionService.prune: the row of an old artifact, and then its file.
PruneRow(i) ==
    /\ row[i] = "stored" /\ i \in Expiring /\ fetched[i] < clock - MaximumAge
    /\ row' = [row EXCEPT ![i] = "gone"]
    /\ UNCHANGED <<clock, fetched, files, tables, passes, history, faults>>

Unlink(i) ==
    /\ file[i] # "none" /\ row[i] = "gone"
    /\ file' = [file EXCEPT ![i] = "none"]
    /\ writing' = writing \ {i}
    /\ UNCHANGED <<clock, row, fetched, puts, tables, passes, history, faults>>

\* A later collection of the same content puts it again: PayloadStore.put opens
\* the file, which empties it, ...
PutAgain(i) ==
    /\ row[i] = "stored" /\ i \in Rewritten /\ i \notin writing
    /\ puts < MaxPuts /\ puts' = puts + 1
    /\ file' = [file EXCEPT ![i] = "empty"]
    /\ writing' = writing \cup {i}
    /\ UNCHANGED <<clock, row, fetched, tables, passes, history, faults>>

\* ... and writes the compressed bytes, of which a reader may meet the first, ...
WritePart(i) ==
    /\ i \in writing /\ file[i] = "empty"
    /\ file' = [file EXCEPT ![i] = "cut"]
    /\ UNCHANGED <<clock, row, fetched, writing, puts, tables, passes, history, faults>>

WriteRest(i) ==
    /\ i \in writing
    /\ file' = [file EXCEPT ![i] = "whole"]
    /\ writing' = writing \ {i}
    /\ UNCHANGED <<clock, row, fetched, puts, tables, passes, history, faults>>

\* ... unless its process is killed or the disk is full: the file stays as it is.
StopWriting(i) ==
    /\ i \in writing
    /\ faults < MaxFaults /\ faults' = faults + 1
    /\ writing' = writing \ {i}
    /\ UNCHANGED <<clock, row, fetched, file, puts, tables, passes, history>>

\* An operator deletes the row of FlattenProgress to have everything replayed.
ClearCursor ==
    /\ stored # Start
    /\ faults < MaxFaults /\ faults' = faults + 1
    /\ stored' = Start
    /\ UNCHANGED <<collected, snapshots, comments, passes, history>>

-----------------------------------------------------------------------------
(* FlattenService.run *)

\* sweep of the command line, again and again with --every.
StartPass(p, rehearsal) ==
    /\ pc[p] = "idle" /\ (rehearsal => p \in Rehearsers)
    /\ pc' = [pc EXCEPT ![p] = "read"]
    /\ dry' = [dry EXCEPT ![p] = rehearsal]
    /\ cursor' = [cursor EXCEPT ![p] = stored]
    /\ UNCHANGED <<collected, tables, seen, batch, unread, prepared, history, faults>>

ReachedUnlessWholeBatch(p) == Limit[p] # NoLimit /\ seen[p] + BatchSize > Limit[p]
Reached(p) == Limit[p] # NoLimit /\ seen[p] >= Limit[p]
Size(p) == IF Limit[p] # NoLimit /\ Limit[p] - seen[p] < BatchSize
             THEN Limit[p] - seen[p] ELSE BatchSize

AfterByTimeOnly(k) == {i \in Ids : Settled(i) /\ (k = Start \/ k.at < fetched[i])}

\* _batch_query: the first `size` settled artifacts after the cursor.
After(k) == {i \in Ids : Settled(i) /\ Before(k, Key(i))}
FirstOf(S, size) ==
    {i \in S : Cardinality({j \in S : Before(Key(j), Key(i))}) < size}
LastOf(S) == CHOOSE i \in S : \A j \in S : ~Before(Key(i), Key(j))

AdvancedUnlessDry(p, k) == IF dry[p] THEN cursor[p] ELSE k
Advanced(p, k) == k

\* The cursor is the last row of the batch, before anything of it is written.
ReadBatch(p) ==
    /\ pc[p] = "read" /\ ~Reached(p) /\ After(cursor[p]) # {}
    /\ LET entries == FirstOf(After(cursor[p]), Size(p)) IN
       /\ batch' = [batch EXCEPT ![p] = entries]
       /\ unread' = [unread EXCEPT ![p] = entries]
       /\ cursor' = [cursor EXCEPT ![p] = Advanced(p, Key(LastOf(entries)))]
       /\ seen' = [seen EXCEPT ![p] =
                      IF Limit[p] = NoLimit THEN 0 ELSE @ + Cardinality(entries)]
    /\ pc' = [pc EXCEPT ![p] = "prepare"]
    /\ UNCHANGED <<collected, tables, dry, prepared, history, faults>>

NextToRead(p, i) ==
    /\ pc[p] = "prepare" /\ i \in unread[p]
    /\ \A j \in unread[p] : ~Before(Key(j), Key(i))

\* The payload of an entry is read and transformed.  One that is missing, broken
\* or empty is counted and left out.
Prepare(p, i) ==
    /\ NextToRead(p, i) /\ file[i] # "cut"
    /\ unread' = [unread EXCEPT ![p] = @ \ {i}]
    /\ prepared' = [prepared EXCEPT ![p] =
                      IF file[i] = "whole" /\ i \notin Broken THEN @ \cup {i} ELSE @]
    /\ UNCHANGED <<collected, tables, pc, dry, cursor, seen, batch, history, faults>>

Rest(p) ==
    /\ pc' = [pc EXCEPT ![p] = "idle"] /\ dry' = [dry EXCEPT ![p] = FALSE]
    /\ cursor' = [cursor EXCEPT ![p] = Start] /\ seen' = [seen EXCEPT ![p] = 0]
    /\ batch' = [batch EXCEPT ![p] = {}] /\ unread' = [unread EXCEPT ![p] = {}]
    /\ prepared' = [prepared EXCEPT ![p] = {}]

PayloadRaisesStoring(p, i) ==
    /\ NextToRead(p, i) /\ file[i] = "cut"
    /\ stored' = cursor[p]
    /\ Rest(p)
    /\ UNCHANGED <<collected, snapshots, comments, history, faults>>

\* What gzip raises of the beginning of a file is none of the errors that are
\* counted: it ends the pass, before the cursor of the batch is stored.
PayloadRaises(p, i) ==
    /\ NextToRead(p, i) /\ file[i] = "cut"
    /\ Rest(p)
    /\ UNCHANGED <<collected, tables, history, faults>>

\* _upsert_comments: an insert of what is not there, and an update of what is
\* where the harvest is newer.
Inserted(i) == [first |-> fetched[i], last |-> fetched[i], by |-> i]
UpdatedUnguarded(c, i) == [c EXCEPT !.last = fetched[i], !.by = i]
Updated(c, i) ==
    IF fetched[i] > c.last THEN [c EXCEPT !.last = fetched[i], !.by = i] ELSE c

\* In cursor order the first of the harvests in H inserts a row.  Of the updates
\* the last to take effect is that of the newest, the first one of equals.
Earliest(H) == CHOOSE i \in H : \A j \in H : ~Before(Key(j), Key(i))
Newest(H) ==
    CHOOSE i \in H : \A j \in H : fetched[j] < fetched[i] \/ (fetched[j] = fetched[i] /\ i <= j)
Upsert(c, H) ==
    IF H = {} THEN c
    ELSE Updated(IF c = NoComment THEN Inserted(Earliest(H)) ELSE c, Newest(H))

\* The comment rows after the statements of the artifacts in S.
Upserted(S) == [c \in Comments |-> Upsert(comments[c], {i \in S : c \in Harvest[i]})]

\* _execute: the statements of an artifact succeed or fail together.
SnapshotsOfAll(p, refused) == prepared[p] \cap Snapshots
SnapshotsOfAnyKind(p, refused) == prepared[p] \ refused
SnapshotsOf(p, refused) == (prepared[p] \ refused) \cap Snapshots

\* One transaction writes the rows and the cursor; a rehearsal rolls it back.
WriteBatch(p, refused) ==
    /\ pc[p] = "prepare" /\ unread[p] = {}
    /\ refused \subseteq prepared[p] \cap Refusable
    /\ IF dry[p]
         THEN UNCHANGED <<tables, history>>
         ELSE /\ snapshots' = snapshots \cup SnapshotsOf(p, refused)
              /\ comments' = Upserted(prepared[p] \ refused)
              /\ stored' = cursor[p]
              /\ written' = written \cup (prepared[p] \ refused)
              /\ skipped' = skipped \cup (batch[p] \ (prepared[p] \ refused))
    /\ batch' = [batch EXCEPT ![p] = {}]
    /\ prepared' = [prepared EXCEPT ![p] = {}]
    /\ pc' = [pc EXCEPT ![p] = "read"]
    /\ UNCHANGED <<collected, dry, cursor, seen, unread, faults>>

\* The limit is reached or nothing is left to read.
EndPass(p) ==
    /\ pc[p] = "read" /\ (Reached(p) \/ After(cursor[p]) = {})
    /\ Rest(p)
    /\ UNCHANGED <<collected, tables, history, faults>>

\* The pass is killed, or its transaction fails as a whole.
Abort(p) ==
    /\ pc[p] # "idle"
    /\ faults < MaxFaults /\ faults' = faults + 1
    /\ Rest(p)
    /\ UNCHANGED <<collected, tables, history>>

-----------------------------------------------------------------------------

Step(p) ==
    \/ ReadBatch(p) \/ EndPass(p)
    \/ \E i \in Ids : Prepare(p, i) \/ PayloadRaises(p, i)
    \/ \E refused \in SUBSET Refusable : WriteBatch(p, refused)

Next ==
    \/ Tick \/ ClearCursor
    \/ \E i \in Ids : Fetch(i) \/ Commit(i) \/ PruneRow(i) \/ Unlink(i)
    \/ \E i \in Ids : PutAgain(i) \/ WritePart(i) \/ WriteRest(i) \/ StopWriting(i)
    \/ \E p \in Passes :
          \/ \E rehearsal \in BOOLEAN : StartPass(p, rehearsal)
          \/ Step(p) \/ Abort(p)

Spec == Init /\ [][Next]_vars

\* Time passes, transactions and passes end, and a process without --dry-run starts
\* a pass again and again, as --every does.
FairSpec ==
    /\ Spec
    /\ WF_vars(Tick) /\ \A i \in Ids : WF_vars(Commit(i))
    /\ \A p \in Passes : WF_vars(Step(p))
    /\ \A p \in Passes \ Rehearsers : WF_vars(StartPass(p, FALSE))

-----------------------------------------------------------------------------

Keys == [at : Nat, id : Ids \cup {0}]

\* The types of the state.
TypeOK ==
    /\ clock \in Nat
    /\ row \in [Ids -> {"absent", "open", "stored", "gone"}]
    /\ fetched \in [Ids -> Nat]
    /\ file \in [Ids -> {"none", "empty", "cut", "whole"}]
    /\ writing \subseteq Ids /\ puts \in Nat
    /\ stored \in Keys /\ snapshots \subseteq Snapshots
    /\ comments \in [Comments -> [first : Nat, last : Nat, by : Ids \cup {0}]]
    /\ pc \in [Passes -> {"idle", "read", "prepare"}] /\ dry \in [Passes -> BOOLEAN]
    /\ cursor \in [Passes -> Keys] /\ seen \in [Passes -> Nat]
    /\ batch \in [Passes -> SUBSET Ids]
    /\ unread \in [Passes -> SUBSET Ids] /\ prepared \in [Passes -> SUBSET Ids]
    /\ skipped \subseteq Ids /\ written \subseteq Ids /\ faults \in Nat

\* What artifact i observed is in the tables, or something newer is.
Unpacked(i) ==
    /\ i \in Snapshots => i \in snapshots
    /\ \A c \in Harvest[i] : comments[c] # NoComment /\ comments[c].last >= fetched[i]

\* The cursor passes nothing by: every artifact of the index at or below it has
\* been unpacked or was counted as missing or unwritable, however its commit
\* was delayed, its fetched_at shared, or passes overlapped, died, rehearsed
\* and were made to start over.
CursorIsHonest ==
    \A i \in Ids :
        row[i] = "stored" /\ ~Before(stored, Key(i)) => Unpacked(i) \/ i \in skipped

\* A comment follows the newest harvest that was written of those that saw it,
\* whatever replays and overlapping passes wrote after it.
CommentsFollowNewest ==
    \A c \in Comments :
        LET sightings == {i \in written : c \in Harvest[i]} IN
        /\ comments[c] = NoComment <=> sightings = {}
        /\ sightings # {} =>
              /\ comments[c].by \in sightings
              /\ comments[c].last = fetched[comments[c].by]
              /\ \A i \in sightings : fetched[i] <= comments[c].last

\* A bundle is unpacked as a whole: no snapshot of one whose comments the
\* database refused.
BundlesAreWhole == \A i \in snapshots : Unpacked(i)

\* A pass comes to its end, a rehearsal too.
PassesEnd == \A p \in Passes : []<>(pc[p] = "idle")

Accounted(i) == Unpacked(i) \/ i \in skipped

\* Every artifact committed is unpacked or counted in the end, unless retention
\* deletes it: again and again there is none in the index that is not.  This needs
\* that from some time on no payload is cut off, that of any artifact, since no pass
\* gets past it.
EveryArtifactIsUnpacked ==
    <>[](\A i \in Ids : file[i] # "cut") =>
       []<>(\A i \in Ids : row[i] = "stored" => Accounted(i))

\* "Nothing here is fatal per artifact", as the docstring of FlattenService says:
\* the same, whatever has become of a payload.
NothingIsFatal == []<>(\A i \in Ids : row[i] = "stored" => Accounted(i))
=============================================================================
