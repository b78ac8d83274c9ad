------------------------------- MODULE Transfer -------------------------------
(***************************************************************************)
(* `tubedepth transfer` (transfer.py, cli.py transfer_command), which      *)
(* carries the index from one database to another while the payloads stay  *)
(* where they are, and what goes on beside it: a second transfer started   *)
(* by another operator, jobs that still finish on either database, a prune *)
(* of the target, crashes, and the operator who empties the target, as a   *)
(* transfer that failed has asked for, whatever else is using it.          *)
(*                                                                         *)
(* Two tables stand for all of them: artifacts, which prune judges the     *)
(* payloads by, and jobs, which come after them in sorted_tables.  Every   *)
(* artifact has a payload of its own.                                      *)
(***************************************************************************)
EXTENDS Integers, Sequences, FiniteSets, FiniteSetsExt

CONSTANTS Runs,        \* transfer processes
          Artifacts, Jobs,
          Old,         \* the artifacts older than maximum_age
          Late,        \* the rows that do not exist when it all begins
          BATCH,       \* rows of a session of the copy
          MaxFaults    \* bound on crashes, on rows the target refuses and on
                       \* the times it is emptied while it is in use

ASSUME ConstantsOK ==
    /\ Artifacts \cap Jobs = {}
    /\ Old \subseteq Artifacts /\ Late \subseteq Artifacts \ Old
    /\ IsFiniteSet(Artifacts \cup Jobs)
    /\ BATCH \in Nat \ {0}
    /\ MaxFaults \in Nat

VARIABLES source, target,   \* the rows of each database
          payload,          \* the artifacts whose payload is stored
          schema,           \* of each database: "none", "old" or "current"
          late,             \* rows recorded since the first transfer began
          pc, table, values, left,  \* the locals of each transfer
          undercut,         \* transfers under which the target was emptied (history)
          moved,            \* one that was not has returned into it (history)
          prune,            \* the locals of prune
          pruned,           \* rows prune has removed from this target
          faults

databases == <<source, target, payload, schema, late>>
locals == <<pc, table, values, left>>
copying == <<locals, undercut, moved>>
pruning == <<prune, pruned>>
vars == <<databases, copying, pruning, faults>>

-----------------------------------------------------------------------------

Rows == Artifacts \cup Jobs
Databases == {"source", "target"}

\* Base.metadata.sorted_tables
Tables == <<Artifacts, Jobs>>

NotPruning == [on |-> FALSE, live |-> {}, expiring |-> {}, found |-> {},
               early |-> FALSE, late |-> {}]

\* The runs that have begun and neither returned nor raised.
Active == {r \in Runs : pc[r] \notin {"off", "done", "failed"}}

Init ==
    /\ source = Rows \ Late /\ target = {}
    /\ payload = Artifacts \ Late
    /\ schema \in [Databases -> {"none", "old", "current"}] /\ schema["source"] # "none"
    /\ late = {}
    /\ pc = [r \in Runs |-> "off"] /\ table = [r \in Runs |-> 1]
    /\ values = [r \in Runs |-> {}] /\ left = [r \in Runs |-> {}]
    /\ undercut = {} /\ moved = FALSE
    /\ prune = NotPruning /\ pruned = {}
    /\ faults = 0

-----------------------------------------------------------------------------
(* Beside the transfer *)

\* `tubedepth migrate` brings a database forward: a schema of an older release
\* lacks columns of both tables.
Migrate(d) ==
    /\ schema[d] # "current"
    /\ schema' = [schema EXCEPT ![d] = "current"]
    /\ UNCHANGED <<source, target, payload, late, copying, pruning, faults>>

\* Database.is_migrated: there is a schema, of whatever release.
IsMigrated(d) == schema[d] # "none"

\* A worker that is still pointed at the source, or already at the target,
\* records an artifact, under an identifier of its own; its payload is younger
\* than orphan_grace for longer than a prune takes.
Recorded(a) ==
    /\ a \in Late \ (source \cup target \cup payload)
    /\ payload' = payload \cup {a} /\ late' = late \cup {a}

RecordAtSource(a) ==
    /\ Recorded(a)
    /\ source' = source \cup {a}
    /\ UNCHANGED <<target, schema, copying, pruning, faults>>

RecordAtTarget(a) ==
    /\ schema["target"] = "current" /\ Recorded(a)
    /\ target' = target \cup {a}
    /\ UNCHANGED <<source, schema, copying, pruning, faults>>

\* What every transfer that fails asks the operator to do before a retry.  It may
\* have failed on the rows of another one that goes on; nor need prune be idle.
EmptyTarget ==
    /\ target # {} /\ \E r \in Runs : pc[r] = "failed"
    /\ target' = {} /\ pruned' = {}
    /\ pc' = [r \in Runs |-> IF pc[r] = "failed" THEN "off" ELSE pc[r]]
    /\ undercut' = undercut \cup Active /\ moved' = FALSE
    /\ LET inUse == Active # {} \/ moved \/ prune.on IN
       IF inUse THEN faults < MaxFaults /\ faults' = faults + 1 ELSE UNCHANGED faults
    /\ UNCHANGED <<source, payload, schema, late, table, values, left, prune>>

-----------------------------------------------------------------------------
(* transfer *)

\* _refuse_a_target_that_already_holds_rows
TargetHoldsRows == target # {}

\* The placement of both ends is right, the schema of the source is current,
\* there is one at the target, and the target is empty: a transfer that is refused
\* changes nothing.
Begin(r) ==
    /\ r \notin Active
    /\ schema["source"] = "current" /\ IsMigrated("target") /\ ~TargetHoldsRows
    /\ late' = IF Active = {} /\ ~moved THEN {} ELSE late
    /\ pc' = [pc EXCEPT ![r] = "read"]
    /\ UNCHANGED <<source, target, payload, schema, table, values, left, undercut,
                   moved, pruning, faults>>

\* Mutants of the definitions that follow each: bugs the properties must find.
SelectedOfOneBatch(t) ==
    CHOOSE s \in SUBSET (source \cap Tables[t]) :
       Cardinality(s) = Min({BATCH, Cardinality(source \cap Tables[t])})

\* The rows of a table, in one statement and one session.
Selected(t) == source \cap Tables[t]

ReadTable(r) ==
    /\ pc[r] = "read"
    /\ values' = [values EXCEPT ![r] = Selected(table[r])]
    /\ left' = [left EXCEPT ![r] = Selected(table[r])]
    /\ pc' = [pc EXCEPT ![r] = "write"]
    /\ UNCHANGED <<databases, table, undercut, moved, pruning, faults>>

\* The next batch, in the order the source happened to return the rows.
Batches(r) == {b \in SUBSET left[r] : Cardinality(b) = Min({BATCH, Cardinality(left[r])})}

\* A transfer returns or raises, and its locals are no more.
Ends(r, how) ==
    /\ pc' = [pc EXCEPT ![r] = how] /\ table' = [table EXCEPT ![r] = 1]
    /\ values' = [values EXCEPT ![r] = {}] /\ left' = [left EXCEPT ![r] = {}]
    /\ undercut' = undercut \ {r}
Raises(r) == Ends(r, "failed")

\* A session writes one batch; identifiers move with their rows, so a row that
\* is already there fails the whole batch, and with it the transfer.  So does a
\* target of an older release.
WriteBatch(r) ==
    /\ pc[r] = "write" /\ left[r] # {}
    /\ \E b \in Batches(r) :
          \/ /\ b \cap target = {} /\ schema["target"] = "current"
             /\ target' = target \cup b
             /\ left' = [left EXCEPT ![r] = @ \ b]
             /\ UNCHANGED <<pc, table, values, undercut>>
          \/ /\ b \cap target # {} \/ schema["target"] # "current"
             /\ Raises(r) /\ UNCHANGED target
    /\ UNCHANGED <<source, payload, schema, late, moved, pruning, faults>>

\* The target holds as many rows of the table as were read.
Arrived(r) ==
    Cardinality(target \cap Tables[table[r]]) = Cardinality(values[r])

\* The recount, and the next table or the outcome.
Recount(r) ==
    /\ pc[r] = "write" /\ left[r] = {}
    /\ \/ ~Arrived(r) /\ Raises(r) /\ UNCHANGED moved
       \/ /\ Arrived(r) /\ table[r] < Len(Tables)
          /\ table' = [table EXCEPT ![r] = @ + 1]
          /\ pc' = [pc EXCEPT ![r] = "read"]
          /\ UNCHANGED <<values, left, undercut, moved>>
       \/ /\ Arrived(r) /\ table[r] = Len(Tables)
          /\ Ends(r, "done")
          /\ moved' = (moved \/ r \notin undercut)
    /\ UNCHANGED <<databases, pruning, faults>>

\* The process is killed, loses a database, or meets a row that the models or
\* the target refuse: what is committed stays.
Fail(r) ==
    /\ r \in Active
    /\ faults < MaxFaults /\ faults' = faults + 1
    /\ Raises(r)
    /\ UNCHANGED <<databases, moved, pruning>>

-----------------------------------------------------------------------------
(* prune, run by a service or an operator that is on the target already.  Every
   payload but those of rows recorded meanwhile is older than orphan_grace. *)

Index == target \cap Artifacts
Orphans == payload \ Index

\* _refuse_to_sweep_without_an_index, which the payloads stop, ...
WithoutIndex == Index = {} /\ payload # {}

DisproportionateWhenLarger ==
    Orphans # {} /\ Cardinality(Orphans) > Max({Cardinality(Index \ Old), 1})

\* ... and _refuse_to_sweep_disproportionately.
Disproportionate ==
    Orphans # {} /\ Cardinality(Orphans) >= Max({Cardinality(Index \ Old), 1})

Judge ==
    /\ schema["target"] = "current" /\ ~prune.on
    /\ ~WithoutIndex /\ ~Disproportionate
    /\ prune' = [on |-> TRUE, live |-> Index \ Old, expiring |-> Index \cap Old,
                 found |-> payload, early |-> ~moved, late |-> late]
    /\ UNCHANGED <<databases, copying, pruned, faults>>

\* The deletions commit ...
DeleteRows ==
    /\ prune.on /\ prune.expiring # {}
    /\ target' = target \ prune.expiring
    /\ pruned' = pruned \cup (prune.expiring \cap target)
    /\ prune' = [prune EXCEPT !.expiring = {}]
    /\ UNCHANGED <<source, payload, schema, late, copying, faults>>

\* ... and the files go, of the deleted rows and of the orphans, by what the
\* session found however long ago that is.
Sweep ==
    /\ prune.on /\ prune.expiring = {}
    /\ payload' = payload \ (prune.found \ prune.live)
    /\ prune' = NotPruning
    /\ UNCHANGED <<source, target, schema, late, copying, pruned, faults>>

CrashPrune ==
    /\ prune.on
    /\ faults < MaxFaults /\ faults' = faults + 1
    /\ prune' = NotPruning
    /\ UNCHANGED <<databases, copying, pruned>>

-----------------------------------------------------------------------------

Transferring(r) == ReadTable(r) \/ WriteBatch(r) \/ Recount(r)

Next ==
    \/ \E d \in Databases : Migrate(d)
    \/ \E a \in Late : RecordAtSource(a) \/ RecordAtTarget(a)
    \/ EmptyTarget
    \/ \E r \in Runs : Begin(r) \/ Transferring(r) \/ Fail(r)
    \/ Judge \/ DeleteRows \/ Sweep \/ CrashPrune

Spec == Init /\ [][Next]_vars

-----------------------------------------------------------------------------

\* The types of the state.
TypeOK ==
    /\ source \subseteq Rows /\ target \subseteq Rows /\ payload \subseteq Artifacts
    /\ schema \in [Databases -> {"none", "old", "current"}] /\ late \subseteq Late
    /\ pc \in [Runs -> {"off", "read", "write", "done", "failed"}]
    /\ table \in [Runs -> {1, 2}]
    /\ values \in [Runs -> SUBSET Rows] /\ left \in [Runs -> SUBSET Rows]
    /\ undercut \subseteq Runs /\ moved \in BOOLEAN
    /\ prune \in [on : BOOLEAN, live : SUBSET Artifacts, expiring : SUBSET Artifacts,
                  found : SUBSET Artifacts, early : BOOLEAN, late : SUBSET Late]
    /\ pruned \subseteq Artifacts
    /\ faults \in 0..MaxFaults

\* A transfer that has returned leaves a target with every row of the source,
\* except those prune has removed from it and those recorded while it ran: two
\* transfers at once, a retry after a crash in any batch, a worker that already
\* writes to the target and an operator who empties it between two transfers
\* included.  It says nothing of a transfer that ran while the target was emptied:
\* that one recounts the table it is at and returns without those it had done.
SuccessIsWhole == moved => source \ (late \cup pruned) \subseteq target

\* prune takes the payload of a source row that has not aged out only where no
\* transfer had returned whole when it judged the index, and then of fewer rows
\* than the index had; after one has, only of a row that had been recorded at the
\* source while the transfer ran.
SweepSparesTheMoved ==
    [][LET gone == ((payload \ payload') \cap source) \ Old
       IN \/ prune.early /\ (gone # {} => Cardinality(gone) < Cardinality(prune.live))
          \/ gone \subseteq prune.late]_vars
=============================================================================
