-------------------------- MODULE PayloadRetention --------------------------
(***************************************************************************)
(* The two stores an observation lives in, and the three that change them: *)
(* CollectionService.collect, which writes the payload file and then its   *)
(* artifact row (collection.py, payload_store.py), RetentionService.prune, *)
(* which deletes rows and then files (retention.py), and crashes.          *)
(*                                                                         *)
(* A file is named by the digest of its content, so two observations that  *)
(* collected the same bytes are two rows and one file.  Payloads of one    *)
(* kind are modelled.  A row is older than maximum_age or not, a file      *)
(* older than orphan_grace or not; both start young.                       *)
(***************************************************************************)
EXTENDS Integers, FiniteSets

CONSTANTS Digests, Ids, Collectors,
          NoDigest,      \* of a row that does not exist
          Forced,        \* --sweep-without-an-index
          MaxFaults      \* bound on crashes and failed commits

ASSUME ConstantsOK ==
    /\ IsFiniteSet(Digests) /\ IsFiniteSet(Ids)
    /\ NoDigest \notin Digests
    /\ Forced \in BOOLEAN
    /\ MaxFaults \in Nat

VARIABLES digest,    \* digest[i], of artifact row i
          expired,   \* the rows older than maximum_age
          file,      \* file[d] is "none", "torn" or "whole"
          aged,      \* the files older than orphan_grace
          pc, put,   \* of each collector, and the digest it has collected
          ppc,       \* of the pruner
          expiring, live, doomed, unswept, surviving,  \* the locals of prune
          swept,     \* orphans removed by this prune
          risked,    \* digests put again during a prune or a crash (history)
          faults

index == <<digest, expired>>
store == <<file, aged>>
collecting == <<pc, put, risked>>
pruning == <<ppc, expiring, live, doomed, unswept, surviving, swept>>
vars == <<index, store, collecting, pruning, faults>>

-----------------------------------------------------------------------------

Rows == {i \in Ids : digest[i] # NoDigest}
Stored == {d \in Digests : file[d] # "none"}
Referenced == {digest[i] : i \in Rows}
AtLeastOne(n) == IF n > 1 THEN n ELSE 1

Init ==
    /\ digest = [i \in Ids |-> NoDigest] /\ expired = {}
    /\ file = [d \in Digests |-> "none"] /\ aged = {}
    /\ pc = [c \in Collectors |-> "idle"] /\ put = [c \in Collectors |-> NoDigest]
    /\ ppc = "idle" /\ expiring = {} /\ live = {} /\ doomed = {} /\ unswept = {}
    /\ surviving = 0 /\ swept = 0
    /\ risked = {} /\ faults = 0

-----------------------------------------------------------------------------
(* Time.  A put is recorded, and a prune is over, well within orphan_grace,
   and a prune takes its cutoff once, at the start. *)

Untouched(d) == ppc = "idle" /\ \A c \in Collectors : put[c] = d => pc[c] = "fetched"

AgeRow(i) ==
    /\ i \in Rows \ expired /\ Untouched(digest[i])
    /\ expired' = expired \cup {i}
    /\ UNCHANGED <<digest, store, collecting, pruning, faults>>

AgeFile(d) ==
    /\ d \in Stored \ aged /\ Untouched(d)
    /\ aged' = aged \cup {d}
    /\ UNCHANGED <<index, file, collecting, pruning, faults>>

-----------------------------------------------------------------------------
(* CollectionService.collect *)

\* The source has answered, with bytes of this digest.
Fetch(c, d) ==
    /\ pc[c] = "idle"
    /\ pc' = [pc EXCEPT ![c] = "fetched"]
    /\ put' = [put EXCEPT ![c] = d]
    /\ UNCHANGED <<index, store, risked, pruning, faults>>

\* PayloadStore.put opens the file for writing, which empties it ...
OpenFile(c) ==
    /\ pc[c] = "fetched"
    /\ risked' = IF put[c] \in Stored /\ ppc # "idle" THEN risked \cup {put[c]} ELSE risked
    /\ file' = [file EXCEPT ![put[c]] = "torn"]
    /\ aged' = aged \ {put[c]}
    /\ pc' = [pc EXCEPT ![c] = "writing"]
    /\ UNCHANGED <<index, put, pruning, faults>>

\* ... and writes it in one go: into nowhere, if the name is gone by then.
WriteFile(c) ==
    /\ pc[c] = "writing"
    /\ file' = [file EXCEPT ![put[c]] = IF @ = "none" THEN "none" ELSE "whole"]
    /\ pc' = [pc EXCEPT ![c] = "written"]
    /\ UNCHANGED <<index, aged, put, risked, pruning, faults>>

Idle(c) ==
    /\ pc' = [pc EXCEPT ![c] = "idle"]
    /\ put' = [put EXCEPT ![c] = NoDigest]

\* _record commits the row.
Record(c, i) ==
    /\ pc[c] = "written" /\ i \notin Rows
    /\ digest' = [digest EXCEPT ![i] = put[c]]
    /\ Idle(c)
    /\ UNCHANGED <<expired, store, risked, pruning, faults>>

\* `tubedepth collect` has no database.
Unrecorded(c) ==
    /\ pc[c] = "written"
    /\ Idle(c)
    /\ UNCHANGED <<index, store, risked, pruning, faults>>

\* Whether another collector or a row relies on the file c is writing.
Wanted(c) ==
    \/ put[c] \in Referenced
    \/ \E k \in Collectors \ {c} : pc[k] \in {"writing", "written"} /\ put[k] = put[c]

CrashCollector(c) ==
    /\ pc[c] # "idle"
    /\ faults < MaxFaults /\ faults' = faults + 1
    /\ risked' = IF pc[c] = "writing" /\ Wanted(c)
                  THEN risked \cup {put[c]} ELSE risked
    /\ Idle(c)
    /\ UNCHANGED <<index, store, pruning>>

-----------------------------------------------------------------------------
(* RetentionService.prune *)

\* _refuse_to_sweep_without_an_index, in a session of its own.
StartPrune ==
    /\ ppc = "idle"
    /\ Forced \/ Rows # {} \/ Stored = {}
    /\ ppc' = "started"
    /\ risked' = risked \cup {put[c] : c \in {k \in Collectors :
                                 pc[k] \in {"writing", "written"} /\ put[k] \in Referenced}}
    /\ UNCHANGED <<index, store, pc, put, expiring, live, doomed, unswept,
                   surviving, swept, faults>>

Surviving == Cardinality(Rows \ expired)
Orphans == {d \in Stored \ Referenced : d \in aged}

\* Mutants of the definitions that follow each: bugs the properties must find.
DisproportionateBeforeAging ==
    /\ ~Forced
    /\ Orphans # {} /\ Cardinality(Orphans) >= AtLeastOne(Cardinality(Rows))

\* _refuse_to_sweep_disproportionately.
Disproportionate ==
    /\ ~Forced
    /\ Orphans # {} /\ Cardinality(Orphans) >= AtLeastOne(Surviving)

Live == {digest[i] : i \in Rows \ expired}
DoomedThoughShared == {digest[i] : i \in Rows \cap expired}
Doomed == {digest[i] : i \in Rows \cap expired} \ Live

\* The session of prune reads the artifacts and judges every one of them.
Judge ==
    /\ ppc = "started" /\ ~Disproportionate
    /\ expiring' = Rows \cap expired
    /\ live' = Live /\ doomed' = Doomed
    /\ surviving' = Surviving /\ swept' = 0
    /\ ppc' = "judged"
    /\ UNCHANGED <<index, store, collecting, unswept, faults>>

RefusePrune ==
    /\ ppc = "started" /\ Disproportionate
    /\ ppc' = "idle"
    /\ UNCHANGED <<index, store, collecting, expiring, live, doomed, unswept,
                   surviving, swept, faults>>

\* It commits the deletion of the expired rows.
CommitDeletes ==
    /\ ppc = "judged"
    /\ digest' = [i \in Ids |-> IF i \in expiring THEN NoDigest ELSE digest[i]]
    /\ expired' = expired \ expiring
    /\ ppc' = "unlinking"
    /\ UNCHANGED <<store, collecting, expiring, live, doomed, unswept, surviving,
                   swept, faults>>

Remove(d) == file' = [file EXCEPT ![d] = "none"] /\ aged' = aged \ {d}

\* Only then their files, one by one ...
Unlink(d) ==
    /\ ppc = "unlinking" /\ d \in doomed
    /\ Remove(d)
    /\ doomed' = doomed \ {d}
    /\ UNCHANGED <<index, collecting, ppc, expiring, live, unswept, surviving,
                   swept, faults>>

\* ... and after those _sweep_orphans walks the store.
StartSweep ==
    /\ ppc = "unlinking" /\ doomed = {}
    /\ unswept' = Stored
    /\ ppc' = "sweeping"
    /\ UNCHANGED <<index, store, collecting, expiring, live, doomed, surviving,
                   swept, faults>>

SweepableWithoutGrace(d) == d \notin live
SweepableNever(d) == FALSE
Sweepable(d) == d \notin live /\ d \in aged

Sweep(d) ==
    /\ ppc = "sweeping" /\ d \in unswept
    /\ IF Sweepable(d)
         THEN Remove(d) /\ swept' = swept + 1
         ELSE UNCHANGED <<store, swept>>
    /\ unswept' = unswept \ {d}
    /\ UNCHANGED <<index, collecting, ppc, expiring, live, doomed, surviving, faults>>

Forget ==
    /\ ppc' = "idle" /\ expiring' = {} /\ live' = {} /\ doomed' = {} /\ unswept' = {}
    /\ surviving' = 0 /\ swept' = 0

EndPrune ==
    /\ ppc = "sweeping" /\ unswept = {}
    /\ Forget
    /\ UNCHANGED <<index, store, collecting, faults>>

\* The process is killed, or its commit fails: nothing uncommitted remains.
CrashPrune ==
    /\ ppc # "idle" /\ faults < MaxFaults
    /\ faults' = faults + 1
    /\ Forget
    /\ UNCHANGED <<index, store, collecting>>

-----------------------------------------------------------------------------

Collecting(c) ==
    \/ \E d \in Digests : Fetch(c, d)
    \/ OpenFile(c) \/ WriteFile(c) \/ Unrecorded(c)
    \/ \E i \in Ids : Record(c, i)

Finishing(c) == OpenFile(c) \/ WriteFile(c) \/ Unrecorded(c) \/ \E i \in Ids : Record(c, i)

Pruning ==
    \/ Judge \/ RefusePrune \/ CommitDeletes \/ StartSweep \/ EndPrune
    \/ \E d \in Digests : Unlink(d) \/ Sweep(d)

Next ==
    \/ \E i \in Ids : AgeRow(i)
    \/ \E d \in Digests : AgeFile(d)
    \/ \E c \in Collectors : Collecting(c) \/ CrashCollector(c)
    \/ StartPrune \/ Pruning \/ CrashPrune

Spec == Init /\ [][Next]_vars

\* A prune is started again and again and runs to its end; collections end.
FairSpec ==
    /\ Spec
    /\ SF_vars(StartPrune) /\ WF_vars(Pruning)
    /\ \A c \in Collectors : WF_vars(Finishing(c))

-----------------------------------------------------------------------------

\* The types of the state.
TypeOK ==
    /\ digest \in [Ids -> Digests \cup {NoDigest}] /\ expired \subseteq Ids
    /\ file \in [Digests -> {"none", "torn", "whole"}] /\ aged \subseteq Digests
    /\ pc \in [Collectors -> {"idle", "fetched", "writing", "written"}]
    /\ put \in [Collectors -> Digests \cup {NoDigest}]
    /\ ppc \in {"idle", "started", "judged", "unlinking", "sweeping"}
    /\ expiring \subseteq Ids /\ live \subseteq Digests /\ doomed \subseteq Digests
    /\ unswept \subseteq Digests /\ surviving \in Nat /\ swept \in Nat
    /\ risked \subseteq Digests /\ faults \in Nat

Readable(d) ==
    \/ file[d] = "whole"
    \/ file[d] = "torn" /\ \E c \in Collectors : pc[c] = "writing" /\ put[c] = d

\* Every row has its payload, through crashes of either side, rows that share a
\* file and collections during a prune, unless that payload was put again over a
\* file that was there while a prune ran or by a collector that was killed
\* while it wrote: a first write is covered by the grace period.
RowsKeepPayloads == \A i \in Rows : digest[i] \in risked \/ Readable(digest[i])

\* A prune sweeps fewer orphans than the rows it leaves, and none from an index
\* it leaves empty: a store that lost its index loses no payload.
SweepIsProportionate == ~Forced /\ swept > 0 => swept < AtLeastOne(surviving)

\* A payload nothing points at is removed in the end, the debris of a crash
\* between the row deletions and the unlinks included, unless a row comes to
\* point at it or prune has to refuse.
OrphansGo ==
    \A d \in Digests : d \in Orphans ~> d \notin Orphans \/ Disproportionate \/ Rows = {}
=============================================================================
