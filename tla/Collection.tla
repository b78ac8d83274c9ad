----------------------------- MODULE Collection -----------------------------
(***************************************************************************)
(* One collection path and four ways to read what it stored.               *)
(*                                                                         *)
(* Workers run CollectionService.collect: a fresh artifact answers, or the *)
(* source is asked, the payload put and its row recorded; a composite is   *)
(* assembled from parts collected the same way (collection.py).  Clients   *)
(* read through the API: a submission answered from the cache, a payload   *)
(* by digest, a job's result, and the pages of GET /v1/artifacts           *)
(* (api/application.py).  Meanwhile prune deletes old rows and then their  *)
(* files, and `backfill-schema-versions` names the version of rows written *)
(* before the column existed.                                              *)
(*                                                                         *)
(* One target is modelled; a payload is a digest, that of a composite the  *)
(* set of the digests it was made of.  Time counts freshness windows.      *)
(* What a put and a prune do to a file in detail is the subject of         *)
(* PayloadRetention.                                                       *)
(***************************************************************************)
EXTENDS Integers, Sequences, FiniteSets

CONSTANTS Ids,         \* identifiers of artifact rows, ordered as their text is
          Old,         \* those that rows written before the version column may have
          Workers,
          Kinds, Asked,      \* every kind, and those that jobs ask for
          Parts,       \* Parts[k], the kinds a composite k is made of
          Current,     \* Current[k], the schema_version of this build
          Previous,    \* Previous[k], PREVIOUS_VERSIONS: a sequence
          Retracted,   \* Retracted[k], the versions whose payloads are wrong
          Yields,      \* Yields[k][v], the digests version v of k may produce
          Misfits,     \* those of an earlier build that this build does not parse
          Freshness, MaximumAge,   \* in ticks
          BATCH, MAXIMUM_PAGE,     \* rows of a back-fill commit, and of a page
          Horizon,     \* bound on the clock
          NoKind, NoDigest, Unrecorded

Earlier(k) == {Previous[k][n] : n \in DOMAIN Previous[k]}
\* Every version that a kind has had.
Candidates(k) == Earlier(k) \cup {Current[k]}

ASSUME CollectionConstantsOK ==
    /\ Ids \subseteq Nat /\ IsFiniteSet(Ids) /\ Old \subseteq Ids
    /\ Asked \subseteq Kinds /\ NoKind \notin Kinds
    /\ Parts \in [Kinds -> Seq(Kinds)]
    /\ \A k \in Kinds : /\ \A n \in DOMAIN Parts[k] : Parts[Parts[k][n]] = <<>>
                        /\ Retracted[k] \subseteq Earlier(k) \ {Current[k]}
                        /\ DOMAIN Yields[k] = Candidates(k)
    /\ Freshness \in Nat \ {0} /\ MaximumAge \in Nat /\ MaximumAge >= Freshness
    /\ BATCH \in Nat \ {0} /\ MAXIMUM_PAGE \in Nat \ {0} /\ Horizon \in Nat

VARIABLES clock,
          row,       \* row[i], kept after the row is deleted (history)
          there,     \* the rows the index holds
          file,      \* the digests the payload store holds
          worker,    \* the execution each worker thread is in
          doomed,    \* files a prune has still to unlink
          naming,    \* what a back-fill has still to write: <<row, version>>
          client     \* the request a client is in

index == <<row, there>>
collectionVars == <<clock, index, file, worker, doomed, naming, client>>

Idle == [pc |-> "idle", asked |-> NoKind, kind |-> NoKind, todo |-> <<>>, got |-> {},
         digest |-> NoDigest, at |-> 0, raced |-> FALSE]
Quiet == [pc |-> "idle", kind |-> NoKind, digest |-> NoDigest, raced |-> FALSE,
          status |-> 0, seen |-> <<>>, must |-> {}]

-----------------------------------------------------------------------------
(* The index and the cache key *)

\* Kind and version, of the one target: fingerprints.fingerprint.
Fingerprint(k, v) == <<k, v>>

Artifact(k, v, column, d, at) ==
    [kind |-> k, key |-> Fingerprint(k, v), origin |-> v, version |-> column,
     digest |-> d, at |-> at]
\* An identifier that is not used yet.
NoRow == Artifact(NoKind, Unrecorded, Unrecorded, NoDigest, 0)

Newest(S) == {i \in S : \A j \in S : row[j].at <= row[i].at}
IsFresh(i) == clock < row[i].at + Freshness

\* ArtifactRepository.fresh: any of the newest, if instants are equal.
FreshRows(k) ==
    Newest({i \in there : row[i].key = Fingerprint(k, Current[k]) /\ IsFresh(i)})

Recorded == {i \in Ids : row[i] # NoRow}
Digests == {row[i].digest : i \in Recorded}

\* The index may hold rows of any version of a kind that do not name it.
CollectionInit ==
    /\ clock = 0
    /\ row \in [Ids -> {NoRow} \cup UNION {UNION {
                 {Artifact(k, v, Unrecorded, d, 0) : d \in Yields[k][v]} :
                    v \in Candidates(k)} : k \in {k \in Asked : Parts[k] = <<>>}}]
    /\ Recorded \subseteq Old /\ there = Recorded
    /\ file = Digests
    /\ worker = [w \in Workers |-> Idle]
    /\ doomed = {} /\ naming = {}
    /\ client = Quiet

-----------------------------------------------------------------------------
(* Time and retention *)

Tick ==
    /\ clock < Horizon /\ clock' = clock + 1
    /\ UNCHANGED <<index, file, worker, doomed, naming, client>>

Expired == {i \in there : clock > row[i].at + MaximumAge}

\* prune up to the commit that deletes the expired rows, and the files whose
\* last row went with them.
PruneRows ==
    /\ doomed = {} /\ Expired # {}
    /\ there' = there \ Expired
    /\ doomed' = {row[i].digest : i \in Expired} \ {row[i].digest : i \in there'}
    /\ client' = [client EXCEPT !.must = @ \ Expired]
    /\ UNCHANGED <<clock, row, file, worker, naming>>

\* A reader between its look at a file and its last read of it.
Marked(r, d) ==
    IF r.pc \in {"read", "reread"} /\ r.digest = d THEN [r EXCEPT !.raced = TRUE] ELSE r

\* Then prune unlinks the files.
Unlink(d) ==
    /\ d \in doomed
    /\ doomed' = doomed \ {d}
    /\ file' = file \ {d}
    /\ worker' = [w \in Workers |-> Marked(worker[w], d)]
    /\ client' = Marked(client, d)
    /\ UNCHANGED <<clock, index, naming>>

-----------------------------------------------------------------------------
(* CollectionService.collect, in a worker thread *)

World == <<clock, doomed, naming, client>>

Goes(w, to) == worker' = [worker EXCEPT ![w] = to]

\* A submission that asked for a refresh skips the lookup.
Start(w, k, refresh) ==
    /\ worker[w].pc = "idle"
    /\ Goes(w, [Idle EXCEPT !.asked = k, !.kind = k,
                             !.pc = IF refresh THEN "miss" ELSE "lookup"])
    /\ UNCHANGED <<World, index, file>>

\* _cached reads the index in a session of its own ...
Lookup(w) ==
    LET k == worker[w].kind IN
    /\ worker[w].pc = "lookup"
    /\ \/ /\ FreshRows(k) = {}
          /\ Goes(w, [worker[w] EXCEPT !.pc = "miss"])
       \/ \E i \in FreshRows(k) :
             Goes(w, [worker[w] EXCEPT !.pc = "look", !.digest = row[i].digest])
    /\ UNCHANGED <<World, index, file>>

\* Mutants of the definitions that follow each: bugs the properties must find.
LooksAnyway(d) == TRUE
\* PayloadStore.path_for: the row may outlive its file.
Looks(d) == d \in file

\* ... then whether the file is there ...
Look(w) ==
    /\ worker[w].pc = "look"
    /\ Goes(w, [worker[w] EXCEPT !.pc = IF Looks(worker[w].digest) THEN "read" ELSE "miss"])
    /\ UNCHANGED <<World, index, file>>

\* What collect returned joins a bundle, or is the result of the job.
Got(r) ==
    IF r.kind = r.asked THEN Idle
    ELSE [r EXCEPT !.pc = "part", !.got = @ \cup {r.digest}, !.todo = Tail(@)]

\* ... and reads it.  A misfit is a miss; a missing file fails the whole job.
Read(w) ==
    LET r == worker[w] IN
    /\ r.pc = "read"
    /\ Goes(w, IF r.digest \notin file THEN [r EXCEPT !.pc = "lost"]
               ELSE IF r.digest \in Misfits THEN [r EXCEPT !.pc = "miss"]
               ELSE Got(r))
    /\ UNCHANGED <<World, index, file>>

Miss(w) ==
    LET r == worker[w] IN
    /\ r.pc = "miss"
    /\ Goes(w, IF Parts[r.kind] = <<>> THEN [r EXCEPT !.pc = "fetch", !.digest = NoDigest]
               ELSE [r EXCEPT !.pc = "part", !.todo = Parts[r.kind], !.digest = NoDigest])
    /\ UNCHANGED <<World, index, file>>

\* The source answers, and its payload is put.
Fetch(w, d) ==
    LET r == worker[w] IN
    /\ r.pc = "fetch" /\ d \in Yields[r.kind][Current[r.kind]] \ Misfits
    /\ file' = file \cup {d}
    /\ Goes(w, [r EXCEPT !.pc = "record", !.digest = d])
    /\ UNCHANGED <<World, index>>

\* A part that fails is a degradation of the bundle.
FetchFails(w) ==
    LET r == worker[w] IN
    /\ r.pc = "fetch"
    /\ Goes(w, IF r.kind = r.asked THEN Idle ELSE [r EXCEPT !.pc = "part", !.todo = Tail(@)])
    /\ UNCHANGED <<World, index, file>>

\* _assemble, between two parts: each is collected as if it had been asked for.
NextPart(w) ==
    LET r == worker[w] IN
    /\ r.pc = "part" /\ r.todo # <<>>
    /\ Goes(w, [r EXCEPT !.pc = "lookup", !.kind = Head(r.todo), !.digest = NoDigest])
    /\ UNCHANGED <<World, index, file>>

\* All parts failing is a failure, and anything else is put as a bundle.
Assemble(w) ==
    LET r == worker[w] IN
    /\ r.pc = "part" /\ r.todo = <<>>
    /\ IF r.got = {} THEN Goes(w, Idle) /\ UNCHANGED file
       ELSE /\ file' = file \cup {r.got}
            /\ Goes(w, [r EXCEPT !.pc = "record", !.kind = r.asked, !.digest = r.got])
    /\ UNCHANGED <<World, index>>

\* ArtifactRepository.record takes the time, and the session commits later.
Stamp(w) ==
    /\ worker[w].pc = "record"
    /\ Goes(w, [worker[w] EXCEPT !.pc = "commit", !.at = clock])
    /\ UNCHANGED <<World, index, file>>

Commit(w, i) ==
    LET r == worker[w] IN
    /\ r.pc = "commit" /\ i \notin Recorded
    /\ row' = [row EXCEPT ![i] =
                 Artifact(r.kind, Current[r.kind], Current[r.kind], r.digest, r.at)]
    /\ there' = there \cup {i}
    /\ Goes(w, Got(r))
    /\ UNCHANGED <<World, file>>

\* A job that failed on a missing file is retried by the queue.
GiveUp(w) ==
    /\ worker[w].pc = "lost" /\ Goes(w, Idle)
    /\ UNCHANGED <<World, index, file>>

Work(w) ==
    \/ \E k \in Asked, refresh \in BOOLEAN : Start(w, k, refresh)
    \/ Lookup(w) \/ Look(w) \/ Read(w) \/ Miss(w)
    \/ FetchFails(w) \/ NextPart(w) \/ Assemble(w) \/ Stamp(w) \/ GiveUp(w)
    \/ \E d \in UNION {Yields[k][Current[k]] : k \in Kinds} : Fetch(w, d)
    \/ \E i \in Ids : Commit(w, i)

-----------------------------------------------------------------------------
(* The routes that hand stored bytes out (api/application.py) *)

Surroundings == <<clock, index, file, worker, doomed, naming>>

\* A request that goes on about the payload d of k, and one that is answered at once.
Begins(k, d, pc) == client' = [Quiet EXCEPT !.kind = k, !.digest = d, !.pc = pc]
Ends(k, d, status) ==
    client' = [Quiet EXCEPT !.kind = k, !.digest = d, !.pc = "answered", !.status = status]
Answers(status) == client' = [client EXCEPT !.pc = "answered", !.status = status]
GoesOn(pc) == client' = [client EXCEPT !.pc = pc]

\* submit_job: the cache as a worker consults it, in the API process.
Submit(k) ==
    /\ client.pc = "idle"
    /\ \/ FreshRows(k) = {} /\ Ends(k, NoDigest, 202)
       \/ \E i \in FreshRows(k) : Begins(k, row[i].digest, "look")
    /\ UNCHANGED Surroundings

SubmitLook ==
    /\ client.pc = "look"
    /\ IF Looks(client.digest) THEN GoesOn("read") ELSE Answers(202)
    /\ UNCHANGED Surroundings

SubmitRead ==
    /\ client.pc = "read"
    /\ IF client.digest \notin file THEN Answers(500)
       ELSE IF client.digest \in Misfits THEN Answers(202) ELSE GoesOn("reread")
    /\ UNCHANGED Surroundings

\* The cache has parsed the payload; the route reads its bytes once more.
SubmitReread ==
    /\ client.pc = "reread"
    /\ Answers(IF client.digest \in file THEN 200 ELSE 500)
    /\ UNCHANGED Surroundings

RefusalOfRecorded(k, version) == IF version \in Retracted[k] THEN 410 ELSE 200
\* _refuse_withdrawn_payload: 409 where the version is not known, 410 where it
\* is retracted, else the payload may be served.
Refusal(k, version) ==
    IF Retracted[k] # {} /\ version = Unrecorded THEN 409
    ELSE IF version \in Retracted[k] THEN 410 ELSE 200

\* read_artifact: the rows of the digest and the gate ...
AskArtifact(d) ==
    LET observed == {i \in there : row[i].digest = d} IN
    /\ client.pc = "idle"
    /\ \/ observed = {} /\ Ends(NoKind, d, 404)
       \/ \E i \in Newest(observed) :
            LET k == row[i].kind
                answer == Refusal(k, row[i].version)
            IN IF answer = 200 THEN Begins(k, d, "bytes") ELSE Ends(k, d, answer)
    /\ UNCHANGED Surroundings

\* ... and then the bytes.
ReadArtifact ==
    /\ client.pc = "bytes"
    /\ Answers(IF client.digest \in file THEN 200 ELSE 404)
    /\ UNCHANGED Surroundings

\* read_result: the bytes of the job's digest, which may be that of any row there
\* has been, for job rows are kept ...
AskResult(i) ==
    /\ client.pc = "idle" /\ i \in Recorded
    /\ IF row[i].digest \in file THEN Begins(row[i].kind, row[i].digest, "gate")
       ELSE Ends(row[i].kind, row[i].digest, 404)
    /\ UNCHANGED Surroundings

\* ... and then the rows of that digest, if any are left, and the gate.
ReadResult ==
    LET observed == {i \in there : /\ row[i].digest = client.digest
                                   /\ row[i].kind = client.kind} IN
    /\ client.pc = "gate"
    /\ \/ observed = {} /\ Answers(Refusal(client.kind, Unrecorded))
       \/ \E i \in Newest(observed) : Answers(Refusal(client.kind, row[i].version))
    /\ UNCHANGED Surroundings

-----------------------------------------------------------------------------
(* GET /v1/artifacts, page after page, as list_jobs pages the jobs *)

\* The order of the pages: newest first, then by identifier.
Precedes(i, j) == row[j].at < row[i].at \/ (row[j].at = row[i].at /\ j < i)

BehindByTimeOnly(i, last) == row[i].at < row[last].at
\* The rows after a cursor, which is the instant and the identifier of a row.
Behind(i, last) == row[i].at < row[last].at \/ (row[i].at = row[last].at /\ i < last)

OpenWalk ==
    /\ client.pc = "idle" /\ client' = [Quiet EXCEPT !.pc = "walk", !.must = there]
    /\ UNCHANGED Surroundings

\* ORDER BY and LIMIT: the first of what is left, in order, and full if some stay behind.
Pages(left) ==
    {page \in UNION {[1..n -> left] : n \in 0..MAXIMUM_PAGE} :
        /\ \A m, n \in DOMAIN page : m < n => Precedes(page[m], page[n])
        /\ \A i \in left \ {page[n] : n \in DOMAIN page} :
              Len(page) = MAXIMUM_PAGE /\ \A n \in DOMAIN page : Precedes(page[n], i)}

\* One row past the limit tells whether there is another page.
NextPage ==
    LET last == client.seen[Len(client.seen)]
        left == IF client.seen = <<>> THEN there ELSE {i \in there : Behind(i, last)}
    IN
    /\ client.pc = "walk"
    /\ \E page \in Pages(left) :
        LET more == \E i \in left : \A n \in DOMAIN page : page[n] # i IN
        client' = [client EXCEPT !.pc = IF more THEN "walk" ELSE "answered",
                                 !.status = IF more THEN 0 ELSE 200, !.seen = @ \o page]
    /\ UNCHANGED Surroundings

Leave ==
    /\ client.pc = "answered" /\ client' = Quiet
    /\ UNCHANGED Surroundings

Ask ==
    \/ \E k \in Asked : Submit(k)
    \/ SubmitLook \/ SubmitRead \/ SubmitReread
    \/ \E d \in Digests : AskArtifact(d)
    \/ \E i \in Ids : AskResult(i)
    \/ ReadArtifact \/ ReadResult \/ OpenWalk \/ NextPage \/ Leave

-----------------------------------------------------------------------------
(* SchemaVersionBackfill.run *)

AttributeCurrent(i) == {Current[row[i].kind]}
\* _attribute: the candidate whose fingerprint agrees with the row's.
Attribute(i) == {v \in Candidates(row[i].kind) : row[i].key = Fingerprint(row[i].kind, v)}

StartBackfill ==
    LET pending == {i \in there : row[i].version = Unrecorded} IN
    /\ naming = {} /\ pending # {}
    /\ naming' = UNION {{<<i, v>> : v \in Attribute(i)} : i \in pending}
    /\ UNCHANGED <<clock, index, file, worker, doomed, client>>

\* One commit names up to BATCH rows, those that are still there.
NameRows ==
    /\ naming # {}
    /\ \E batch \in SUBSET naming :
        /\ Cardinality(batch) = BATCH \/ (batch = naming /\ Cardinality(batch) < BATCH)
        /\ naming' = naming \ batch
        /\ row' = [i \in Ids |->
             LET named == {v \in Candidates(row[i].kind) : <<i, v>> \in batch}
             IN IF i \in there /\ named # {}
                  THEN [row[i] EXCEPT !.version = CHOOSE v \in named : TRUE]
                  ELSE row[i]]
    /\ UNCHANGED <<clock, there, file, worker, doomed, client>>

InterruptBackfill ==
    /\ naming # {} /\ naming' = {}
    /\ UNCHANGED <<clock, index, file, worker, doomed, client>>

-----------------------------------------------------------------------------

CollectionNext ==
    \/ Tick \/ PruneRows \/ \E d \in doomed : Unlink(d)
    \/ \E w \in Workers : Work(w)
    \/ Ask
    \/ StartBackfill \/ NameRows \/ InterruptBackfill

CollectionSpec == CollectionInit /\ [][CollectionNext]_collectionVars

-----------------------------------------------------------------------------

WorkerSteps == {"idle", "lookup", "look", "read", "miss", "fetch", "part", "record",
                "commit", "lost"}
ClientSteps == {"idle", "look", "read", "reread", "bytes", "gate", "walk", "answered"}
Codes == {0, 200, 202, 404, 409, 410, 500}

Versions == UNION {Candidates(k) : k \in Kinds}
\* What the source yields, and the bundles that are made of it.
Produced == UNION {UNION {Yields[k][v] : v \in Candidates(k)} : k \in Kinds}
Bundles == SUBSET Produced
Payloads == Produced \cup Bundles
PayloadOrNot == Payloads \cup {NoDigest}
KindOrNot == Kinds \cup {NoKind}

Rows == [kind : Kinds, key : Kinds \X Versions, origin : Versions,
         version : Versions \cup {Unrecorded}, digest : Payloads, at : Nat]
Executions ==
    [pc : WorkerSteps, asked : KindOrNot, kind : KindOrNot, todo : Seq(Kinds), got : Bundles,
     digest : PayloadOrNot, at : Nat, raced : BOOLEAN]
Readings ==
    [pc : ClientSteps, kind : KindOrNot, digest : PayloadOrNot, raced : BOOLEAN,
     status : Codes, seen : Seq(Ids), must : SUBSET Ids]

\* The types of the state.
CollectionTypeOK ==
    /\ clock \in Nat
    /\ row \in [Ids -> Rows \cup {NoRow}] /\ there \subseteq Recorded
    /\ file \subseteq Payloads /\ doomed \subseteq Payloads
    /\ worker \in [Workers -> Executions]
    /\ naming \subseteq Ids \X Versions
    /\ client \in Readings

\* A payload handed out with a 200, through the cache, by digest or as the result
\* of a job, is one that a version which is not retracted has produced: rows
\* without a version, a back-fill under way or interrupted, rows pruned between
\* the two steps of a route, and digests that two versions share included.
WithdrawnIsNotServed ==
    client.status = 200 /\ client.digest # NoDigest =>
        \E i \in Recorded : /\ row[i].digest = client.digest /\ row[i].kind = client.kind
                            /\ row[i].origin \notin Retracted[row[i].kind]

\* A walk through the pages shows every row that was there all along once, and no
\* row twice, while rows are recorded with instants taken before their commit
\* and others are pruned, the one the cursor names included.
WalkIsExact ==
    /\ \A m, n \in DOMAIN client.seen : client.seen[m] = client.seen[n] => m = n
    /\ client.pc = "answered" =>
          client.must \subseteq {client.seen[n] : n \in DOMAIN client.seen}

\* A cached answer is a 500, or a job fails on a missing file, only when a prune
\* unlinked that file after it had been seen to be there.
FileErrorsNeedAnUnlink ==
    /\ client.status = 500 => client.raced
    /\ \A w \in Workers : worker[w].pc = "lost" => worker[w].raced

\* A version that a row names is the one that produced its payload, named by the
\* worker that recorded it or by a back-fill: a guess would tell readers that a
\* retracted payload is good.
VersionsAreTrue == \A i \in Recorded : row[i].version \in {Unrecorded, row[i].origin}
=============================================================================
