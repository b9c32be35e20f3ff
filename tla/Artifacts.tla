------------------------------ MODULE Artifacts ------------------------------
(***************************************************************************)
(* How the results of the pipeline reach the readers of the API.  The      *)
(* pipeline stages the files of a run, verifies them and moves them into   *)
(* place one at a time (pipeline/service.py).  The API keeps the tables of *)
(* the files in memory and loads them again when a signature of the files  *)
(* has changed (services/artifacts.py).  The content of a file is the run  *)
(* that wrote it; the loading of a file is one step, so a reader meets the *)
(* pipeline between any two of them.                                       *)
(***************************************************************************)
EXTENDS Integers, FiniteSets

CONSTANTS
  Files,      \* the files an instance tells apart
  Threads,    \* request threads of the API process
  NoThread,   \* nobody holds the lock of the store
  RawEdges,   \* is there a data/edges.parquet?
  MaxRuns,    \* bound: runs of the pipeline
  MaxFaults   \* bound: reads that fail although the file is there

\* Variation: the output directory in the order of the names alone.
PublicationRankByName ==
  [edges_enriched |-> 1, node_features |-> 2, clusters |-> 3, nodes_roles |-> 4,
   resilience |-> 5, run_manifest |-> 6, summary |-> 7, top_nodes |-> 8,
   validation_report |-> 9]

\* The order in which a run's files are moved: the artifacts directory by name,
\* then the output directory by name with the manifest at its end.
PublicationRank ==
  [edges_enriched |-> 1, node_features |-> 2, clusters |-> 3, nodes_roles |-> 4,
   resilience |-> 5, summary |-> 6, top_nodes |-> 7, validation_report |-> 8,
   run_manifest |-> 9]

\* The files whose size and time make up the signature, in the order of the code.
SignRank ==
  [nodes_roles |-> 1, top_nodes |-> 2, clusters |-> 3, resilience |-> 4,
   node_features |-> 5, edges_enriched |-> 6, raw_edges |-> 7]

\* The order in which a refresh reads the files.
ReadRank ==
  [nodes_roles |-> 1, node_features |-> 2, edges_enriched |-> 3, clusters |-> 4,
   top_nodes |-> 5, resilience |-> 6]

\* The files each table is made of.
Tables == {{"nodes_roles", "node_features"}, {"edges_enriched"}, {"clusters"},
           {"top_nodes"}, {"resilience"}}

Published == Files \ {"raw_edges"}
Loaded == Files \cap DOMAIN ReadRank

\* Variation: the enriched edges are missing from the signature.
SignedButEdges == Files \cap (DOMAIN SignRank \ {"edges_enriched"})
Signed == Files \cap DOMAIN SignRank

ASSUME ArtifactsAssumption ==
  /\ {"nodes_roles", "edges_enriched", "raw_edges", "run_manifest"} \subseteq Files
  /\ Published \subseteq DOMAIN PublicationRank
  /\ NoThread \notin Threads
  /\ RawEdges \in BOOLEAN
  /\ MaxRuns \in Nat /\ MaxFaults \in Nat

\* The next of the files that remain.
First(remaining, rank) ==
  {f \in remaining : \A g \in remaining : rank[f] <= rank[g]}

VARIABLES
  disk,      \* the run that wrote each file, 0 where there is none
  pipeline,  \* what the run in progress is doing
  recorded,  \* runs with a row in the database
  tables,    \* the run each file of the tables was read from
  signature, \* _signature
  version,   \* _version
  lock,      \* _lock
  thread,    \* what each request thread is doing
  faults     \* reads that have failed

pipelineVars == <<disk, pipeline, recorded>>
storeVars == <<tables, signature, version, lock>>
artifactVars == <<disk, pipeline, recorded, tables, signature, version, lock,
                  thread, faults>>

\* A thread's call of the store: its stage and the locals of refresh.
Requests ==
  [stage : {"idle", "called", "signing", "loading", "refreshed", "raised"},
   asked : [Loaded -> Nat], signed : [Signed -> Nat], unsigned : SUBSET Signed,
   read : [Loaded -> Nat], unread : SUBSET Loaded]

Idle ==
  [stage |-> "idle", asked |-> [f \in Loaded |-> 0],
   signed |-> [f \in Signed |-> 0], unsigned |-> {},
   read |-> [f \in Loaded |-> 0], unread |-> {}]

Init ==
  /\ disk = [f \in Files |-> IF f = "raw_edges" /\ RawEdges THEN 1 ELSE 0]
  /\ pipeline = [run |-> 0, stage |-> "idle", unpublished |-> {}]
  /\ recorded = {}
  /\ tables = [f \in Loaded |-> 0]
  /\ signature = [f \in Signed |-> 0]
  /\ version = 0
  /\ lock = NoThread
  /\ thread = [t \in Threads |-> Idle]
  /\ faults = 0

-----------------------------------------------------------------------------
(* The pipeline.                                                           *)

\* A run computes its results and stages them in temporary directories.
StageRun ==
  /\ pipeline.stage = "idle"
  /\ pipeline.run < MaxRuns
  /\ pipeline' = [run |-> pipeline.run + 1, stage |-> "staged", unpublished |-> {}]
  /\ UNCHANGED <<disk, recorded, storeVars, thread, faults>>

\* The staged files have passed verify_outputs.
StartPublishing ==
  /\ pipeline.stage = "staged"
  /\ pipeline' = [pipeline EXCEPT !.stage = "publishing", !.unpublished = Published]
  /\ UNCHANGED <<disk, recorded, storeVars, thread, faults>>

\* One os.replace of _publish.
PublishFile ==
  /\ pipeline.stage = "publishing"
  /\ \E f \in First(pipeline.unpublished, PublicationRank) :
       /\ disk' = [disk EXCEPT ![f] = pipeline.run]
       /\ pipeline' = [pipeline EXCEPT !.unpublished = @ \ {f}]
  /\ UNCHANGED <<recorded, storeVars, thread, faults>>

\* The run is written to the database after its files are in place.
RecordRun ==
  /\ pipeline.stage = "publishing"
  /\ pipeline.unpublished = {}
  /\ recorded' = recorded \cup {pipeline.run}
  /\ pipeline' = [pipeline EXCEPT !.stage = "idle"]
  /\ UNCHANGED <<disk, storeVars, thread, faults>>

\* The run ends early: verification rejects the files, a move or the database
\* fails, there is no database, or the process dies.
EndRun ==
  /\ pipeline.stage # "idle"
  /\ pipeline' = [pipeline EXCEPT !.stage = "idle", !.unpublished = {}]
  /\ UNCHANGED <<disk, recorded, storeVars, thread, faults>>

Pipeline == StageRun \/ StartPublishing \/ PublishFile \/ RecordRun \/ EndRun

-----------------------------------------------------------------------------
(* The store.                                                              *)

\* A request calls a getter, or /health calls refresh.
Call(t) ==
  /\ thread[t].stage = "idle"
  /\ thread' = [thread EXCEPT ![t].stage = "called",
                              ![t].asked = [f \in Loaded |-> disk[f]]]
  /\ UNCHANGED <<pipelineVars, storeVars, faults>>

Acquire(t) ==
  /\ thread[t].stage = "called"
  /\ lock = NoThread
  /\ lock' = t
  /\ thread' = [thread EXCEPT ![t].stage = "signing", ![t].unsigned = Signed]
  /\ UNCHANGED <<pipelineVars, tables, signature, version, faults>>

\* One stat of _file_signature.
SignFile(t) ==
  /\ thread[t].stage = "signing"
  /\ \E f \in First(thread[t].unsigned, SignRank) :
       thread' = [thread EXCEPT ![t].signed[f] = disk[f], ![t].unsigned = @ \ {f}]
  /\ UNCHANGED <<pipelineVars, storeVars, faults>>

HasSigned(t) == thread[t].stage = "signing" /\ thread[t].unsigned = {}

\* The thread leaves the lock.
Leave(t, stage) ==
  /\ lock' = NoThread
  /\ thread' = [thread EXCEPT ![t] = [Idle EXCEPT !.stage = stage, !.asked = thread[t].asked]]

\* Nothing has changed since the last load.
UpToDate(t) ==
  /\ HasSigned(t)
  /\ thread[t].signed = signature
  /\ Leave(t, "refreshed")
  /\ UNCHANGED <<pipelineVars, tables, signature, version, faults>>

\* Variation: the new signature is stored before the files are loaded.
StartLoadingSigned(t) ==
  /\ HasSigned(t)
  /\ thread[t].signed # signature
  /\ signature' = thread[t].signed
  /\ thread' = [thread EXCEPT ![t].stage = "loading", ![t].unread = Loaded]
  /\ UNCHANGED <<pipelineVars, tables, version, lock, faults>>

StartLoading(t) ==
  /\ HasSigned(t)
  /\ thread[t].signed # signature
  /\ thread' = [thread EXCEPT ![t].stage = "loading", ![t].unread = Loaded]
  /\ UNCHANGED <<pipelineVars, storeVars, faults>>

\* Without the roles there are no nodes; the edges may come from the input data.
Readable(f) ==
  CASE f = "nodes_roles" -> disk[f] > 0
    [] f = "edges_enriched" -> disk[f] > 0 \/ disk["raw_edges"] > 0
    [] OTHER -> TRUE

\* The tables after the file f has been read: a table is replaced when its last
\* file has been.
WithTableOf(f, read, unread) ==
  [g \in Loaded |->
     IF \E files \in Tables : f \in files /\ g \in files /\ files \cap unread = {}
     THEN read[g] ELSE tables[g]]

LoadFile(t) ==
  /\ thread[t].stage = "loading"
  /\ \E f \in First(thread[t].unread, ReadRank) :
       LET read == [thread[t].read EXCEPT ![f] = disk[f]]
           unread == thread[t].unread \ {f}
       IN  /\ Readable(f)
           /\ tables' = WithTableOf(f, read, unread)
           /\ thread' = [thread EXCEPT ![t].read = read, ![t].unread = unread]
  /\ UNCHANGED <<pipelineVars, signature, version, lock, faults>>

\* A file is missing or its read fails: the exception leaves the lock, and what
\* was loaded before it stays.
LoadFails(t) ==
  /\ thread[t].stage = "loading"
  /\ \E f \in First(thread[t].unread, ReadRank) :
       \/ ~ Readable(f) /\ UNCHANGED faults
       \/ Readable(f) /\ faults < MaxFaults /\ faults' = faults + 1
  /\ Leave(t, "raised")
  /\ UNCHANGED <<pipelineVars, tables, signature, version>>

\* Variation: the signature is read when the load is done.
FinishLoadingSigning(t) ==
  /\ thread[t].stage = "loading"
  /\ thread[t].unread = {}
  /\ signature' = [f \in Signed |-> disk[f]]
  /\ version' = version + 1
  /\ Leave(t, "refreshed")
  /\ UNCHANGED <<pipelineVars, tables, faults>>

\* Everything is loaded: the signature that was read before the load is stored.
FinishLoading(t) ==
  /\ thread[t].stage = "loading"
  /\ thread[t].unread = {}
  /\ signature' = thread[t].signed
  /\ version' = version + 1
  /\ Leave(t, "refreshed")
  /\ UNCHANGED <<pipelineVars, tables, faults>>

\* The getter reads its table, without the lock, and returns; or the error is
\* reported.
Return(t) ==
  /\ thread[t].stage \in {"refreshed", "raised"}
  /\ thread' = [thread EXCEPT ![t] = Idle]
  /\ UNCHANGED <<pipelineVars, storeVars, faults>>

Refresh(t) ==
  \/ Acquire(t) \/ SignFile(t) \/ UpToDate(t) \/ StartLoading(t)
  \/ LoadFile(t) \/ LoadFails(t) \/ FinishLoading(t)

Next == Pipeline \/ \E t \in Threads : Call(t) \/ Refresh(t) \/ Return(t)

Spec == Init /\ [][Next]_artifactVars

\* A thread that has entered a getter goes on, and /health is asked again and
\* again (docker-compose.yml:98). The pipeline owes nothing.
Fairness == \A t \in Threads : WF_artifactVars(Call(t) \/ Refresh(t) \/ Return(t))

FairSpec == Spec /\ Fairness

-----------------------------------------------------------------------------
(* Properties.                                                             *)

\* Each variable has its type; the lock is held by the thread that refreshes.
TypeOK ==
  /\ disk \in [Files -> Nat]
  /\ pipeline \in [run : 0..MaxRuns, stage : {"idle", "staged", "publishing"},
                   unpublished : SUBSET Published]
  /\ recorded \subseteq 0..MaxRuns
  /\ tables \in [Loaded -> Nat]
  /\ signature \in [Signed -> Nat]
  /\ version \in Nat
  /\ lock \in Threads \cup {NoThread}
  /\ thread \in [Threads -> Requests]
  /\ faults \in 0..MaxFaults
  /\ \A t \in Threads : lock = t <=> thread[t].stage \in {"signing", "loading"}

\* The manifest is never ahead of the files it describes: whoever finds the
\* manifest of a run finds every file of it, or of a later one (manifest_last in
\* _publish), whatever runs died before.
ManifestMeansComplete ==
  \A f \in Published : disk[f] >= disk["run_manifest"]

\* A run of the run history has published all its files (create_run comes after
\* _publish in run_analysis).
RecordedRunsWerePublished ==
  \A r \in recorded, f \in Published : disk[f] >= r

\* When the stored signature is that of the files, the tables are those of the
\* files: a refresh that finds nothing to do has nothing to do. This relies on the
\* signature being read before the files, and on a failed load keeping the old one.
StoreMatchesSignature ==
  (\A f \in Signed : signature[f] = disk[f]) => \A f \in Loaded : tables[f] = disk[f]

\* A getter answers from files at least as new as those on disk when it was called,
\* whatever other threads load, and fail to load, meanwhile.
AnswerIsFresh(t) ==
  thread[t].stage = "refreshed" => \A f \in Loaded : tables[f] >= thread[t].asked[f]

AnswersAreFresh == \A t \in Threads : AnswerIsFresh(t)

\* A getter does not answer before there is a result: a missing result is an
\* ArtifactUnavailableError (services/artifacts.py:15).
NothingServedTooEarly ==
  \A t \in Threads : thread[t].stage = "refreshed" => tables["nodes_roles"] > 0

\* No table is ever replaced by an older one.
TablesNeverGoBack ==
  [][\A f \in Loaded : tables'[f] >= tables[f]]_artifactVars

\* Once the pipeline has come to rest, whether it completed or died between two
\* files, the store comes to hold what is on disk, unless there are no roles at all.
StoreCatchesUp ==
  <>[](disk["nodes_roles"] > 0 => \A f \in Loaded : tables[f] = disk[f])

-----------------------------------------------------------------------------
(* Why they hold: the parts of the inductive invariant.                     *)

\* No file is newer than the run in progress; of a run that is being published,
\* the files that are not left to move are in place.
PublicationInOrder ==
  /\ pipeline.stage # "idle" => pipeline.run > 0
  /\ \A f \in Published : disk[f] <= pipeline.run
  /\ pipeline.stage = "publishing" =>
       \A f \in Published \ pipeline.unpublished : disk[f] = pipeline.run

\* What a table was read from lies between what the signature saw and the disk.
TablesInBetween ==
  \A f \in Loaded : signature[f] <= tables[f] /\ tables[f] <= disk[f]

Complete(f, unread) == \E files \in Tables : f \in files /\ files \cap unread = {}

\* What a thread has asked for, signed and read is in this order.
ReadingInOrder(t) ==
  \A f \in Loaded :
    LET r == thread[t] IN
    /\ r.asked[f] <= disk[f]
    /\ r.stage = "signing" /\ f \notin r.unsigned =>
         r.asked[f] <= r.signed[f] /\ r.signed[f] <= disk[f]
    /\ r.stage = "loading" =>
         /\ r.asked[f] <= r.signed[f] /\ r.signed[f] <= disk[f]
         /\ f \notin r.unread =>
              r.signed[f] <= r.read[f] /\ tables[f] <= r.read[f] /\ r.read[f] <= disk[f]
         /\ Complete(f, r.unread) => tables[f] = r.read[f]

ReadingsInOrder == \A t \in Threads : ReadingInOrder(t)

\* A new signature is no older than the one it replaces, and a thread whose refresh is
\* over has asked for nothing that the signature has not seen.
SignatureInOrder(t) ==
  \A f \in Loaded :
    LET r == thread[t] IN
    /\ r.stage = "loading" \/ (r.stage = "signing" /\ f \notin r.unsigned) =>
         signature[f] <= r.signed[f]
    /\ r.stage = "refreshed" => r.asked[f] <= signature[f]

SignaturesInOrder == \A t \in Threads : SignatureInOrder(t)

ArtifactsInv ==
  /\ TypeOK
  /\ PublicationInOrder
  /\ ManifestMeansComplete
  /\ RecordedRunsWerePublished
  /\ TablesInBetween
  /\ ReadingsInOrder
  /\ AnswersAreFresh

\* A thread that has signed the input data serves only roles it has found.
RolesSeen(t) ==
  /\ thread[t].stage = "signing" /\ "raw_edges" \notin thread[t].unsigned =>
       thread[t].signed["raw_edges"] > 0
  /\ thread[t].stage = "loading" =>
       /\ thread[t].signed["raw_edges"] > 0
       /\ "nodes_roles" \notin thread[t].unread => thread[t].read["nodes_roles"] > 0
  /\ thread[t].stage = "refreshed" => tables["nodes_roles"] > 0

\* Where there is input data, a stored signature is that of loaded roles.
RolesBehindSignature ==
  RawEdges =>
    /\ disk["raw_edges"] > 0
    /\ signature["raw_edges"] > 0 => tables["nodes_roles"] > 0
    /\ \A t \in Threads : RolesSeen(t)

-----------------------------------------------------------------------------
(* What the code does not keep.                                            *)

\* A request is answered from the results of one run, as the architecture promises
\* of a completed one (docs/architecture.md:122): no table is older than another.
ServesOneRun ==
  \A t \in Threads : thread[t].stage = "refreshed" =>
    \E r \in 0..MaxRuns : \A f \in Loaded : tables[f] = r

=============================================================================
