--------------------------- MODULE ArtifactsProofs ---------------------------
(* Proofs about Artifacts and, in the second half, about GraphCache, which *)
(* has its state and its steps, for every value of their constants.        *)
EXTENDS GraphCache, TLAPS

\* Every file that is loaded is in the signature, and only the pipeline's files
\* are published.
LEMMA FileSets ==
  /\ Loaded \subseteq Signed /\ Signed \subseteq Files
  /\ Published \subseteq Files /\ Loaded \subseteq Files
  /\ "raw_edges" \notin Published /\ "raw_edges" \notin Loaded
  /\ "raw_edges" \in Signed
  /\ "nodes_roles" \in Loaded /\ "run_manifest" \in Published
  /\ Loaded \subseteq Published
  BY ArtifactsAssumption DEF Loaded, Signed, Published, SignRank, ReadRank

\* The manifest is the last file to be moved.
LEMMA ManifestLast ==
  ASSUME NEW S \in SUBSET Published, "run_manifest" \in First(S, PublicationRank)
  PROVE  S = {"run_manifest"}
<1>1. \A f \in S : PublicationRank["run_manifest"] <= PublicationRank[f]
  BY DEF First
<1>2. \A f \in DOMAIN PublicationRank :
        PublicationRank["run_manifest"] <= PublicationRank[f] => f = "run_manifest"
  BY DEF PublicationRank
<1>3. S \subseteq DOMAIN PublicationRank
  BY ArtifactsAssumption
<1>4. QED
  BY <1>1, <1>2, <1>3 DEF First

LEMMA IdleTyped == Idle \in Requests
  BY DEF Idle, Requests

\* What a thread of another request does not see: a step of t leaves the others
\* alone and gives t a request.
LEMMA CallStep ==
  ASSUME TypeOK, NEW t \in Threads, Call(t)
  PROVE  /\ thread' \in [Threads -> Requests]
         /\ \A u \in Threads \ {t} : thread'[u] = thread[u]
         /\ thread'[t].stage = "called"
         /\ thread'[t].asked = [f \in Loaded |-> disk[f]]
<1>1. [f \in Loaded |-> disk[f]] \in [Loaded -> Nat]
  BY FileSets DEF TypeOK
<1> DEFINE r == [thread[t] EXCEPT !.stage = "called", !.asked = [f \in Loaded |-> disk[f]]]
<1>2. thread \in [Threads -> Requests]
  BY DEF TypeOK
<1>3. r \in Requests
  BY <1>1, <1>2 DEF Requests
<1>4. r.stage = "called" /\ r.asked = [f \in Loaded |-> disk[f]]
  BY <1>2 DEF Requests
<1>5. thread' = [thread EXCEPT ![t] = r]
  BY DEF Call
<1> HIDE DEF r
<1>6. QED
  BY <1>2, <1>3, <1>4, <1>5

LEMMA AcquireStep ==
  ASSUME TypeOK, NEW t \in Threads, Acquire(t)
  PROVE  /\ thread' \in [Threads -> Requests]
         /\ \A u \in Threads \ {t} : thread'[u] = thread[u]
         /\ thread'[t].stage = "signing"
         /\ thread'[t].unsigned = Signed
         /\ thread'[t].asked = thread[t].asked
<1> DEFINE r == [thread[t] EXCEPT !.stage = "signing", !.unsigned = Signed]
<1>1. thread \in [Threads -> Requests]
  BY DEF TypeOK
<1>2. r \in Requests
  BY <1>1 DEF Requests
<1>3. r.stage = "signing" /\ r.unsigned = Signed /\ r.asked = thread[t].asked
  BY <1>1 DEF Requests
<1>4. thread' = [thread EXCEPT ![t] = r]
  BY DEF Acquire
<1> HIDE DEF r
<1>5. QED
  BY <1>1, <1>2, <1>3, <1>4

LEMMA SignStep ==
  ASSUME TypeOK, NEW t \in Threads, SignFile(t)
  PROVE  \E f \in Signed :
           /\ thread' \in [Threads -> Requests]
           /\ \A u \in Threads \ {t} : thread'[u] = thread[u]
           /\ thread'[t].stage = "signing"
           /\ thread'[t].asked = thread[t].asked
           /\ thread'[t].unsigned = thread[t].unsigned \ {f}
           /\ thread'[t].signed = [thread[t].signed EXCEPT ![f] = disk[f]]
<1>1. PICK f \in thread[t].unsigned :
        thread' = [thread EXCEPT ![t].signed[f] = disk[f], ![t].unsigned = @ \ {f}]
  BY DEF SignFile, First
<1>2. f \in Signed /\ disk[f] \in Nat
  BY FileSets DEF TypeOK, Requests
<1>3. [thread[t].signed EXCEPT ![f] = disk[f]] \in [Signed -> Nat]
  BY <1>2 DEF TypeOK, Requests
<1> DEFINE signed == [thread[t].signed EXCEPT ![f] = disk[f]]
           r == [thread[t] EXCEPT !.signed = signed, !.unsigned = thread[t].unsigned \ {f}]
<1>4. thread \in [Threads -> Requests] /\ thread[t].unsigned \subseteq Signed
  BY DEF TypeOK, Requests
<1>5. thread' = [thread EXCEPT ![t] = r]
  BY <1>1
<1> HIDE DEF signed
<1>6. r \in Requests
  BY <1>3, <1>4 DEF Requests, signed
<1>7. /\ r.stage = thread[t].stage /\ r.asked = thread[t].asked
      /\ r.signed = signed /\ r.unsigned = thread[t].unsigned \ {f}
  BY <1>4 DEF Requests
<1> HIDE DEF r
<1>8. thread[t].stage = "signing"
  BY DEF SignFile
<1>9. QED
  BY <1>2, <1>4, <1>5, <1>6, <1>7, <1>8 DEF signed

\* A thread that leaves the lock keeps only what it asked for.
LEMMA LeaveStep ==
  ASSUME TypeOK, NEW t \in Threads, NEW s \in {"refreshed", "raised"}, Leave(t, s)
  PROVE  /\ thread' \in [Threads -> Requests]
         /\ \A u \in Threads \ {t} : thread'[u] = thread[u]
         /\ thread'[t].stage = s
         /\ thread'[t].asked = thread[t].asked
         /\ lock' = NoThread
  BY IdleTyped DEF TypeOK, Leave, Requests, Idle

LEMMA StartLoadingStep ==
  ASSUME TypeOK, NEW t \in Threads, StartLoading(t)
  PROVE  /\ thread' \in [Threads -> Requests]
         /\ \A u \in Threads \ {t} : thread'[u] = thread[u]
         /\ thread'[t].stage = "loading"
         /\ thread'[t].asked = thread[t].asked
         /\ thread'[t].signed = thread[t].signed
         /\ thread'[t].unread = Loaded
<1> DEFINE r == [thread[t] EXCEPT !.stage = "loading", !.unread = Loaded]
<1>1. thread \in [Threads -> Requests]
  BY DEF TypeOK
<1>2. r \in Requests
  BY <1>1 DEF Requests
<1>3. /\ r.stage = "loading" /\ r.unread = Loaded
      /\ r.asked = thread[t].asked /\ r.signed = thread[t].signed
  BY <1>1 DEF Requests
<1>4. thread' = [thread EXCEPT ![t] = r]
  BY DEF StartLoading
<1> HIDE DEF r
<1>5. QED
  BY <1>1, <1>2, <1>3, <1>4

LEMMA LoadStep ==
  ASSUME TypeOK, NEW t \in Threads, LoadFile(t)
  PROVE  \E f \in Loaded :
           /\ f \in thread[t].unread
           /\ Readable(f)
           /\ thread' \in [Threads -> Requests]
           /\ \A u \in Threads \ {t} : thread'[u] = thread[u]
           /\ thread'[t].stage = "loading"
           /\ thread'[t].asked = thread[t].asked
           /\ thread'[t].signed = thread[t].signed
           /\ thread'[t].unread = thread[t].unread \ {f}
           /\ thread'[t].read = [thread[t].read EXCEPT ![f] = disk[f]]
           /\ tables' = WithTableOf(f, thread'[t].read, thread'[t].unread)
           /\ tables' \in [Loaded -> Nat]
<1>1. PICK f \in thread[t].unread :
        /\ Readable(f)
        /\ tables' = WithTableOf(f, [thread[t].read EXCEPT ![f] = disk[f]],
                                 thread[t].unread \ {f})
        /\ thread' = [thread EXCEPT ![t].read = [thread[t].read EXCEPT ![f] = disk[f]],
                                    ![t].unread = thread[t].unread \ {f}]
  BY DEF LoadFile, First
<1> DEFINE read == [thread[t].read EXCEPT ![f] = disk[f]]
           unread == thread[t].unread \ {f}
<1>2. f \in Loaded /\ disk[f] \in Nat
  BY FileSets DEF TypeOK, Requests
<1>3. read \in [Loaded -> Nat] /\ unread \in SUBSET Loaded
  BY <1>2 DEF TypeOK, Requests
<1>4. WithTableOf(f, read, unread) \in [Loaded -> Nat]
  BY <1>3 DEF WithTableOf, TypeOK
<1> HIDE DEF read, unread
<1>5. thread' = [thread EXCEPT ![t].read = read, ![t].unread = unread]
  BY <1>1 DEF read, unread
<1> DEFINE r == [thread[t] EXCEPT !.read = read, !.unread = unread]
<1>9. thread \in [Threads -> Requests]
  BY DEF TypeOK
<1>10. r \in Requests
  BY <1>3, <1>9 DEF Requests
<1>11. /\ r.stage = thread[t].stage /\ r.asked = thread[t].asked
       /\ r.signed = thread[t].signed /\ r.read = read /\ r.unread = unread
  BY <1>9 DEF Requests
<1>12. thread' = [thread EXCEPT ![t] = r]
  BY <1>5
<1>13. thread[t].stage = "loading"
  BY DEF LoadFile
<1> HIDE DEF r
<1>6. /\ thread' \in [Threads -> Requests]
      /\ \A u \in Threads \ {t} : thread'[u] = thread[u]
      /\ thread'[t].stage = "loading"
      /\ thread'[t].asked = thread[t].asked
      /\ thread'[t].signed = thread[t].signed
      /\ thread'[t].read = read /\ thread'[t].unread = unread
  BY <1>9, <1>10, <1>11, <1>12, <1>13
<1>7. tables' = WithTableOf(f, read, unread)
  BY <1>1 DEF read, unread
<1>8. QED
  BY <1>1, <1>2, <1>4, <1>6, <1>7 DEF read, unread

LEMMA ReturnStep ==
  ASSUME TypeOK, NEW t \in Threads, Return(t)
  PROVE  /\ thread' \in [Threads -> Requests]
         /\ \A u \in Threads \ {t} : thread'[u] = thread[u]
         /\ thread'[t] = Idle
  BY IdleTyped DEF TypeOK, Return

-----------------------------------------------------------------------------
(* Type correctness.                                                       *)

LEMMA TypeInit == Init => TypeOK
  BY ArtifactsAssumption, FileSets, IdleTyped DEF Init, TypeOK, Idle

LEMMA TypePipeline == TypeOK /\ Pipeline => TypeOK'
<1> SUFFICES ASSUME TypeOK, Pipeline
             PROVE  TypeOK'
  OBVIOUS
<1> USE ArtifactsAssumption
<1>1. UNCHANGED <<tables, signature, version, lock, thread, faults>>
  BY DEF Pipeline, StageRun, StartPublishing, PublishFile, RecordRun, EndRun, storeVars
<1>2. disk' \in [Files -> Nat]
  <2>1. CASE PublishFile
    BY <2>1, FileSets DEF PublishFile, First, TypeOK
  <2>2. CASE ~ PublishFile
    BY <2>2 DEF Pipeline, StageRun, StartPublishing, RecordRun, EndRun, TypeOK
  <2>3. QED
    BY <2>1, <2>2
<1>3. pipeline' \in [run : 0..MaxRuns, stage : {"idle", "staged", "publishing"},
                     unpublished : SUBSET Published]
  <2> DEFINE Run == [run : 0..MaxRuns, stage : {"idle", "staged", "publishing"},
                     unpublished : SUBSET Published]
  <2>1. pipeline \in Run /\ pipeline.run \in 0..MaxRuns
    BY DEF TypeOK
  <2>2. CASE StageRun
    BY <2>1, <2>2 DEF StageRun
  <2>3. CASE StartPublishing
    BY <2>1, <2>3 DEF StartPublishing
  <2>4. CASE PublishFile
    BY <2>1, <2>4 DEF PublishFile, First
  <2>5. CASE RecordRun \/ EndRun
    BY <2>1, <2>5 DEF RecordRun, EndRun
  <2>6. QED
    BY <2>2, <2>3, <2>4, <2>5 DEF Pipeline
<1>4. CASE RecordRun
  <2>1. recorded' \subseteq 0..MaxRuns
    BY <1>4 DEF RecordRun, TypeOK
  <2>2. QED
    BY <1>1, <1>2, <1>3, <1>4, <2>1 DEF TypeOK, RecordRun
<1>5. CASE ~ RecordRun
  BY <1>1, <1>2, <1>3, <1>5
  DEF Pipeline, StageRun, StartPublishing, PublishFile, EndRun, TypeOK
<1>6. QED
  BY <1>4, <1>5

LEMMA TypeThread ==
  TypeOK /\ (\E t \in Threads : Call(t) \/ Refresh(t) \/ Return(t)) => TypeOK'
<1> SUFFICES ASSUME TypeOK, NEW t \in Threads, Call(t) \/ Refresh(t) \/ Return(t)
             PROVE  TypeOK'
  OBVIOUS
<1> USE ArtifactsAssumption
<1>1. UNCHANGED <<disk, pipeline, recorded>>
  BY DEF Refresh, Call, Return, Acquire, SignFile, UpToDate, StartLoading, LoadFile,
         LoadFails, FinishLoading, pipelineVars
<1>2. CASE Call(t)
  BY <1>1, <1>2, CallStep DEF Call, storeVars, TypeOK
<1>3. CASE Acquire(t)
  BY <1>1, <1>3, AcquireStep DEF Acquire, TypeOK
<1>4. CASE SignFile(t)
  BY <1>1, <1>4, SignStep DEF SignFile, storeVars, TypeOK
<1>5. CASE UpToDate(t)
  BY <1>1, <1>5, LeaveStep DEF UpToDate, HasSigned, TypeOK
<1>6. CASE StartLoading(t)
  BY <1>1, <1>6, StartLoadingStep DEF StartLoading, HasSigned, storeVars, TypeOK
<1>7. CASE LoadFile(t)
  <2>1. PICK f \in Loaded :
          /\ thread' \in [Threads -> Requests]
          /\ \A u \in Threads \ {t} : thread'[u] = thread[u]
          /\ thread'[t].stage = "loading"
          /\ tables' \in [Loaded -> Nat]
    BY <1>7, LoadStep
  <2>2. QED
    BY <1>1, <1>7, <2>1 DEF LoadFile, TypeOK
<1>8. CASE LoadFails(t)
  <2>1. faults' \in 0..MaxFaults
    BY <1>8 DEF LoadFails, TypeOK
  <2>2. QED
    BY <1>1, <1>8, <2>1, LeaveStep DEF LoadFails, TypeOK
<1>9. CASE FinishLoading(t)
  <2>1. signature' \in [Signed -> Nat] /\ version' \in Nat
    BY <1>9 DEF FinishLoading, TypeOK, Requests
  <2>2. QED
    BY <1>1, <1>9, <2>1, LeaveStep DEF FinishLoading, TypeOK
<1>10. CASE Return(t)
  <2>1. Idle.stage = "idle"
    BY DEF Idle
  <2>2. QED
    BY <1>1, <1>10, <2>1, ReturnStep DEF Return, storeVars, TypeOK
<1>11. QED
  BY <1>2, <1>3, <1>4, <1>5, <1>6, <1>7, <1>8, <1>9, <1>10 DEF Refresh

LEMMA TypeStep == TypeOK /\ [Next]_artifactVars => TypeOK'
<1>1. TypeOK /\ UNCHANGED artifactVars => TypeOK'
  BY DEF artifactVars, TypeOK
<1>2. QED
  BY <1>1, TypePipeline, TypeThread DEF Next

\* The constants' assumption and the code's steps keep every variable in its type.
THEOREM TypeCorrect == Spec => []TypeOK
  BY TypeInit, TypeStep, PTL DEF Spec

-----------------------------------------------------------------------------
(* What the pipeline publishes.                                            *)

PublicationInv == PublicationInOrder /\ ManifestMeansComplete /\ RecordedRunsWerePublished

LEMMA PublicationInit == Init => PublicationInv
<1> SUFFICES ASSUME Init
             PROVE  PublicationInv
  OBVIOUS
<1>1. /\ disk = [f \in Files |-> IF f = "raw_edges" /\ RawEdges THEN 1 ELSE 0]
      /\ pipeline = [run |-> 0, stage |-> "idle", unpublished |-> {}]
      /\ recorded = {}
  BY DEF Init
<1>2. \A f \in Published : disk[f] = 0
  BY <1>1, FileSets DEF Published
<1>3. QED
  BY <1>1, <1>2, FileSets
  DEF PublicationInv, PublicationInOrder, ManifestMeansComplete, RecordedRunsWerePublished

\* A moved file is at least as new as what it replaces, and the manifest moves when
\* every other file has.
LEMMA PublicationStep == TypeOK /\ PublicationInv /\ [Next]_artifactVars => PublicationInv'
<1> SUFFICES ASSUME TypeOK, PublicationInv, [Next]_artifactVars
             PROVE  PublicationInv'
  OBVIOUS
<1> USE DEF PublicationInv, PublicationInOrder, ManifestMeansComplete,
            RecordedRunsWerePublished
<1>1. /\ \A f \in Published : disk[f] \in Nat
      /\ pipeline.run \in Nat /\ recorded \subseteq Nat
      /\ pipeline \in [run : 0..MaxRuns, stage : {"idle", "staged", "publishing"},
                       unpublished : SUBSET Published]
  BY FileSets, ArtifactsAssumption DEF TypeOK
<1>2. CASE StageRun
  <2>1. /\ pipeline'.run = pipeline.run + 1 /\ pipeline'.stage = "staged"
        /\ UNCHANGED <<disk, recorded>>
    BY <1>2 DEF StageRun
  <2>2. pipeline.run + 1 > 0 /\ \A f \in Published : disk[f] <= pipeline.run + 1
    BY <1>1
  <2>3. PublicationInOrder'
    BY <2>1, <2>2
  <2>4. QED
    BY <2>1, <2>3
<1>3. CASE StartPublishing
  <2>1. /\ pipeline'.run = pipeline.run /\ pipeline'.stage = "publishing"
        /\ pipeline'.unpublished = Published /\ pipeline.stage = "staged"
        /\ UNCHANGED <<disk, recorded>>
    BY <1>1, <1>3 DEF StartPublishing
  <2>2. QED
    BY <1>1, <2>1
<1>4. CASE PublishFile
  <2>1. PICK f \in First(pipeline.unpublished, PublicationRank) :
          /\ disk' = [disk EXCEPT ![f] = pipeline.run]
          /\ pipeline' = [pipeline EXCEPT !.unpublished = @ \ {f}]
    BY <1>4 DEF PublishFile
  <2>2. f \in Published /\ f \in Files
    BY <1>1, <2>1, FileSets DEF First
  <2>3. /\ pipeline'.run = pipeline.run /\ pipeline'.stage = pipeline.stage
        /\ pipeline'.unpublished = pipeline.unpublished \ {f}
        /\ pipeline.stage = "publishing" /\ recorded' = recorded
    BY <1>1, <1>4, <2>1 DEF PublishFile
  <2>4. disk'[f] = pipeline.run /\ \A g \in Published \ {f} : disk'[g] = disk[g]
    BY <2>1, <2>2, FileSets DEF TypeOK
  <2>5. PublicationInOrder'
    BY <1>1, <2>3, <2>4
  <2>6. \A g \in Published : disk'[g] >= disk[g]
    BY <1>1, <2>2, <2>4
  <2>7. RecordedRunsWerePublished'
    <3> SUFFICES ASSUME NEW r \in recorded, NEW g \in Published
                 PROVE  disk'[g] >= r
      BY <2>3
    <3>1. disk[g] >= r /\ disk'[g] \in Nat /\ r \in Nat
      BY <1>1, <2>4
    <3>2. QED
      BY <1>1, <2>6, <3>1
  <2>8. CASE f = "run_manifest"
    <3>1. pipeline.unpublished = {f}
      BY <1>1, <2>1, <2>8, ManifestLast
    <3>2. \A g \in Published : disk'[g] = pipeline.run
      BY <2>3, <2>4, <3>1
    <3>3. QED
      BY <1>1, <2>5, <2>7, <3>2, FileSets
  <2>9. CASE f # "run_manifest"
    <3>1. disk'["run_manifest"] = disk["run_manifest"]
      BY <2>4, <2>9, FileSets
    <3>2. \A g \in Published : disk'[g] >= disk["run_manifest"]
      <4> SUFFICES ASSUME NEW g \in Published
                   PROVE  disk'[g] >= disk["run_manifest"]
        OBVIOUS
      <4>1. disk[g] >= disk["run_manifest"] /\ disk'[g] >= disk[g] /\ disk'[g] \in Nat
        BY <1>1, <2>4, <2>6
      <4>2. QED
        BY <1>1, <4>1, FileSets
    <3>3. QED
      BY <2>5, <2>7, <3>1, <3>2
  <2>10. QED
    BY <2>8, <2>9
<1>5. CASE RecordRun
  <2>1. /\ recorded' = recorded \cup {pipeline.run} /\ UNCHANGED disk
        /\ pipeline'.run = pipeline.run /\ pipeline'.stage = "idle"
        /\ pipeline.stage = "publishing" /\ pipeline.unpublished = {}
    BY <1>1, <1>5 DEF RecordRun
  <2>2. \A f \in Published : disk[f] = pipeline.run
    BY <2>1
  <2>3. QED
    BY <1>1, <2>1, <2>2
<1>6. CASE EndRun
  <2>1. /\ pipeline'.run = pipeline.run /\ pipeline'.stage = "idle"
        /\ UNCHANGED <<disk, recorded>>
    BY <1>1, <1>6 DEF EndRun
  <2>2. QED
    BY <1>1, <2>1
<1>7. ASSUME NEW t \in Threads, Call(t) \/ Refresh(t) \/ Return(t)
      PROVE  PublicationInv'
  <2>1. UNCHANGED <<disk, pipeline, recorded>>
    BY <1>7 DEF Refresh, Call, Return, Acquire, SignFile, UpToDate, StartLoading, LoadFile,
                LoadFails, FinishLoading, pipelineVars
  <2>2. QED
    BY <2>1
<1>8. CASE UNCHANGED artifactVars
  BY <1>8 DEF artifactVars
<1>9. QED
  BY <1>2, <1>3, <1>4, <1>5, <1>6, <1>7, <1>8 DEF Next, Pipeline

-----------------------------------------------------------------------------
(* What the store serves.                                                  *)

StoreInv == TablesInBetween /\ ReadingsInOrder /\ AnswersAreFresh

LEMMA StoreInit == Init => StoreInv
<1> SUFFICES ASSUME Init
             PROVE  StoreInv
  OBVIOUS
<1>1. \A f \in Loaded : disk[f] = 0 /\ tables[f] = 0 /\ signature[f] = 0
  BY FileSets DEF Init
<1>2. \A t \in Threads : thread[t] = Idle
  BY DEF Init
<1>3. Idle.stage = "idle" /\ \A f \in Loaded : Idle.asked[f] = 0
  BY DEF Idle
<1>4. QED
  BY <1>1, <1>2, <1>3 DEF StoreInv, TablesInBetween, ReadingsInOrder, ReadingInOrder,
                           AnswersAreFresh, AnswerIsFresh

\* The disk only gets newer files.
LEMMA DiskGrows ==
  TypeOK /\ PublicationInv /\ [Next]_artifactVars => \A f \in Loaded : disk'[f] >= disk[f]
<1> SUFFICES ASSUME TypeOK, PublicationInv, [Next]_artifactVars, NEW f \in Loaded
             PROVE  disk'[f] >= disk[f]
  OBVIOUS
<1>1. disk[f] \in Nat /\ pipeline.run \in Nat /\ disk[f] <= pipeline.run
  BY FileSets, ArtifactsAssumption DEF TypeOK, PublicationInv, PublicationInOrder
<1>2. disk'[f] = disk[f] \/ disk'[f] = pipeline.run
  <2>1. CASE PublishFile
    BY <2>1, FileSets DEF PublishFile, TypeOK
  <2>2. CASE ~ PublishFile
    <3>1. UNCHANGED disk
      BY <2>2 DEF Next, Pipeline, StageRun, StartPublishing, RecordRun, EndRun, Refresh,
           Call, Return, Acquire, SignFile, UpToDate, StartLoading, LoadFile, LoadFails,
           FinishLoading, pipelineVars, artifactVars
    <3>2. QED
      BY <3>1
  <2>3. QED
    BY <2>1, <2>2
<1>3. QED
  BY <1>1, <1>2

\* Reading a file takes the tables and the reading of the thread forward: nothing
\* gets older, nothing gets newer than the disk, and a complete table is what was read.
LEMMA LoadingForward ==
  ASSUME TypeOK, StoreInv, NEW t \in Threads, LoadFile(t)
  PROVE  \A g \in Loaded :
           /\ tables'[g] >= tables[g] /\ tables'[g] <= disk[g] /\ tables'[g] \in Nat
           /\ g \notin thread'[t].unread =>
                /\ thread'[t].signed[g] <= thread'[t].read[g]
                /\ tables'[g] <= thread'[t].read[g]
                /\ thread'[t].read[g] <= disk[g]
           /\ Complete(g, thread'[t].unread) => tables'[g] = thread'[t].read[g]
<1>1. PICK f \in Loaded :
        /\ f \in thread[t].unread
        /\ thread'[t].signed = thread[t].signed
        /\ thread'[t].unread = thread[t].unread \ {f}
        /\ thread'[t].read = [thread[t].read EXCEPT ![f] = disk[f]]
        /\ tables' = WithTableOf(f, thread'[t].read, thread'[t].unread)
        /\ tables' \in [Loaded -> Nat]
  BY LoadStep
<1> SUFFICES ASSUME NEW g \in Loaded
             PROVE  /\ tables'[g] >= tables[g] /\ tables'[g] <= disk[g] /\ tables'[g] \in Nat
                    /\ g \notin thread'[t].unread =>
                         /\ thread'[t].signed[g] <= thread'[t].read[g]
                         /\ tables'[g] <= thread'[t].read[g]
                         /\ thread'[t].read[g] <= disk[g]
                    /\ Complete(g, thread'[t].unread) => tables'[g] = thread'[t].read[g]
  OBVIOUS
<1> DEFINE old == thread[t].read
           read == thread'[t].read
           unread == thread'[t].unread
           signed == thread[t].signed
<1>2. /\ thread[t].stage = "loading" /\ thread[t] \in Requests
      /\ disk[g] \in Nat /\ tables[g] \in Nat /\ tables'[g] \in Nat
      /\ old \in [Loaded -> Nat] /\ signed[g] \in Nat
  <2>1. thread[t].stage = "loading"
    BY DEF LoadFile
  <2>2. thread[t] \in Requests /\ g \in Files /\ g \in Signed
    BY FileSets DEF TypeOK
  <2>3. disk[g] \in Nat /\ tables[g] \in Nat /\ tables'[g] \in Nat
    BY <1>1, <2>2 DEF TypeOK
  <2>4. old \in [Loaded -> Nat] /\ signed[g] \in Nat
    BY <2>2 DEF Requests
  <2>5. QED
    BY <2>1, <2>2, <2>3, <2>4
<1>3. /\ signed[g] <= disk[g] /\ tables[g] <= disk[g]
      /\ g \notin thread[t].unread =>
           signed[g] <= old[g] /\ tables[g] <= old[g] /\ old[g] <= disk[g]
      /\ Complete(g, thread[t].unread) => tables[g] = old[g]
  BY <1>2 DEF StoreInv, ReadingsInOrder, ReadingInOrder, TablesInBetween
<1>4. read[g] = IF g = f THEN disk[g] ELSE old[g]
  BY <1>1, <1>2
<1>5. read[g] \in Nat
  BY <1>2, <1>4
<1>6. g \notin unread =>
        signed[g] <= read[g] /\ tables[g] <= read[g] /\ read[g] <= disk[g]
  BY <1>1, <1>2, <1>3, <1>4
<1> DEFINE Replaced == \E files \in Tables : f \in files /\ g \in files /\ files \cap unread = {}
<1>7. tables'[g] = IF Replaced THEN read[g] ELSE tables[g]
  BY <1>1 DEF WithTableOf
<1>8. Replaced => g \notin unread
  OBVIOUS
<1>9. Complete(g, unread) => tables'[g] = read[g]
  <2> SUFFICES ASSUME NEW files \in Tables, g \in files, files \cap unread = {}, ~ Replaced
               PROVE  tables[g] = read[g]
    BY <1>7 DEF Complete
  <2>1. f \notin files
    OBVIOUS
  <2>2. files \cap thread[t].unread = {}
    BY <1>1, <2>1
  <2>3. tables[g] = old[g] /\ g # f
    BY <1>3, <2>1, <2>2 DEF Complete
  <2>4. QED
    BY <1>4, <2>3
<1> HIDE DEF Replaced, old, read, unread, signed
<1>10. tables'[g] >= tables[g] /\ tables'[g] <= disk[g]
  BY <1>2, <1>3, <1>5, <1>6, <1>7, <1>8
<1>11. g \notin unread => tables'[g] <= read[g]
  BY <1>2, <1>5, <1>6, <1>7
<1>12. QED
  BY <1>1, <1>2, <1>6, <1>9, <1>10, <1>11 DEF read, unread, signed

\* What the variables and the locals of a thread hold are runs.
LEMMA RunsEverywhere ==
  ASSUME TypeOK, NEW f \in Loaded
  PROVE  /\ disk[f] \in Nat /\ tables[f] \in Nat /\ signature[f] \in Nat
         /\ \A t \in Threads : /\ thread[t].asked[f] \in Nat
                               /\ thread[t].signed[f] \in Nat
                               /\ thread[t].read[f] \in Nat
<1>1. f \in Files /\ f \in Signed
  BY FileSets
<1>2. disk[f] \in Nat /\ tables[f] \in Nat /\ signature[f] \in Nat
  BY <1>1 DEF TypeOK
<1>3. \A t \in Threads : thread[t] \in Requests
  BY DEF TypeOK
<1>4. ASSUME NEW t \in Threads
      PROVE  /\ thread[t].asked[f] \in Nat
             /\ thread[t].signed[f] \in Nat
             /\ thread[t].read[f] \in Nat
  <2>1. thread[t] \in Requests
    BY <1>3
  <2>2. QED
    BY <1>1, <2>1 DEF Requests
<1>5. QED
  BY <1>2, <1>4

\* A step of the pipeline only makes the disk newer, and nothing of the store moves.
LEMMA StorePipeline == TypeOK /\ PublicationInv /\ StoreInv /\ Pipeline => StoreInv'
<1> SUFFICES ASSUME TypeOK, PublicationInv, StoreInv, Pipeline
             PROVE  StoreInv'
  OBVIOUS
<1>1. UNCHANGED <<tables, signature, thread>>
  BY DEF Pipeline, StageRun, StartPublishing, PublishFile, RecordRun, EndRun, storeVars
<1>2. TypeOK'
  BY TypePipeline
<1>3. \A f \in Loaded : disk'[f] >= disk[f]
  BY DiskGrows DEF Next
<1>4. TablesInBetween'
  <2> SUFFICES ASSUME NEW f \in Loaded
               PROVE  signature[f] <= tables[f] /\ tables[f] <= disk'[f]
    BY <1>1 DEF TablesInBetween
  <2>1. disk[f] \in Nat /\ tables[f] \in Nat /\ disk'[f] \in Nat
    BY <1>2, RunsEverywhere, FileSets DEF TypeOK
  <2>2. QED
    BY <1>3, <2>1 DEF StoreInv, TablesInBetween
<1>5. ReadingsInOrder'
  <2> SUFFICES ASSUME NEW t \in Threads, NEW f \in Loaded
               PROVE  LET r == thread[t] IN
                      /\ r.asked[f] <= disk'[f]
                      /\ r.stage = "signing" /\ f \notin r.unsigned =>
                           r.asked[f] <= r.signed[f] /\ r.signed[f] <= disk'[f]
                      /\ r.stage = "loading" =>
                           /\ r.asked[f] <= r.signed[f] /\ r.signed[f] <= disk'[f]
                           /\ f \notin r.unread =>
                                /\ r.signed[f] <= r.read[f] /\ tables[f] <= r.read[f]
                                /\ r.read[f] <= disk'[f]
                           /\ Complete(f, r.unread) => tables[f] = r.read[f]
    BY <1>1 DEF ReadingsInOrder, ReadingInOrder, Complete
  <2>1. /\ disk[f] \in Nat /\ thread[t].asked[f] \in Nat
        /\ thread[t].signed[f] \in Nat /\ thread[t].read[f] \in Nat
    BY RunsEverywhere
  <2>2. disk'[f] \in Nat
    BY <1>2, FileSets DEF TypeOK
  <2>3. disk'[f] >= disk[f]
    BY <1>3
  <2>4. ReadingInOrder(t)
    BY DEF StoreInv, ReadingsInOrder
  <2>5. QED
    BY <2>1, <2>2, <2>3, <2>4 DEF ReadingInOrder
<1>6. AnswersAreFresh'
  BY <1>1 DEF StoreInv, AnswersAreFresh, AnswerIsFresh
<1>7. QED
  BY <1>4, <1>5, <1>6 DEF StoreInv

\* A step of one thread that changes neither the disk nor the tables is nothing to
\* the others.
LEMMA OthersKept ==
  ASSUME StoreInv, NEW t \in Threads, UNCHANGED <<disk, tables>>,
         \A u \in Threads \ {t} : thread'[u] = thread[u],
         ReadingInOrder(t)', AnswerIsFresh(t)'
  PROVE  ReadingsInOrder' /\ AnswersAreFresh'
<1>1. ASSUME NEW u \in Threads \ {t}
      PROVE  ReadingInOrder(u)' /\ AnswerIsFresh(u)'
  BY <1>1 DEF StoreInv, ReadingsInOrder, ReadingInOrder, AnswersAreFresh, AnswerIsFresh,
              Complete
<1>2. QED
  BY <1>1 DEF ReadingsInOrder, AnswersAreFresh

\* Every file that is loaded belongs to a table, and a table whose files are all
\* to be read has not been replaced.
LEMMA TablesOfFiles ==
  ASSUME NEW f \in Loaded
  PROVE  Complete(f, {}) /\ ~ Complete(f, Loaded)
  BY DEF Complete, Tables, Loaded, ReadRank

\* A step of a request keeps the order: a reading starts at what was asked for, and
\* the signature it stores is older than what it has read.
LEMMA StoreThread ==
  TypeOK /\ StoreInv /\ (\E t \in Threads : Call(t) \/ Refresh(t) \/ Return(t)) => StoreInv'
<1> SUFFICES ASSUME TypeOK, StoreInv, NEW t \in Threads, Call(t) \/ Refresh(t) \/ Return(t)
             PROVE  StoreInv'
  OBVIOUS
<1>1. UNCHANGED disk
  BY DEF Refresh, Call, Return, Acquire, SignFile, UpToDate, StartLoading, LoadFile,
         LoadFails, FinishLoading, pipelineVars
<1>2. ReadingInOrder(t) /\ TablesInBetween
  BY DEF StoreInv, ReadingsInOrder
<1>3. CASE Call(t)
  <2>1. /\ \A u \in Threads \ {t} : thread'[u] = thread[u]
        /\ thread'[t].stage = "called"
        /\ thread'[t].asked = [f \in Loaded |-> disk[f]]
        /\ UNCHANGED <<disk, tables, signature>>
    BY <1>1, <1>3, CallStep DEF Call, storeVars
  <2>2. ReadingInOrder(t)' /\ AnswerIsFresh(t)'
    BY <2>1, RunsEverywhere DEF ReadingInOrder, AnswerIsFresh
  <2>3. TablesInBetween'
    BY <1>2, <2>1 DEF TablesInBetween
  <2>4. QED
    BY <2>1, <2>2, <2>3, OthersKept DEF StoreInv
<1>4. CASE Acquire(t)
  <2>1. /\ \A u \in Threads \ {t} : thread'[u] = thread[u]
        /\ thread'[t].stage = "signing" /\ thread'[t].unsigned = Signed
        /\ thread'[t].asked = thread[t].asked
        /\ UNCHANGED <<disk, tables, signature>>
    BY <1>1, <1>4, AcquireStep DEF Acquire
  <2>2. ReadingInOrder(t)' /\ AnswerIsFresh(t)'
    BY <1>2, <2>1, FileSets DEF ReadingInOrder, AnswerIsFresh
  <2>3. TablesInBetween'
    BY <1>2, <2>1 DEF TablesInBetween
  <2>4. QED
    BY <2>1, <2>2, <2>3, OthersKept DEF StoreInv
<1>5. CASE SignFile(t)
  <2>1. PICK f \in Signed :
          /\ \A u \in Threads \ {t} : thread'[u] = thread[u]
          /\ thread'[t].stage = "signing"
          /\ thread'[t].asked = thread[t].asked
          /\ thread'[t].unsigned = thread[t].unsigned \ {f}
          /\ thread'[t].signed = [thread[t].signed EXCEPT ![f] = disk[f]]
    BY <1>5, SignStep
  <2>2. UNCHANGED <<disk, tables, signature>> /\ thread[t].stage = "signing"
    BY <1>1, <1>5 DEF SignFile, storeVars
  <2>3. thread[t].signed \in [Signed -> Nat]
    BY DEF TypeOK, Requests
  <2>4. ASSUME NEW g \in Loaded
        PROVE  /\ thread'[t].asked[g] <= disk[g]
               /\ g \notin thread'[t].unsigned =>
                    /\ thread'[t].asked[g] <= thread'[t].signed[g]
                    /\ thread'[t].signed[g] <= disk[g]
    <3>1. thread'[t].signed[g] = IF g = f THEN disk[g] ELSE thread[t].signed[g]
      BY <2>1, <2>3, FileSets
    <3>2. thread[t].asked[g] <= disk[g] /\ disk[g] \in Nat
      BY <1>2, RunsEverywhere DEF ReadingInOrder
    <3>3. g \notin thread[t].unsigned =>
            thread[t].asked[g] <= thread[t].signed[g] /\ thread[t].signed[g] <= disk[g]
      BY <1>2, <2>2 DEF ReadingInOrder
    <3>4. QED
      BY <2>1, <3>1, <3>2, <3>3
  <2>5. ReadingInOrder(t)' /\ AnswerIsFresh(t)'
    BY <2>1, <2>2, <2>4 DEF ReadingInOrder, AnswerIsFresh
  <2>6. TablesInBetween'
    BY <1>2, <2>2 DEF TablesInBetween
  <2>7. QED
    BY <2>1, <2>2, <2>5, <2>6, OthersKept DEF StoreInv
<1>6. CASE UpToDate(t)
  <2>1. /\ \A u \in Threads \ {t} : thread'[u] = thread[u]
        /\ thread'[t].stage = "refreshed"
        /\ thread'[t].asked = thread[t].asked
        /\ UNCHANGED <<disk, tables, signature>>
    BY <1>1, <1>6, LeaveStep DEF UpToDate
  <2>2. /\ thread[t].stage = "signing" /\ thread[t].unsigned = {}
        /\ thread[t].signed = signature
    BY <1>6 DEF UpToDate, HasSigned
  <2>3. ASSUME NEW f \in Loaded
        PROVE  thread[t].asked[f] <= disk[f] /\ tables[f] >= thread[t].asked[f]
    <3>1. thread[t].asked[f] <= disk[f] /\ thread[t].asked[f] <= signature[f]
      BY <1>2, <2>2 DEF ReadingInOrder
    <3>2. signature[f] <= tables[f]
      BY <1>2 DEF TablesInBetween
    <3>3. QED
      BY <3>1, <3>2, RunsEverywhere
  <2>4. ReadingInOrder(t)' /\ AnswerIsFresh(t)'
    BY <2>1, <2>3 DEF ReadingInOrder, AnswerIsFresh
  <2>5. TablesInBetween'
    BY <1>2, <2>1 DEF TablesInBetween
  <2>6. QED
    BY <2>1, <2>4, <2>5, OthersKept DEF StoreInv
<1>7. CASE StartLoading(t)
  <2>1. /\ \A u \in Threads \ {t} : thread'[u] = thread[u]
        /\ thread'[t].stage = "loading" /\ thread'[t].unread = Loaded
        /\ thread'[t].asked = thread[t].asked
        /\ thread'[t].signed = thread[t].signed
        /\ UNCHANGED <<disk, tables, signature>>
    BY <1>1, <1>7, StartLoadingStep DEF StartLoading, storeVars
  <2>2. thread[t].stage = "signing" /\ thread[t].unsigned = {}
    BY <1>7 DEF StartLoading, HasSigned
  <2>3. \A f \in Loaded :
          /\ thread[t].asked[f] <= disk[f]
          /\ thread[t].asked[f] <= thread[t].signed[f] /\ thread[t].signed[f] <= disk[f]
    BY <1>2, <2>2 DEF ReadingInOrder
  <2>4. ReadingInOrder(t)'
    BY <2>1, <2>3, TablesOfFiles DEF ReadingInOrder, Complete
  <2>5. AnswerIsFresh(t)'
    BY <2>1 DEF AnswerIsFresh
  <2>6. TablesInBetween'
    BY <1>2, <2>1 DEF TablesInBetween
  <2>7. QED
    BY <2>1, <2>4, <2>5, <2>6, OthersKept DEF StoreInv
<1>8. CASE LoadFile(t)
  <2>1. /\ \A u \in Threads \ {t} : thread'[u] = thread[u]
        /\ thread'[t].stage = "loading" /\ thread'[t].asked = thread[t].asked
        /\ thread'[t].signed = thread[t].signed
        /\ UNCHANGED <<disk, signature>> /\ thread[t].stage = "loading"
    BY <1>1, <1>8, LoadStep DEF LoadFile
  <2>2. \A g \in Loaded :
          /\ tables'[g] >= tables[g] /\ tables'[g] <= disk[g] /\ tables'[g] \in Nat
          /\ g \notin thread'[t].unread =>
               /\ thread'[t].signed[g] <= thread'[t].read[g]
               /\ tables'[g] <= thread'[t].read[g]
               /\ thread'[t].read[g] <= disk[g]
          /\ Complete(g, thread'[t].unread) => tables'[g] = thread'[t].read[g]
    BY <1>8, LoadingForward
  <2>3. TablesInBetween'
    <3> SUFFICES ASSUME NEW g \in Loaded
                 PROVE  signature[g] <= tables'[g] /\ tables'[g] <= disk[g]
      BY <2>1 DEF TablesInBetween
    <3>1. signature[g] <= tables[g]
      BY <1>2 DEF TablesInBetween
    <3>2. QED
      BY <2>2, <3>1, RunsEverywhere
  <2>4. ReadingInOrder(t)'
    <3>1. \A g \in Loaded :
            /\ thread[t].asked[g] <= disk[g]
            /\ thread[t].asked[g] <= thread[t].signed[g] /\ thread[t].signed[g] <= disk[g]
      BY <1>2, <2>1 DEF ReadingInOrder
    <3>2. QED
      BY <2>1, <2>2, <3>1 DEF ReadingInOrder, Complete
  <2>5. AnswerIsFresh(t)'
    BY <2>1 DEF AnswerIsFresh
  <2>6. ASSUME NEW u \in Threads \ {t}
        PROVE  ReadingInOrder(u)' /\ AnswerIsFresh(u)'
    <3>1. thread'[u] = thread[u]
      BY <2>1
    <3>2. lock = t /\ lock # u
      BY <2>1 DEF TypeOK
    <3>3. thread[u].stage # "loading"
      BY <3>2 DEF TypeOK
    <3>4. ReadingInOrder(u) /\ AnswerIsFresh(u)
      BY DEF StoreInv, ReadingsInOrder, AnswersAreFresh
    <3>5. ReadingInOrder(u)'
      BY <2>1, <3>1, <3>3, <3>4 DEF ReadingInOrder
    <3>6. ASSUME NEW g \in Loaded, thread[u].stage = "refreshed"
          PROVE  tables'[g] >= thread[u].asked[g]
      <4>1. tables[g] >= thread[u].asked[g]
        BY <3>4, <3>6 DEF AnswerIsFresh
      <4>2. QED
        BY <2>2, <4>1, RunsEverywhere
    <3>7. QED
      BY <3>1, <3>5, <3>6 DEF AnswerIsFresh
  <2>7. QED
    BY <2>3, <2>4, <2>5, <2>6 DEF StoreInv, ReadingsInOrder, AnswersAreFresh
<1>9. CASE LoadFails(t)
  <2>1. /\ \A u \in Threads \ {t} : thread'[u] = thread[u]
        /\ thread'[t].stage = "raised"
        /\ thread'[t].asked = thread[t].asked
        /\ UNCHANGED <<disk, tables, signature>>
    BY <1>1, <1>9, LeaveStep DEF LoadFails
  <2>2. ReadingInOrder(t)' /\ AnswerIsFresh(t)'
    BY <1>2, <2>1 DEF ReadingInOrder, AnswerIsFresh
  <2>3. TablesInBetween'
    BY <1>2, <2>1 DEF TablesInBetween
  <2>4. QED
    BY <2>1, <2>2, <2>3, OthersKept DEF StoreInv
<1>10. CASE FinishLoading(t)
  <2>1. /\ \A u \in Threads \ {t} : thread'[u] = thread[u]
        /\ thread'[t].stage = "refreshed"
        /\ thread'[t].asked = thread[t].asked
        /\ signature' = thread[t].signed
        /\ UNCHANGED <<disk, tables>>
        /\ thread[t].stage = "loading" /\ thread[t].unread = {}
    BY <1>1, <1>10, LeaveStep DEF FinishLoading
  <2>2. ASSUME NEW f \in Loaded
        PROVE  /\ thread[t].asked[f] <= disk[f] /\ tables[f] >= thread[t].asked[f]
               /\ thread[t].signed[f] <= tables[f] /\ tables[f] <= disk[f]
    <3>1. /\ thread[t].asked[f] <= disk[f]
          /\ thread[t].asked[f] <= thread[t].signed[f]
          /\ thread[t].signed[f] <= thread[t].read[f]
          /\ tables[f] = thread[t].read[f]
      BY <1>2, <2>1, TablesOfFiles DEF ReadingInOrder
    <3>2. tables[f] <= disk[f]
      BY <1>2 DEF TablesInBetween
    <3>3. QED
      BY <3>1, <3>2, RunsEverywhere
  <2>3. ReadingInOrder(t)' /\ AnswerIsFresh(t)'
    BY <2>1, <2>2 DEF ReadingInOrder, AnswerIsFresh
  <2>4. TablesInBetween'
    BY <2>1, <2>2 DEF TablesInBetween
  <2>5. QED
    BY <2>1, <2>3, <2>4, OthersKept DEF StoreInv
<1>11. CASE Return(t)
  <2>1. /\ \A u \in Threads \ {t} : thread'[u] = thread[u]
        /\ thread'[t] = Idle
        /\ UNCHANGED <<disk, tables, signature>>
    BY <1>1, <1>11, ReturnStep DEF Return, storeVars
  <2>2. Idle.stage = "idle" /\ \A f \in Loaded : Idle.asked[f] = 0
    BY DEF Idle
  <2>3. ReadingInOrder(t)' /\ AnswerIsFresh(t)'
    BY <2>1, <2>2, RunsEverywhere DEF ReadingInOrder, AnswerIsFresh
  <2>4. TablesInBetween'
    BY <1>2, <2>1 DEF TablesInBetween
  <2>5. QED
    BY <2>1, <2>3, <2>4, OthersKept DEF StoreInv
<1>12. QED
  BY <1>3, <1>4, <1>5, <1>6, <1>7, <1>8, <1>9, <1>10, <1>11 DEF Refresh

LEMMA StoreStep ==
  TypeOK /\ PublicationInv /\ StoreInv /\ [Next]_artifactVars => StoreInv'
<1>1. StoreInv /\ UNCHANGED artifactVars => StoreInv'
  BY DEF artifactVars, StoreInv, TablesInBetween, ReadingsInOrder, ReadingInOrder,
         AnswersAreFresh, AnswerIsFresh, Complete
<1>2. QED
  BY <1>1, StorePipeline, StoreThread DEF Next

-----------------------------------------------------------------------------
(* The invariant and what follows from it.                                 *)

\* The order of all that was asked for, signed, read, loaded and published is kept
\* by every step of the pipeline and of the store.
THEOREM ArtifactsInvariant == Spec => []ArtifactsInv
<1> DEFINE Inv == TypeOK /\ PublicationInv /\ StoreInv
<1>1. Init => Inv
  BY TypeInit, PublicationInit, StoreInit
<1>2. Inv /\ [Next]_artifactVars => Inv'
  BY TypeStep, PublicationStep, StoreStep
<1>3. Inv => ArtifactsInv
  BY DEF ArtifactsInv, PublicationInv, StoreInv
<1> HIDE DEF Inv
<1>4. QED
  BY <1>1, <1>2, <1>3, PTL DEF Spec

\* Whoever finds the manifest of a run finds all its files, or later ones.
THEOREM ManifestCorrect == Spec => []ManifestMeansComplete
<1>1. ArtifactsInv => ManifestMeansComplete
  BY DEF ArtifactsInv
<1>2. QED
  BY <1>1, ArtifactsInvariant, PTL

\* A run in the history has published all its files.
THEOREM HistoryCorrect == Spec => []RecordedRunsWerePublished
<1>1. ArtifactsInv => RecordedRunsWerePublished
  BY DEF ArtifactsInv
<1>2. QED
  BY <1>1, ArtifactsInvariant, PTL

\* A signature that matches the files is that of the tables: what was loaded lies
\* between the two.
THEOREM SignatureCorrect == Spec => []StoreMatchesSignature
<1>1. ArtifactsInv => StoreMatchesSignature
  <2> SUFFICES ASSUME ArtifactsInv, \A f \in Signed : signature[f] = disk[f], NEW f \in Loaded
               PROVE  tables[f] = disk[f]
    BY DEF StoreMatchesSignature
  <2>1. signature[f] = disk[f]
    BY FileSets
  <2>2. signature[f] <= tables[f] /\ tables[f] <= disk[f]
    BY DEF ArtifactsInv, TablesInBetween
  <2>3. disk[f] \in Nat /\ tables[f] \in Nat
    BY RunsEverywhere DEF ArtifactsInv
  <2>4. QED
    BY <2>1, <2>2, <2>3
<1>2. QED
  BY <1>1, ArtifactsInvariant, PTL

\* A getter answers from files at least as new as those it was asked for.
THEOREM AnswersCorrect == Spec => []AnswersAreFresh
<1>1. ArtifactsInv => AnswersAreFresh
  BY DEF ArtifactsInv
<1>2. QED
  BY <1>1, ArtifactsInvariant, PTL

\* No step of the store replaces a table by an older one.
THEOREM TablesCorrect == Spec => TablesNeverGoBack
<1>1. ArtifactsInv /\ [Next]_artifactVars =>
        [\A f \in Loaded : tables'[f] >= tables[f]]_artifactVars
  <2> SUFFICES ASSUME ArtifactsInv, Next, NEW f \in Loaded
               PROVE  tables'[f] >= tables[f]
    OBVIOUS
  <2>1. TypeOK /\ StoreInv
    BY DEF ArtifactsInv, StoreInv
  <2>2. CASE \E t \in Threads : LoadFile(t)
    BY <2>1, <2>2, LoadingForward
  <2>3. CASE ~ \E t \in Threads : LoadFile(t)
    <3>1. UNCHANGED tables
      BY <2>3 DEF Next, Pipeline, StageRun, StartPublishing, PublishFile, RecordRun, EndRun,
           Refresh, Call, Return, Acquire, SignFile, UpToDate, StartLoading, LoadFails,
           FinishLoading, storeVars
    <3>2. QED
      BY <2>1, <3>1, RunsEverywhere
  <2>4. QED
    BY <2>2, <2>3
<1>2. QED
  BY <1>1, ArtifactsInvariant, PTL DEF Spec, TablesNeverGoBack

-----------------------------------------------------------------------------
(* No answer before there is a result.                                     *)

LEMMA RolesInit == Init => RolesBehindSignature
<1> SUFFICES ASSUME Init, RawEdges
             PROVE  /\ disk["raw_edges"] > 0
                    /\ signature["raw_edges"] > 0 => tables["nodes_roles"] > 0
                    /\ \A t \in Threads : RolesSeen(t)
  BY DEF RolesBehindSignature
<1>1. disk["raw_edges"] = 1 /\ signature["raw_edges"] = 0
  BY FileSets DEF Init
<1>2. \A t \in Threads : thread[t].stage = "idle"
  BY DEF Init, Idle
<1>3. QED
  BY <1>1, <1>2 DEF RolesSeen

LEMMA RolesStep ==
  TypeOK /\ StoreInv /\ RolesBehindSignature /\ [Next]_artifactVars => RolesBehindSignature'
<1> SUFFICES ASSUME TypeOK, StoreInv, RolesBehindSignature, Next, RawEdges
             PROVE  /\ disk'["raw_edges"] > 0
                    /\ signature'["raw_edges"] > 0 => tables'["nodes_roles"] > 0
                    /\ \A t \in Threads : RolesSeen(t)'
  BY DEF RolesBehindSignature, RolesSeen, artifactVars
<1>1. /\ disk["raw_edges"] > 0
      /\ signature["raw_edges"] > 0 => tables["nodes_roles"] > 0
      /\ \A t \in Threads : RolesSeen(t)
  BY DEF RolesBehindSignature
<1>2. CASE Pipeline
  <2>1. UNCHANGED <<tables, signature, thread>>
    BY <1>2 DEF Pipeline, StageRun, StartPublishing, PublishFile, RecordRun, EndRun, storeVars
  <2>2. disk'["raw_edges"] = disk["raw_edges"]
    <3>1. CASE PublishFile
      <4>1. PICK f \in First(pipeline.unpublished, PublicationRank) :
              disk' = [disk EXCEPT ![f] = pipeline.run]
        BY <3>1 DEF PublishFile
      <4>2. f # "raw_edges"
        BY FileSets DEF First, TypeOK
      <4>3. QED
        BY <4>1, <4>2, FileSets DEF TypeOK
    <3>2. CASE ~ PublishFile
      BY <1>2, <3>2 DEF Pipeline, StageRun, StartPublishing, RecordRun, EndRun
    <3>3. QED
      BY <3>1, <3>2
  <2>3. QED
    BY <1>1, <2>1, <2>2 DEF RolesSeen
<1>3. ASSUME NEW t \in Threads, Call(t) \/ Refresh(t) \/ Return(t)
      PROVE  /\ disk'["raw_edges"] > 0
             /\ signature'["raw_edges"] > 0 => tables'["nodes_roles"] > 0
             /\ \A u \in Threads : RolesSeen(u)'
  <2>1. UNCHANGED disk
    BY <1>3 DEF Refresh, Call, Return, Acquire, SignFile, UpToDate, StartLoading, LoadFile,
           LoadFails, FinishLoading, pipelineVars
  <2>2. RolesSeen(t) /\ "raw_edges" \in Signed /\ "nodes_roles" \in Loaded
    BY <1>1, FileSets
  <2>3. CASE Call(t)
    BY <1>1, <2>1, <2>3, CallStep DEF Call, storeVars, RolesSeen
  <2>4. CASE Acquire(t)
    BY <1>1, <2>1, <2>2, <2>4, AcquireStep DEF Acquire, RolesSeen
  <2>5. CASE SignFile(t)
    <3>1. PICK f \in Signed :
            /\ \A u \in Threads \ {t} : thread'[u] = thread[u]
            /\ thread'[t].stage = "signing"
            /\ thread'[t].unsigned = thread[t].unsigned \ {f}
            /\ thread'[t].signed = [thread[t].signed EXCEPT ![f] = disk[f]]
      BY <2>5, SignStep
    <3>2. UNCHANGED <<tables, signature>> /\ thread[t].stage = "signing"
      BY <2>5 DEF SignFile, storeVars
    <3>3. thread[t].signed \in [Signed -> Nat]
      BY DEF TypeOK, Requests
    <3>4. thread'[t].signed["raw_edges"] =
            IF f = "raw_edges" THEN disk["raw_edges"] ELSE thread[t].signed["raw_edges"]
      BY <2>2, <3>1, <3>3
    <3>5. RolesSeen(t)'
      BY <1>1, <2>2, <3>1, <3>2, <3>4 DEF RolesSeen
    <3>6. \A u \in Threads \ {t} : RolesSeen(u)'
      BY <1>1, <3>1, <3>2 DEF RolesSeen
    <3>7. QED
      BY <1>1, <2>1, <3>2, <3>5, <3>6
  <2>6. CASE UpToDate(t)
    <3>1. /\ \A u \in Threads \ {t} : thread'[u] = thread[u]
          /\ thread'[t].stage = "refreshed"
          /\ UNCHANGED <<tables, signature>>
      BY <2>6, LeaveStep DEF UpToDate
    <3>2. tables["nodes_roles"] > 0
      BY <1>1, <2>2, <2>6 DEF UpToDate, HasSigned, RolesSeen
    <3>3. QED
      BY <1>1, <2>1, <3>1, <3>2 DEF RolesSeen
  <2>7. CASE StartLoading(t)
    <3>1. /\ \A u \in Threads \ {t} : thread'[u] = thread[u]
          /\ thread'[t].stage = "loading" /\ thread'[t].unread = Loaded
          /\ thread'[t].signed = thread[t].signed
          /\ UNCHANGED <<tables, signature>>
      BY <2>7, StartLoadingStep DEF StartLoading, storeVars
    <3>2. thread[t].signed["raw_edges"] > 0
      BY <2>2, <2>7 DEF StartLoading, HasSigned, RolesSeen
    <3>3. QED
      BY <1>1, <2>1, <2>2, <3>1, <3>2 DEF RolesSeen
  <2>8. CASE LoadFile(t)
    <3>1. PICK f \in Loaded :
            /\ Readable(f)
            /\ \A u \in Threads \ {t} : thread'[u] = thread[u]
            /\ thread'[t].stage = "loading"
            /\ thread'[t].signed = thread[t].signed
            /\ thread'[t].unread = thread[t].unread \ {f}
            /\ thread'[t].read = [thread[t].read EXCEPT ![f] = disk[f]]
      BY <2>8, LoadStep
    <3>2. UNCHANGED signature /\ thread[t].stage = "loading"
      BY <2>8 DEF LoadFile
    <3>3. tables'["nodes_roles"] >= tables["nodes_roles"] /\ tables'["nodes_roles"] \in Nat
      BY <2>2, <2>8, LoadingForward
    <3>4. tables["nodes_roles"] \in Nat
      BY <2>2, RunsEverywhere
    <3>5. tables["nodes_roles"] > 0 => tables'["nodes_roles"] > 0
      BY <3>3, <3>4
    <3>6. thread[t].read \in [Loaded -> Nat]
      BY DEF TypeOK, Requests
    <3>7. thread'[t].read["nodes_roles"] =
            IF f = "nodes_roles" THEN disk["nodes_roles"] ELSE thread[t].read["nodes_roles"]
      BY <2>2, <3>1, <3>6
    <3>8. f = "nodes_roles" => disk["nodes_roles"] > 0
      BY <3>1 DEF Readable
    <3>9. RolesSeen(t)'
      BY <2>2, <3>1, <3>2, <3>7, <3>8 DEF RolesSeen
    <3>10. \A u \in Threads \ {t} : RolesSeen(u)'
      BY <1>1, <3>1, <3>5 DEF RolesSeen
    <3>11. QED
      BY <1>1, <2>1, <3>2, <3>5, <3>9, <3>10
  <2>9. CASE LoadFails(t)
    BY <1>1, <2>1, <2>9, LeaveStep DEF LoadFails, RolesSeen
  <2>10. CASE FinishLoading(t)
    <3>1. /\ \A u \in Threads \ {t} : thread'[u] = thread[u]
          /\ thread'[t].stage = "refreshed"
          /\ UNCHANGED tables
          /\ thread[t].stage = "loading" /\ thread[t].unread = {}
      BY <2>10, LeaveStep DEF FinishLoading
    <3>2. tables["nodes_roles"] = thread[t].read["nodes_roles"]
      BY <2>2, <3>1, TablesOfFiles DEF StoreInv, ReadingsInOrder, ReadingInOrder
    <3>3. tables["nodes_roles"] > 0
      BY <2>2, <3>1, <3>2 DEF RolesSeen
    <3>4. QED
      BY <1>1, <2>1, <3>1, <3>3 DEF RolesSeen
  <2>11. CASE Return(t)
    <3>1. /\ \A u \in Threads \ {t} : thread'[u] = thread[u]
          /\ thread'[t] = Idle /\ Idle.stage = "idle"
          /\ UNCHANGED <<tables, signature>>
      BY <2>11, ReturnStep DEF Return, storeVars, Idle
    <3>2. QED
      BY <1>1, <2>1, <3>1 DEF RolesSeen
  <2>12. QED
    BY <1>3, <2>3, <2>4, <2>5, <2>6, <2>7, <2>8, <2>9, <2>10, <2>11 DEF Refresh
<1>4. QED
  BY <1>2, <1>3 DEF Next

\* Where there is input data, which the pipeline cannot run without, no getter
\* answers before roles have been published.
THEOREM NothingEarly == Spec => [](RawEdges => NothingServedTooEarly)
<1> DEFINE Inv == TypeOK /\ PublicationInv /\ StoreInv /\ RolesBehindSignature
<1>1. Init => Inv
  BY TypeInit, PublicationInit, StoreInit, RolesInit
<1>2. Inv /\ [Next]_artifactVars => Inv'
  BY TypeStep, PublicationStep, StoreStep, RolesStep
<1>3. Inv => (RawEdges => NothingServedTooEarly)
  BY DEF RolesBehindSignature, RolesSeen, NothingServedTooEarly
<1> HIDE DEF Inv
<1>4. QED
  BY <1>1, <1>2, <1>3, PTL DEF Spec

-----------------------------------------------------------------------------
(* The signature and the version of the store.                             *)

\* A signature that is stored is no older than the one before.
LEMMA SignatureForward ==
  ASSUME ArtifactsInv, SignaturesInOrder, NEW t \in Threads, FinishLoading(t), NEW f \in Loaded
  PROVE  /\ signature[f] <= signature'[f]
         /\ thread[t].asked[f] <= signature'[f]
<1>1. TypeOK /\ SignatureInOrder(t) /\ ReadingInOrder(t)
  BY DEF ArtifactsInv, SignaturesInOrder, ReadingsInOrder
<1>2. signature' = thread[t].signed /\ thread[t].stage = "loading"
  BY DEF FinishLoading
<1>3. signature[f] <= thread[t].signed[f] /\ thread[t].asked[f] <= thread[t].signed[f]
  BY <1>1, <1>2 DEF SignatureInOrder, ReadingInOrder
<1>4. QED
  BY <1>2, <1>3

\* A step of one thread that leaves the signature alone is nothing to the others.
LEMMA OtherSignatures ==
  ASSUME SignaturesInOrder, NEW t \in Threads, UNCHANGED signature,
         \A u \in Threads \ {t} : thread'[u] = thread[u], SignatureInOrder(t)'
  PROVE  SignaturesInOrder'
<1>1. ASSUME NEW u \in Threads \ {t} PROVE SignatureInOrder(u)'
  BY DEF SignaturesInOrder, SignatureInOrder
<1>2. QED
  BY <1>1 DEF SignaturesInOrder

LEMMA SignaturesThread ==
  ASSUME ArtifactsInv, SignaturesInOrder, NEW t \in Threads, Call(t) \/ Refresh(t) \/ Return(t)
  PROVE  SignaturesInOrder'
<1>1. TypeOK /\ SignatureInOrder(t) /\ ReadingInOrder(t) /\ TablesInBetween
  BY DEF ArtifactsInv, SignaturesInOrder, ReadingsInOrder
<1>2. \A f \in Loaded : f \in Signed
  BY FileSets
<1>3. CASE Call(t)
  <2>1. /\ \A u \in Threads \ {t} : thread'[u] = thread[u]
        /\ thread'[t].stage = "called" /\ UNCHANGED signature
    BY <1>1, <1>3, CallStep DEF Call, storeVars
  <2>2. SignatureInOrder(t)'
    BY <2>1 DEF SignatureInOrder
  <2>3. QED
    BY <2>1, <2>2, OtherSignatures
<1>4. CASE Acquire(t)
  <2>1. /\ \A u \in Threads \ {t} : thread'[u] = thread[u]
        /\ thread'[t].stage = "signing" /\ thread'[t].unsigned = Signed /\ UNCHANGED signature
    BY <1>1, <1>4, AcquireStep DEF Acquire
  <2>2. SignatureInOrder(t)'
    BY <1>2, <2>1 DEF SignatureInOrder
  <2>3. QED
    BY <2>1, <2>2, OtherSignatures
<1>5. CASE SignFile(t)
  <2>1. PICK f \in Signed :
          /\ \A u \in Threads \ {t} : thread'[u] = thread[u]
          /\ thread'[t].stage = "signing"
          /\ thread'[t].unsigned = thread[t].unsigned \ {f}
          /\ thread'[t].signed = [thread[t].signed EXCEPT ![f] = disk[f]]
    BY <1>1, <1>5, SignStep
  <2>2. UNCHANGED signature /\ thread[t].stage = "signing"
    BY <1>5 DEF SignFile, storeVars
  <2>3. thread[t].signed \in [Signed -> Nat]
    BY <1>1 DEF TypeOK, Requests
  <2>4. ASSUME NEW g \in Loaded, g \notin thread'[t].unsigned
        PROVE  signature[g] <= thread'[t].signed[g]
    <3>1. thread'[t].signed[g] = IF g = f THEN disk[g] ELSE thread[t].signed[g]
      BY <1>2, <2>1, <2>3
    <3>2. signature[g] <= tables[g] /\ tables[g] <= disk[g]
      BY <1>1 DEF TablesInBetween
    <3>3. signature[g] <= disk[g]
      BY <1>1, <3>2, RunsEverywhere
    <3>4. g # f => signature[g] <= thread[t].signed[g]
      BY <1>1, <2>1, <2>2, <2>4 DEF SignatureInOrder
    <3>5. QED
      BY <3>1, <3>3, <3>4
  <2>5. SignatureInOrder(t)'
    BY <2>1, <2>2, <2>4 DEF SignatureInOrder
  <2>6. QED
    BY <2>1, <2>2, <2>5, OtherSignatures
<1>6. CASE UpToDate(t)
  <2>1. /\ \A u \in Threads \ {t} : thread'[u] = thread[u]
        /\ thread'[t].stage = "refreshed" /\ thread'[t].asked = thread[t].asked
        /\ UNCHANGED signature
        /\ thread[t].stage = "signing" /\ thread[t].unsigned = {}
        /\ thread[t].signed = signature
    BY <1>1, <1>6, LeaveStep DEF UpToDate, HasSigned
  <2>2. SignatureInOrder(t)'
    BY <1>1, <2>1 DEF SignatureInOrder, ReadingInOrder
  <2>3. QED
    BY <2>1, <2>2, OtherSignatures
<1>7. CASE StartLoading(t)
  <2>1. /\ \A u \in Threads \ {t} : thread'[u] = thread[u]
        /\ thread'[t].stage = "loading" /\ thread'[t].signed = thread[t].signed
        /\ UNCHANGED signature
        /\ thread[t].stage = "signing" /\ thread[t].unsigned = {}
    BY <1>1, <1>7, StartLoadingStep DEF StartLoading, HasSigned, storeVars
  <2>2. SignatureInOrder(t)'
    BY <1>1, <2>1 DEF SignatureInOrder
  <2>3. QED
    BY <2>1, <2>2, OtherSignatures
<1>8. CASE LoadFile(t)
  <2>1. /\ \A u \in Threads \ {t} : thread'[u] = thread[u]
        /\ thread'[t].stage = "loading" /\ thread'[t].signed = thread[t].signed
        /\ UNCHANGED signature /\ thread[t].stage = "loading"
    BY <1>1, <1>8, LoadStep DEF LoadFile
  <2>2. SignatureInOrder(t)'
    BY <1>1, <2>1 DEF SignatureInOrder
  <2>3. QED
    BY <2>1, <2>2, OtherSignatures
<1>9. CASE LoadFails(t)
  <2>1. /\ \A u \in Threads \ {t} : thread'[u] = thread[u]
        /\ thread'[t].stage = "raised" /\ UNCHANGED signature
    BY <1>1, <1>9, LeaveStep DEF LoadFails
  <2>2. SignatureInOrder(t)'
    BY <2>1 DEF SignatureInOrder
  <2>3. QED
    BY <2>1, <2>2, OtherSignatures
<1>10. CASE FinishLoading(t)
  <2>1. /\ \A u \in Threads \ {t} : thread'[u] = thread[u]
        /\ thread'[t].stage = "refreshed" /\ thread'[t].asked = thread[t].asked
        /\ thread[t].stage = "loading" /\ TypeOK'
    BY <1>1, <1>10, LeaveStep, TypeThread DEF FinishLoading, Refresh
  <2>2. \A f \in Loaded :
          /\ signature[f] <= signature'[f] /\ thread[t].asked[f] <= signature'[f]
          /\ signature[f] \in Nat /\ signature'[f] \in Nat
    BY <1>1, <1>2, <1>10, <2>1, SignatureForward DEF TypeOK
  <2>3. SignatureInOrder(t)'
    BY <2>1, <2>2 DEF SignatureInOrder
  <2>4. ASSUME NEW u \in Threads \ {t} PROVE SignatureInOrder(u)'
    <3>1. thread'[u] = thread[u] /\ thread[u].stage \notin {"signing", "loading"}
      BY <1>1, <2>1 DEF TypeOK
    <3>2. \A f \in Loaded : thread[u].stage = "refreshed" => thread[u].asked[f] <= signature[f]
      BY DEF SignaturesInOrder, SignatureInOrder
    <3>3. \A f \in Loaded : thread[u].asked[f] \in Nat
      BY <1>1, RunsEverywhere
    <3>4. QED
      BY <2>2, <3>1, <3>2, <3>3 DEF SignatureInOrder
  <2>5. QED
    BY <2>3, <2>4 DEF SignaturesInOrder
<1>11. CASE Return(t)
  <2>1. /\ \A u \in Threads \ {t} : thread'[u] = thread[u]
        /\ thread'[t].stage = "idle" /\ UNCHANGED signature
    BY <1>1, <1>11, ReturnStep DEF Return, storeVars, Idle
  <2>2. SignatureInOrder(t)'
    BY <2>1 DEF SignatureInOrder
  <2>3. QED
    BY <2>1, <2>2, OtherSignatures
<1>12. QED
  BY <1>3, <1>4, <1>5, <1>6, <1>7, <1>8, <1>9, <1>10, <1>11 DEF Refresh

LEMMA SignaturesStep ==
  ArtifactsInv /\ SignaturesInOrder /\ [Next]_artifactVars => SignaturesInOrder'
<1>1. ASSUME SignaturesInOrder, UNCHANGED <<signature, thread>> PROVE SignaturesInOrder'
  BY <1>1 DEF SignaturesInOrder, SignatureInOrder
<1>2. Pipeline \/ UNCHANGED artifactVars => UNCHANGED <<signature, thread>>
  BY DEF Pipeline, StageRun, StartPublishing, PublishFile, RecordRun, EndRun, storeVars, artifactVars
<1>3. QED
  BY <1>1, <1>2, SignaturesThread DEF Next

\* What a step of the store does to what a query sees of it: files, signature and
\* version go forward, and a new signature comes with a new version.
Forward ==
  /\ \A f \in Loaded : disk[f] <= disk'[f] /\ signature[f] <= signature'[f]
  /\ version <= version'
  /\ version' = version => signature' = signature

LEMMA StoreForward ==
  ASSUME ArtifactsInv, SignaturesInOrder, [Next]_artifactVars
  PROVE  Forward
<1>1. TypeOK /\ PublicationInv /\ version \in Nat
  BY DEF ArtifactsInv, PublicationInv, TypeOK
<1>2. \A f \in Loaded : disk[f] <= disk'[f]
  <2>1. TypeOK'
    BY <1>1, TypeStep
  <2>2. \A f \in Loaded : disk[f] \in Nat /\ disk'[f] \in Nat
    BY <1>1, <2>1, FileSets DEF TypeOK
  <2>3. QED
    BY <1>1, <2>2, DiskGrows
<1>3. CASE \E t \in Threads : FinishLoading(t)
  <2>1. version' = version + 1 /\ \A f \in Loaded : signature[f] <= signature'[f]
    BY <1>3, SignatureForward DEF FinishLoading
  <2>2. QED
    BY <1>1, <1>2, <2>1 DEF Forward
<1>4. CASE ~ \E t \in Threads : FinishLoading(t)
  <2>1. UNCHANGED <<signature, version>>
    BY <1>4 DEF Next, Pipeline, StageRun, StartPublishing, PublishFile, RecordRun, EndRun, Refresh,
         Call, Return, Acquire, SignFile, UpToDate, StartLoading, LoadFile, LoadFails, storeVars,
         artifactVars
  <2>2. \A f \in Loaded : signature[f] \in Nat
    BY <1>1, RunsEverywhere
  <2>3. QED
    BY <1>1, <1>2, <2>1, <2>2 DEF Forward
<1>5. QED
  BY <1>3, <1>4

-----------------------------------------------------------------------------
(* The cache takes the store as it is.                                     *)

LEMMA CacheStepIsStoreStep == [CacheNext]_cacheVars => [Next]_artifactVars
  BY DEF CacheNext, Store, Query, Ask, ReadVersion, Hit, UseGraph, Miss, Take, TakeNodes,
         CallEdges, TakeEdges, StoreGraph, StoreLabel, CallProfile, TakeProfile, AskAgain, Serve,
         Fail, Next, cacheVars

\* Whatever the queries do, the store behaves as module Artifacts says: all that is
\* proved of it holds under the cache, too.
THEOREM CacheKeepsStore == CacheSpec => Spec
<1>1. CacheInit => Init
  BY DEF CacheInit
<1>2. QED
  BY <1>1, CacheStepIsStoreStep, PTL DEF CacheSpec, Spec

-----------------------------------------------------------------------------
(* What a query sees.                                                      *)

LEMMA SourcesLoaded ==
  /\ Sources \subseteq Loaded /\ Sources \subseteq Files /\ Sources \subseteq Signed
  /\ \A f \in Sources : f \in {"nodes_roles", "edges_enriched"}
  /\ "nodes_roles" \in Sources /\ "edges_enriched" \in Sources
  BY ArtifactsAssumption, FileSets DEF Sources, Loaded, ReadRank

LEMMA QueryNumbers ==
  ASSUME TypeOK, CacheTypeOK, NEW t \in Threads
  PROVE  /\ version \in Nat /\ graph.version \in Int /\ query[t].version \in Nat
         /\ \A f \in Sources :
              /\ disk[f] \in Nat /\ signature[f] \in Nat /\ tables[f] \in Nat
              /\ thread[t].asked[f] \in Nat
              /\ graph.built[f] \in Nat /\ query[t].asked[f] \in Nat /\ query[t].built[f] \in Nat
<1>1. version \in Nat /\ graph.version \in Int /\ query[t].version \in Nat
  BY DEF TypeOK, CacheTypeOK, Queries
<1>2. ASSUME NEW f \in Sources
      PROVE  /\ disk[f] \in Nat /\ signature[f] \in Nat /\ tables[f] \in Nat
             /\ thread[t].asked[f] \in Nat
  BY SourcesLoaded, RunsEverywhere
<1>3. /\ graph.built \in [Sources -> Nat]
      /\ query[t].asked \in [Sources -> Nat] /\ query[t].built \in [Sources -> Nat]
  BY DEF CacheTypeOK, Queries
<1>4. QED
  BY <1>1, <1>2, <1>3

\* The order of the store: signature, tables, disk.
LEMMA StoreOrder ==
  ASSUME ArtifactsInv, NEW f \in Sources
  PROVE  signature[f] <= tables[f] /\ tables[f] <= disk[f] /\ signature[f] <= disk[f]
<1>1. f \in Loaded /\ TypeOK
  BY SourcesLoaded DEF ArtifactsInv
<1>2. signature[f] <= tables[f] /\ tables[f] <= disk[f]
  BY <1>1 DEF ArtifactsInv, TablesInBetween
<1>3. signature[f] \in Nat /\ tables[f] \in Nat /\ disk[f] \in Nat
  BY <1>1, RunsEverywhere
<1>4. QED
  BY <1>2, <1>3

LEMMA TablesAfterAsked ==
  ASSUME ArtifactsInv, CacheTypeOK, NEW t \in Threads, NEW f \in Sources,
         query[t].asked[f] <= signature[f]
  PROVE  query[t].asked[f] <= tables[f]
<1>1. signature[f] <= tables[f]
  BY StoreOrder
<1>2. query[t].asked[f] \in Nat /\ signature[f] \in Nat /\ tables[f] \in Nat
  BY QueryNumbers DEF ArtifactsInv
<1>3. QED
  BY <1>1, <1>2

LEMMA QueryBecomes ==
  ASSUME CacheTypeOK, NEW t \in Threads, NEW r \in Queries, query' = [query EXCEPT ![t] = r]
  PROVE  /\ query' \in [Threads -> Queries]
         /\ query'[t] = r
         /\ \A u \in Threads \ {t} : query'[u] = query[u]
  BY DEF CacheTypeOK

\* A label that is true stays true while the store goes forward.
LEMMA LabelKept ==
  ASSUME TypeOK, TypeOK', CacheTypeOK, LabelIsTrue, Forward, graph' = graph
  PROVE  LabelIsTrue'
<1>1. /\ version \in Nat /\ version' \in Nat /\ graph.version \in Int
      /\ \A f \in Sources : disk[f] \in Nat /\ disk'[f] \in Nat /\ graph.built[f] \in Nat
  BY SourcesLoaded DEF TypeOK, CacheTypeOK
<1>2. graph.version <= version'
  BY <1>1 DEF LabelIsTrue, Forward
<1>3. ASSUME graph.version = version', NEW f \in Sources
      PROVE  signature'[f] <= graph.built[f]
  BY <1>1, <1>3 DEF LabelIsTrue, Forward
<1>4. \A f \in Sources : graph.built[f] <= disk'[f]
  BY <1>1, SourcesLoaded DEF LabelIsTrue, Forward
<1>5. QED
  BY <1>2, <1>3, <1>4 DEF LabelIsTrue

\* A query that takes no step keeps its order while the store goes forward, and while
\* the graph is replaced if the thread is in no query.
LEMMA QueryKept ==
  ASSUME TypeOK, TypeOK', CacheTypeOK, Forward, NEW t \in Threads, QueryInOrder(t),
         query'[t] = query[t], graph' = graph \/ At(t, "none"),
         At(t, "version") => thread'[t].asked = thread[t].asked
  PROVE  QueryInOrder(t)'
<1> DEFINE q == query[t]
<1>1. /\ version \in Nat /\ version' \in Nat /\ q.version \in Nat
      /\ \A f \in Sources :
           /\ disk[f] \in Nat /\ disk'[f] \in Nat /\ signature[f] \in Nat /\ signature'[f] \in Nat
           /\ q.asked[f] \in Nat /\ q.built[f] \in Nat
           /\ disk[f] <= disk'[f] /\ signature[f] <= signature'[f]
  BY QueryNumbers, SourcesLoaded DEF TypeOK, Forward
<1>2. /\ version <= version'
      /\ version' = version => signature' = signature
  BY DEF Forward
<1>3. q.at = "version" => \A f \in Sources : q.asked[f] <= thread'[t].asked[f]
  BY DEF QueryInOrder, At
<1>4. q.at \notin {"none", "version"} =>
        q.version <= version' /\ \A f \in Sources : q.asked[f] <= signature'[f]
  BY <1>1, <1>2 DEF QueryInOrder
<1>5. ASSUME NEW f \in Sources, TakenInTime(t, f), q.version <= version
      PROVE  /\ q.asked[f] <= q.built[f]
             /\ q.version = version' => signature'[f] <= q.built[f]
  BY <1>1, <1>2, <1>5 DEF TakenInTime
<1>6. /\ q.at \in Building \ {"nodes"} => TakenInTime(t, "nodes_roles")'
      /\ q.at \in {"built", "stored"} => TakenInTime(t, "edges_enriched")'
  <2>1. q.at \in Building => q.at \notin {"none", "version"} /\ q.version <= version
    BY DEF QueryInOrder, Building
  <2>2. q.at \in {"built", "stored"} => q.at \in Building
    BY DEF Building
  <2>3. QED
    BY <1>5, <2>1, <2>2, SourcesLoaded DEF QueryInOrder, TakenInTime
<1>7. /\ \A f \in Sources : q.built[f] <= disk'[f]
      /\ q.found # NotSearched =>
           \A f \in Sources : q.asked[f] <= q.found[f] /\ q.found[f] <= disk'[f]
  <2>1. q.found # NotSearched => \A f \in Sources : q.found[f] \in Nat
    BY DEF CacheTypeOK, Queries
  <2>2. QED
    BY <1>1, <2>1 DEF QueryInOrder
<1>8. CASE At(t, "none")
  BY <1>6, <1>7, <1>8 DEF QueryInOrder, At, Building
<1>9. CASE graph' = graph
  <2>1. /\ t \notin Queriers => q.at = "none"
        /\ q.at = "none" => q.found = NotSearched
        /\ q.at = "compare" =>
             /\ graph.version <= q.version
             /\ graph.version = q.version => \A f \in Sources : q.asked[f] <= graph.built[f]
        /\ q.at = "hit" => \A f \in Sources : q.asked[f] <= graph.built[f]
        /\ q.at \in Building => graph.version < q.version
        /\ q.at = "stored" => graph.built = q.built
        /\ q.at \in {"served", "profile", "profiled"} =>
             \A f \in Sources : q.asked[f] <= q.built[f]
    BY DEF QueryInOrder
  <2>2. QED
    BY <1>3, <1>4, <1>6, <1>7, <1>9, <2>1 DEF QueryInOrder
<1>10. QED
  BY <1>8, <1>9

\* A refresh does not forget what its thread has asked for.
LEMMA AskedKept ==
  ASSUME TypeOK, NEW t \in Threads, NEW u \in Threads, u # t \/ Refresh(u),
         Call(u) \/ Refresh(u) \/ Return(u)
  PROVE  thread'[t].asked = thread[t].asked
<1>1. CASE u # t
  BY <1>1, CallStep, AcquireStep, SignStep, LeaveStep, StartLoadingStep, LoadStep, ReturnStep
     DEF Refresh, UpToDate, LoadFails, FinishLoading
<1>2. CASE u = t
  BY <1>2, AcquireStep, SignStep, LeaveStep, StartLoadingStep, LoadStep
     DEF Refresh, UpToDate, LoadFails, FinishLoading
<1>3. QED
  BY <1>1, <1>2

-----------------------------------------------------------------------------
(* The steps of the thread that queries.                                   *)

\* What holds before a step, and of the store after it.
Before ==
  /\ ArtifactsInv /\ SignaturesInOrder /\ TypeOK' /\ Forward
  /\ CacheTypeOK /\ LabelIsTrue /\ QueriesInOrder

\* What the thread's own step is to keep.
Kept(t) ==
  /\ graph' \in [built: [Sources -> Nat], version: Nat \cup {-1}]
  /\ query' \in [Threads -> Queries]
  /\ \A u \in Threads \ {t} : query'[u] = query[u]
  /\ LabelIsTrue' /\ QueryInOrder(t)'

\* A step that keeps the graph is right if the query it leaves is.
LEMMA OwnStep ==
  ASSUME Before, NEW t \in Threads, NEW r \in Queries,
         query' = [query EXCEPT ![t] = r], graph' = graph,
         query'[t] = r => QueryInOrder(t)'
  PROVE  Kept(t)
<1>1. TypeOK /\ CacheTypeOK
  BY DEF Before, ArtifactsInv
<1>2. LabelIsTrue'
  BY <1>1, LabelKept DEF Before
<1>3. QED
  BY <1>1, <1>2, QueryBecomes DEF Kept, CacheTypeOK

LEMMA AskStep ==
  ASSUME Before, NEW t \in Threads, Ask(t)
  PROVE  Kept(t)
<1> DEFINE asked == [f \in Sources |-> disk[f]]
           r == [query[t] EXCEPT !.at = "version", !.asked = asked]
<1>1. TypeOK /\ CacheTypeOK /\ QueryInOrder(t)
  BY DEF Before, ArtifactsInv, QueriesInOrder
<1>2. asked \in [Sources -> Nat] /\ \A f \in Sources : asked[f] = disk[f]
  BY <1>1, SourcesLoaded DEF TypeOK
<1> HIDE DEF asked
<1>3. query[t] \in Queries
  BY <1>1 DEF CacheTypeOK
<1>4. r \in Queries
  BY <1>2, <1>3 DEF Queries
<1>5. /\ r.at = "version" /\ r.asked = asked
      /\ r.built = query[t].built /\ r.found = query[t].found
  BY <1>3 DEF Queries
<1>6. /\ query' = [query EXCEPT ![t] = r] /\ graph' = graph
      /\ t \in Queriers /\ query[t].at = "none"
  BY DEF Ask, asked, At
<1> HIDE DEF r
<1>7. thread'[t].asked = [f \in Loaded |-> disk[f]] /\ disk' = disk
  BY <1>1, CallStep DEF Ask, Call, pipelineVars
<1>8. \A f \in Sources : thread'[t].asked[f] = disk[f] /\ disk[f] \in Nat
  BY <1>1, <1>7, SourcesLoaded DEF TypeOK
<1>9. query[t].found = NotSearched /\ \A f \in Sources : query[t].built[f] <= disk[f]
  BY <1>1, <1>6 DEF QueryInOrder
<1>10. \A f \in Sources : asked[f] <= thread'[t].asked[f]
  BY <1>2, <1>8
<1>11. query'[t] = r => QueryInOrder(t)'
  BY <1>5, <1>6, <1>7, <1>9, <1>10 DEF QueryInOrder, Building
<1>12. QED
  BY <1>4, <1>6, <1>11, OwnStep

LEMMA ReadVersionStep ==
  ASSUME Before, NEW t \in Threads, ReadVersion(t)
  PROVE  Kept(t)
<1> DEFINE r == [query[t] EXCEPT !.at = "compare", !.version = version]
<1>1. TypeOK /\ CacheTypeOK /\ QueryInOrder(t) /\ LabelIsTrue /\ SignatureInOrder(t)
  BY DEF Before, ArtifactsInv, QueriesInOrder, SignaturesInOrder
<1>2. query[t] \in Queries /\ version \in Nat
  BY <1>1 DEF CacheTypeOK, TypeOK
<1>3. r \in Queries
  BY <1>2 DEF Queries, Building
<1>4. /\ r.at = "compare" /\ r.version = version /\ r.asked = query[t].asked
      /\ r.built = query[t].built /\ r.found = query[t].found
  BY <1>2 DEF Queries
<1>5. /\ query' = [query EXCEPT ![t] = r] /\ graph' = graph
      /\ query[t].at = "version" /\ thread[t].stage = "refreshed"
      /\ UNCHANGED <<disk, signature, version>>
  BY DEF ReadVersion, Return, At, Answered, pipelineVars, storeVars
<1> HIDE DEF r
<1>6. ASSUME NEW f \in Sources
      PROVE  /\ query[t].asked[f] <= signature[f]
             /\ graph.version = version => query[t].asked[f] <= graph.built[f]
  <2>1. query[t].asked[f] <= thread[t].asked[f] /\ thread[t].asked[f] <= signature[f]
    BY <1>1, <1>5, SourcesLoaded DEF QueryInOrder, SignatureInOrder
  <2>2. graph.version = version => signature[f] <= graph.built[f]
    BY <1>1 DEF LabelIsTrue
  <2>3. QED
    BY <1>1, <2>1, <2>2, QueryNumbers
<1>7. graph.version <= version /\ version <= version
  BY <1>1, <1>2 DEF LabelIsTrue
<1>8. query'[t] = r => QueryInOrder(t)'
  BY <1>1, <1>4, <1>5, <1>6, <1>7 DEF QueryInOrder, Building
<1>9. QED
  BY <1>3, <1>5, <1>8, OwnStep

LEMMA HitStep ==
  ASSUME Before, NEW t \in Threads, Hit(t)
  PROVE  Kept(t)
<1> DEFINE r == [query[t] EXCEPT !.at = "hit"]
<1>1. TypeOK /\ CacheTypeOK /\ QueryInOrder(t)
  BY DEF Before, ArtifactsInv, QueriesInOrder
<1>2. query[t] \in Queries
  BY <1>1 DEF CacheTypeOK
<1>3. r \in Queries
  BY <1>2 DEF Queries, Building
<1>4. /\ r.at = "hit" /\ r.version = query[t].version /\ r.asked = query[t].asked
      /\ r.built = query[t].built /\ r.found = query[t].found
  BY <1>2 DEF Queries
<1>5. /\ query' = [query EXCEPT ![t] = r] /\ graph' = graph
      /\ query[t].at = "compare" /\ query[t].version = graph.version
      /\ UNCHANGED <<disk, signature, version>>
  BY DEF Hit, At, artifactVars
<1> HIDE DEF r
<1>6. query'[t] = r => QueryInOrder(t)'
  BY <1>1, <1>4, <1>5 DEF QueryInOrder, Building
<1>7. QED
  BY <1>3, <1>5, <1>6, OwnStep

LEMMA UseGraphStep ==
  ASSUME Before, NEW t \in Threads, UseGraph(t)
  PROVE  Kept(t)
<1> DEFINE r == [query[t] EXCEPT !.at = "served", !.built = graph.built]
<1>1. TypeOK /\ CacheTypeOK /\ QueryInOrder(t) /\ LabelIsTrue
  BY DEF Before, ArtifactsInv, QueriesInOrder
<1>2. query[t] \in Queries /\ graph.built \in [Sources -> Nat]
  BY <1>1 DEF CacheTypeOK
<1>3. r \in Queries
  BY <1>2 DEF Queries, Building
<1>4. /\ r.at = "served" /\ r.version = query[t].version /\ r.asked = query[t].asked
      /\ r.built = graph.built /\ r.found = query[t].found
  BY <1>2 DEF Queries
<1>5. /\ query' = [query EXCEPT ![t] = r] /\ graph' = graph
      /\ query[t].at = "hit" /\ UNCHANGED <<disk, signature, version>>
  BY DEF UseGraph, At, artifactVars
<1> HIDE DEF r
<1>6. query'[t] = r => QueryInOrder(t)'
  BY <1>1, <1>4, <1>5 DEF QueryInOrder, LabelIsTrue, Building
<1>7. QED
  BY <1>3, <1>5, <1>6, OwnStep

LEMMA MissStep ==
  ASSUME Before, NEW t \in Threads, Miss(t)
  PROVE  Kept(t)
<1> DEFINE r == [query[t] EXCEPT !.at = "nodes"]
<1>1. TypeOK /\ CacheTypeOK /\ QueryInOrder(t)
  BY DEF Before, ArtifactsInv, QueriesInOrder
<1>2. query[t] \in Queries
  BY <1>1 DEF CacheTypeOK
<1>3. r \in Queries
  BY <1>2 DEF Queries, Building
<1>4. /\ r.at = "nodes" /\ r.version = query[t].version /\ r.asked = query[t].asked
      /\ r.built = query[t].built /\ r.found = query[t].found
  BY <1>2 DEF Queries
<1>5. /\ query' = [query EXCEPT ![t] = r] /\ graph' = graph
      /\ query[t].at = "compare" /\ query[t].version # graph.version
      /\ UNCHANGED <<disk, signature, version>>
  BY DEF Miss, Call, At, pipelineVars, storeVars
<1> HIDE DEF r
<1>6. graph.version < query[t].version
  BY <1>1, <1>5, QueryNumbers DEF QueryInOrder
<1>7. query'[t] = r => QueryInOrder(t)'
  BY <1>1, <1>4, <1>5, <1>6 DEF QueryInOrder, Building
<1>8. QED
  BY <1>3, <1>5, <1>7, OwnStep

\* A table that is taken is no older than the signature, and so than what was asked.
LEMMA TakeStep ==
  ASSUME Before, NEW t \in Threads, NEW place, NEW f \in Sources, NEW next, Take(t, place, f, next),
         \/ place = "nodes" /\ f = "nodes_roles" /\ next = "nodes taken"
         \/ place = "edges" /\ f = "edges_enriched" /\ next = "built"
  PROVE  Kept(t)
<1>1. TypeOK /\ CacheTypeOK /\ QueryInOrder(t) /\ ArtifactsInv
  BY DEF Before, ArtifactsInv, QueriesInOrder
<1>2. /\ query[t].at = place
      /\ query' = [query EXCEPT ![t].at = next, ![t].built[f] = tables[f]]
      /\ graph' = graph /\ UNCHANGED <<disk, signature, version>>
  BY DEF Take, Return, At, pipelineVars, storeVars
<1> DEFINE built == [query[t].built EXCEPT ![f] = tables[f]]
           r == [query[t] EXCEPT !.at = next, !.built = built]
<1>3. /\ query[t] \in Queries /\ query[t].built \in [Sources -> Nat] /\ tables[f] \in Nat
  BY <1>1, QueryNumbers DEF CacheTypeOK, Queries
<1>4. /\ built \in [Sources -> Nat] /\ built[f] = tables[f]
      /\ \A g \in Sources \ {f} : built[g] = query[t].built[g]
  BY <1>3
<1>5. query' = [query EXCEPT ![t] = r]
  BY <1>2
<1> HIDE DEF built
<1>6. r \in Queries
  BY <1>3, <1>4 DEF Queries, Building
<1>7. /\ r.at = next /\ r.version = query[t].version /\ r.asked = query[t].asked
      /\ r.built = built /\ r.found = query[t].found
  BY <1>3 DEF Queries
<1> HIDE DEF r
<1>8. query[t].at \in Building /\ query[t].at \notin {"none", "version"}
  BY <1>2 DEF Building
<1>9. query[t].asked[f] <= tables[f] /\ signature[f] <= tables[f] /\ tables[f] <= disk[f]
  <2>1. query[t].asked[f] <= signature[f]
    BY <1>1, <1>8 DEF QueryInOrder
  <2>2. QED
    BY <1>1, <2>1, StoreOrder, TablesAfterAsked
<1>10. ASSUME query'[t] = r PROVE QueryInOrder(t)'
  <2>1. TakenInTime(t, f)'
    BY <1>2, <1>4, <1>7, <1>9, <1>10 DEF TakenInTime
  <2>2. next = "built" => TakenInTime(t, "nodes_roles")'
    <3>1. ASSUME next = "built"
          PROVE  TakenInTime(t, "nodes_roles") /\ built["nodes_roles"] = query[t].built["nodes_roles"]
      BY <1>1, <1>2, <1>4, <3>1, SourcesLoaded DEF QueryInOrder, Building
    <3>2. QED
      BY <1>2, <1>7, <1>10, <3>1 DEF TakenInTime
  <2>3. \A g \in Sources : built[g] <= disk[g]
    BY <1>1, <1>4, <1>9 DEF QueryInOrder
  <2>4. /\ t \in Queriers /\ query[t].version <= version /\ graph.version < query[t].version
        /\ \A g \in Sources : query[t].asked[g] <= signature[g]
        /\ query[t].found # NotSearched =>
             \A g \in Sources : query[t].asked[g] <= query[t].found[g] /\ query[t].found[g] <= disk[g]
    BY <1>1, <1>8 DEF QueryInOrder
  <2>5. next \in Building \ {"nodes", "stored"}
    BY <1>2 DEF Building
  <2>6. next = "nodes taken" => f = "nodes_roles"
    BY <1>2
  <2>7. next = "built" => f = "edges_enriched"
    BY <1>2
  <2>8. QED
    BY <1>2, <1>7, <1>10, <2>1, <2>2, <2>3, <2>4, <2>5, <2>6, <2>7 DEF QueryInOrder, Building
<1>11. QED
  BY <1>2, <1>5, <1>6, <1>10, OwnStep

LEMMA CallEdgesStep ==
  ASSUME Before, NEW t \in Threads, CallEdges(t)
  PROVE  Kept(t)
<1> DEFINE r == [query[t] EXCEPT !.at = "edges"]
<1>1. TypeOK /\ CacheTypeOK /\ QueryInOrder(t)
  BY DEF Before, ArtifactsInv, QueriesInOrder
<1>2. query[t] \in Queries
  BY <1>1 DEF CacheTypeOK
<1>3. r \in Queries
  BY <1>2 DEF Queries, Building
<1>4. /\ r.at = "edges" /\ r.version = query[t].version /\ r.asked = query[t].asked
      /\ r.built = query[t].built /\ r.found = query[t].found
  BY <1>2 DEF Queries
<1>5. /\ query' = [query EXCEPT ![t] = r] /\ graph' = graph /\ query[t].at = "nodes taken"
      /\ UNCHANGED <<disk, signature, version>>
  BY DEF CallEdges, Call, At, pipelineVars, storeVars
<1> HIDE DEF r
<1>6. query'[t] = r => QueryInOrder(t)'
  BY <1>1, <1>4, <1>5 DEF QueryInOrder, Building, TakenInTime
<1>7. QED
  BY <1>3, <1>5, <1>6, OwnStep

\* While the graph is replaced, its label is an older one.
LEMMA StoreGraphStep ==
  ASSUME Before, NEW t \in Threads, StoreGraph(t)
  PROVE  Kept(t)
<1> DEFINE r == [query[t] EXCEPT !.at = "stored"]
<1>1. TypeOK /\ CacheTypeOK /\ QueryInOrder(t) /\ LabelIsTrue
  BY DEF Before, ArtifactsInv, QueriesInOrder
<1>2. query[t] \in Queries /\ query[t].built \in [Sources -> Nat]
  BY <1>1 DEF CacheTypeOK, Queries
<1>3. r \in Queries
  BY <1>2 DEF Queries, Building
<1>4. /\ r.at = "stored" /\ r.version = query[t].version /\ r.asked = query[t].asked
      /\ r.built = query[t].built /\ r.found = query[t].found
  BY <1>2 DEF Queries
<1>5. /\ query' = [query EXCEPT ![t] = r] /\ query[t].at = "built"
      /\ graph' = [graph EXCEPT !.built = query[t].built]
      /\ UNCHANGED <<disk, signature, version>>
  BY DEF StoreGraph, At, artifactVars
<1> HIDE DEF r
<1>6. /\ graph' \in [built: [Sources -> Nat], version: Nat \cup {-1}]
      /\ graph'.built = query[t].built /\ graph'.version = graph.version
  BY <1>1, <1>2, <1>5 DEF CacheTypeOK
<1>7. query' \in [Threads -> Queries] /\ query'[t] = r /\ \A u \in Threads \ {t} : query'[u] = query[u]
  BY <1>1, <1>3, <1>5, QueryBecomes
<1>8. graph.version < query[t].version /\ query[t].version <= version
  BY <1>1, <1>5 DEF QueryInOrder, Building
<1>9. graph.version < version
  BY <1>1, <1>8, QueryNumbers
<1>10. LabelIsTrue'
  BY <1>1, <1>5, <1>6, <1>9, QueryNumbers DEF LabelIsTrue, QueryInOrder
<1>11. QueryInOrder(t)'
  BY <1>1, <1>4, <1>5, <1>6, <1>7, <1>8 DEF QueryInOrder, Building, TakenInTime
<1>12. QED
  BY <1>6, <1>7, <1>10, <1>11 DEF Kept

LEMMA StoreLabelStep ==
  ASSUME Before, NEW t \in Threads, StoreLabel(t)
  PROVE  Kept(t)
<1> DEFINE r == [query[t] EXCEPT !.at = "served"]
<1>1. TypeOK /\ CacheTypeOK /\ QueryInOrder(t) /\ LabelIsTrue
  BY DEF Before, ArtifactsInv, QueriesInOrder
<1>2. query[t] \in Queries /\ query[t].version \in Nat
  BY <1>1 DEF CacheTypeOK, Queries
<1>3. r \in Queries
  BY <1>2 DEF Queries, Building
<1>4. /\ r.at = "served" /\ r.version = query[t].version /\ r.asked = query[t].asked
      /\ r.built = query[t].built /\ r.found = query[t].found
  BY <1>2 DEF Queries
<1>5. /\ query' = [query EXCEPT ![t] = r] /\ query[t].at = "stored"
      /\ graph' = [graph EXCEPT !.version = query[t].version]
      /\ UNCHANGED <<disk, signature, version>>
  BY DEF StoreLabel, At, artifactVars
<1> HIDE DEF r
<1>6. /\ graph' \in [built: [Sources -> Nat], version: Nat \cup {-1}]
      /\ graph'.built = graph.built /\ graph'.version = query[t].version
  BY <1>1, <1>2, <1>5 DEF CacheTypeOK
<1>7. query' \in [Threads -> Queries] /\ query'[t] = r /\ \A u \in Threads \ {t} : query'[u] = query[u]
  BY <1>1, <1>3, <1>5, QueryBecomes
<1>8. /\ query[t].version <= version /\ graph.built = query[t].built
      /\ TakenInTime(t, "nodes_roles") /\ TakenInTime(t, "edges_enriched")
  BY <1>1, <1>5 DEF QueryInOrder, Building
<1>9. \A f \in Sources : TakenInTime(t, f)
  BY <1>8, SourcesLoaded
<1>10. LabelIsTrue'
  BY <1>1, <1>5, <1>6, <1>8, <1>9 DEF LabelIsTrue, TakenInTime
<1>11. QueryInOrder(t)'
  BY <1>1, <1>4, <1>5, <1>7, <1>9 DEF QueryInOrder, Building, TakenInTime
<1>12. QED
  BY <1>6, <1>7, <1>10, <1>11 DEF Kept

LEMMA CallProfileStep ==
  ASSUME Before, NEW t \in Threads, CallProfile(t)
  PROVE  Kept(t)
<1> DEFINE found == IF query[t].found = NotSearched THEN query[t].built ELSE query[t].found
           r == [query[t] EXCEPT !.at = "profile", !.found = found]
<1>1. TypeOK /\ CacheTypeOK /\ QueryInOrder(t)
  BY DEF Before, ArtifactsInv, QueriesInOrder
<1>2. /\ query[t] \in Queries /\ query[t].built \in [Sources -> Nat]
      /\ query[t].found \in [Sources -> Nat] \cup {NotSearched}
  BY <1>1 DEF CacheTypeOK, Queries
<1>3. /\ query' = [query EXCEPT ![t] = r] /\ graph' = graph
      /\ query[t].at \in {"served", "profiled"}
      /\ UNCHANGED <<disk, signature, version>>
  BY DEF CallProfile, Call, At, pipelineVars, storeVars
<1>4. found \in [Sources -> Nat] \cup {NotSearched}
  BY <1>2
<1>5. \A f \in Sources : query[t].asked[f] <= found[f] /\ found[f] <= disk[f]
  BY <1>1, <1>3 DEF QueryInOrder
<1> HIDE DEF found
<1>6. r \in Queries
  BY <1>2, <1>4 DEF Queries, Building
<1>7. /\ r.at = "profile" /\ r.version = query[t].version /\ r.asked = query[t].asked
      /\ r.built = query[t].built /\ r.found = found
  BY <1>2 DEF Queries
<1> HIDE DEF r
<1>8. query'[t] = r => QueryInOrder(t)'
  BY <1>1, <1>3, <1>5, <1>7 DEF QueryInOrder, Building
<1>9. QED
  BY <1>3, <1>6, <1>8, OwnStep

LEMMA TakeProfileStep ==
  ASSUME Before, NEW t \in Threads, TakeProfile(t)
  PROVE  Kept(t)
<1> DEFINE r == [query[t] EXCEPT !.at = "profiled"]
<1>1. TypeOK /\ CacheTypeOK /\ QueryInOrder(t)
  BY DEF Before, ArtifactsInv, QueriesInOrder
<1>2. query[t] \in Queries
  BY <1>1 DEF CacheTypeOK
<1>3. r \in Queries
  BY <1>2 DEF Queries, Building
<1>4. /\ r.at = "profiled" /\ r.version = query[t].version /\ r.asked = query[t].asked
      /\ r.built = query[t].built /\ r.found = query[t].found
  BY <1>2 DEF Queries
<1>5. /\ query' = [query EXCEPT ![t] = r] /\ graph' = graph /\ query[t].at = "profile"
      /\ UNCHANGED <<disk, signature, version>>
  BY DEF TakeProfile, Return, At, pipelineVars, storeVars
<1> HIDE DEF r
<1>6. query'[t] = r => QueryInOrder(t)'
  BY <1>1, <1>4, <1>5 DEF QueryInOrder, Building
<1>7. QED
  BY <1>3, <1>5, <1>6, OwnStep

\* What a trace asks for again is newer than what it asked for first.
LEMMA AskAgainStep ==
  ASSUME Before, NEW t \in Threads, AskAgain(t)
  PROVE  Kept(t)
<1> DEFINE r == [query[t] EXCEPT !.at = "version"]
<1>1. TypeOK /\ CacheTypeOK /\ QueryInOrder(t) /\ ArtifactsInv
  BY DEF Before, ArtifactsInv, QueriesInOrder
<1>2. query[t] \in Queries
  BY <1>1 DEF CacheTypeOK
<1>3. r \in Queries
  BY <1>2 DEF Queries, Building
<1>4. /\ r.at = "version" /\ r.version = query[t].version /\ r.asked = query[t].asked
      /\ r.built = query[t].built /\ r.found = query[t].found
  BY <1>2 DEF Queries
<1>5. /\ query' = [query EXCEPT ![t] = r] /\ graph' = graph /\ query[t].at = "profiled"
      /\ UNCHANGED <<disk, signature, version>>
  BY DEF AskAgain, Call, At, pipelineVars, storeVars
<1> HIDE DEF r
<1>6. thread'[t].asked = [f \in Loaded |-> disk[f]]
  BY <1>1, CallStep DEF AskAgain
<1>7. ASSUME NEW f \in Sources
      PROVE  query[t].asked[f] <= thread'[t].asked[f]
  <2>1. query[t].asked[f] <= signature[f] /\ signature[f] <= disk[f]
    BY <1>1, <1>5, StoreOrder DEF QueryInOrder
  <2>2. QED
    BY <1>1, <1>6, <2>1, SourcesLoaded, QueryNumbers
<1>8. query'[t] = r => QueryInOrder(t)'
  BY <1>1, <1>4, <1>5, <1>7 DEF QueryInOrder, Building
<1>9. QED
  BY <1>3, <1>5, <1>8, OwnStep

LEMMA EndStep ==
  ASSUME Before, NEW t \in Threads, Serve(t) \/ Fail(t)
  PROVE  Kept(t)
<1>1. TypeOK /\ TypeOK'
  BY DEF Before, ArtifactsInv
<1>2. NoQuery \in Queries
  BY DEF NoQuery, Queries, Building
<1>3. NoQuery.at = "none" /\ NoQuery.found = NotSearched /\ \A f \in Sources : NoQuery.built[f] = 0
  BY DEF NoQuery
<1>4. query' = [query EXCEPT ![t] = NoQuery] /\ graph' = graph
  BY DEF Serve, Fail
<1>5. \A f \in Sources : 0 <= disk'[f]
  BY <1>1, SourcesLoaded DEF TypeOK
<1>6. query'[t] = NoQuery => QueryInOrder(t)'
  BY <1>3, <1>5 DEF QueryInOrder, Building
<1>7. QED
  BY <1>2, <1>4, <1>6, OwnStep

LEMMA QueryStep ==
  ASSUME Before, NEW t \in Threads, Query(t)
  PROVE  Kept(t)
<1>1. CASE TakeNodes(t) \/ TakeEdges(t)
  BY <1>1, TakeStep, SourcesLoaded DEF TakeNodes, TakeEdges
<1>2. CASE ~ (TakeNodes(t) \/ TakeEdges(t))
  BY <1>2, AskStep, ReadVersionStep, HitStep, UseGraphStep, MissStep, CallEdgesStep,
     StoreGraphStep, StoreLabelStep, CallProfileStep, TakeProfileStep, AskAgainStep, EndStep
     DEF Query
<1>3. QED
  BY <1>1, <1>2

-----------------------------------------------------------------------------
(* One thread queries, any number of others call the store.                *)

OneQuerier == \A t, u \in Queriers : t = u

CacheInv == CacheTypeOK /\ LabelIsTrue /\ QueriesInOrder

LEMMA CacheInvInit == CacheInit => CacheInv
<1> SUFFICES ASSUME CacheInit PROVE CacheInv
  OBVIOUS
<1>1. NoQuery \in Queries /\ NoQuery.at = "none" /\ NoQuery.found = NotSearched
      /\ \A f \in Sources : NoQuery.built[f] = 0
  BY DEF NoQuery, Queries, Building
<1>2. /\ graph = [built |-> [f \in Sources |-> 0], version |-> -1]
      /\ query = [t \in Threads |-> NoQuery]
      /\ version = 0 /\ TypeOK
  BY TypeInit DEF CacheInit, Init
<1> HIDE DEF NoQuery
<1>3. CacheTypeOK
  BY <1>1, <1>2 DEF CacheTypeOK
<1>4. \A f \in Sources : 0 <= disk[f] /\ graph.built[f] = 0
  BY <1>2, SourcesLoaded DEF TypeOK
<1>5. LabelIsTrue
  BY <1>2, <1>4 DEF LabelIsTrue
<1>6. ASSUME NEW t \in Threads PROVE QueryInOrder(t)
  BY <1>1, <1>2, <1>4 DEF QueryInOrder, Building
<1>7. QED
  BY <1>3, <1>5, <1>6 DEF CacheInv, QueriesInOrder

LEMMA CacheInvStep ==
  ASSUME OneQuerier, ArtifactsInv, SignaturesInOrder, CacheInv, [CacheNext]_cacheVars
  PROVE  CacheInv'
<1>1. [Next]_artifactVars
  BY CacheStepIsStoreStep
<1>2. Before /\ TypeOK /\ TypeOK' /\ CacheTypeOK
  BY <1>1, TypeStep, StoreForward DEF Before, ArtifactsInv, CacheInv
<1>3. ASSUME NEW t \in Threads, query'[t] = query[t], graph' = graph \/ At(t, "none"),
             At(t, "version") => thread'[t].asked = thread[t].asked
      PROVE  QueryInOrder(t)'
  BY <1>2, <1>3, QueryKept DEF Before, QueriesInOrder
<1>4. ASSUME UNCHANGED <<graph, query>>,
             \A t \in Threads : At(t, "version") => thread'[t].asked = thread[t].asked
      PROVE  CacheInv'
  <2>1. LabelIsTrue'
    BY <1>2, <1>4, LabelKept DEF Before
  <2>2. QueriesInOrder'
    BY <1>3, <1>4 DEF QueriesInOrder
  <2>3. CacheTypeOK'
    BY <1>2, <1>4 DEF CacheTypeOK
  <2>4. QED
    BY <2>1, <2>2, <2>3 DEF CacheInv
<1>5. CASE Pipeline /\ UNCHANGED <<graph, query>>
  <2>1. UNCHANGED thread
    BY <1>5 DEF Pipeline, StageRun, StartPublishing, PublishFile, RecordRun, EndRun
  <2>2. QED
    BY <1>4, <1>5, <2>1
<1>6. ASSUME NEW u \in Threads, Store(u)
      PROVE  CacheInv'
  <2>1. ASSUME NEW t \in Threads, At(t, "version")
        PROVE  thread'[t].asked = thread[t].asked
    <3>1. u # t \/ Refresh(u)
      BY <1>6, <2>1 DEF Store, At
    <3>2. QED
      BY <1>2, <1>6, <3>1, AskedKept DEF Store
  <2>2. QED
    BY <1>4, <1>6, <2>1 DEF Store
<1>7. ASSUME NEW u \in Threads, Query(u)
      PROVE  CacheInv'
  <2>1. Kept(u)
    BY <1>2, <1>7, QueryStep
  <2>2. u \in Queriers
    <3>1. u \in Queriers \/ ~ At(u, "none")
      BY <1>7 DEF Query, Ask, ReadVersion, Hit, UseGraph, Miss, Take, TakeNodes, CallEdges,
           TakeEdges, StoreGraph, StoreLabel, CallProfile, TakeProfile, AskAgain, Serve, Fail, At
    <3>2. QED
      BY <1>2, <3>1 DEF Before, QueriesInOrder, QueryInOrder, At
  <2>3. ASSUME NEW t \in Threads \ {u}
        PROVE  QueryInOrder(t)'
    <3>1. t \notin Queriers
      BY <2>2 DEF OneQuerier
    <3>2. At(t, "none") /\ query'[t] = query[t]
      BY <1>2, <2>1, <3>1 DEF Before, QueriesInOrder, QueryInOrder, At, Kept
    <3>3. QED
      BY <1>3, <3>2 DEF At
  <2>4. QED
    BY <2>1, <2>3 DEF Kept, CacheInv, QueriesInOrder, CacheTypeOK
<1>8. CASE UNCHANGED cacheVars
  BY <1>4, <1>8 DEF cacheVars, artifactVars
<1>9. QED
  BY <1>5, <1>6, <1>7, <1>8 DEF CacheNext

\* The signature goes forward with the files, and an answered thread has asked for no
\* more than the signature has seen.
THEOREM SignaturesCorrect == Spec => []SignaturesInOrder
<1>1. Init => SignaturesInOrder
  BY DEF Init, Idle, SignaturesInOrder, SignatureInOrder
<1>2. QED
  BY <1>1, SignaturesStep, ArtifactsInvariant, PTL DEF Spec

\* Where one thread queries, and any number of others call the store meanwhile, a graph
\* with the label of the store's version has what the store's signature has seen.
THEOREM CacheInvariant ==
  ASSUME OneQuerier
  PROVE  CacheSpec => []CacheInv
<1>1. CacheInv /\ ArtifactsInv /\ SignaturesInOrder /\ [CacheNext]_cacheVars => CacheInv'
  BY CacheInvStep
<1>2. QED
  BY <1>1, CacheInvInit, CacheKeepsStore, ArtifactsInvariant, SignaturesCorrect, PTL DEF CacheSpec

\* A query is answered from files at least as new as those on disk when it was asked.
THEOREM ServedGraphsAreFresh ==
  ASSUME OneQuerier
  PROVE  CacheSpec => []ServedGraphIsFresh
<1>1. CacheInv => ServedGraphIsFresh
  <2> SUFFICES ASSUME CacheInv, NEW t \in Queriers, At(t, "served"), NEW f \in Sources
               PROVE  query[t].built[f] >= query[t].asked[f]
    BY DEF ServedGraphIsFresh
  <2>1. query[t].asked[f] <= query[t].built[f]
    BY GraphCacheAssumption DEF CacheInv, QueriesInOrder, QueryInOrder, At
  <2>2. query[t].asked \in [Sources -> Nat] /\ query[t].built \in [Sources -> Nat]
    BY GraphCacheAssumption DEF CacheInv, CacheTypeOK, Queries
  <2>3. query[t].asked[f] \in Nat /\ query[t].built[f] \in Nat
    BY <2>2
  <2>4. QED
    BY <2>1, <2>3
<1>2. QED
  BY <1>1, CacheInvariant, PTL

\* A trace is measured in the graph in which its paths were found, unless a file was
\* replaced meanwhile: both graphs lie between the files the trace began with and those
\* that are there now, and so they are the same if these are.
THEOREM TracesAreOfOneRun ==
  ASSUME OneQuerier
  PROVE  CacheSpec => []TraceIsOfOneRun
<1>1. CacheInv /\ ArtifactsInv => TraceIsOfOneRun
  <2> SUFFICES ASSUME CacheInv, ArtifactsInv, NEW t \in Queriers, At(t, "served"),
                      query[t].found # NotSearched, \A f \in Sources : disk[f] = query[t].asked[f]
               PROVE  query[t].built = query[t].found
    BY DEF TraceIsOfOneRun
  <2>1. t \in Threads /\ TypeOK /\ CacheTypeOK /\ QueryInOrder(t)
    BY GraphCacheAssumption DEF CacheInv, QueriesInOrder, ArtifactsInv
  <2>2. query[t].built \in [Sources -> Nat] /\ query[t].found \in [Sources -> Nat]
    BY <2>1 DEF CacheTypeOK, Queries
  <2>3. ASSUME NEW f \in Sources
        PROVE  query[t].built[f] = query[t].found[f]
    <3>1. /\ query[t].asked[f] <= query[t].built[f] /\ query[t].built[f] <= disk[f]
          /\ query[t].asked[f] <= query[t].found[f] /\ query[t].found[f] <= disk[f]
      BY <2>1 DEF QueryInOrder, At
    <3>2. disk[f] \in Nat /\ query[t].built[f] \in Nat /\ query[t].found[f] \in Nat
      BY <2>1, <2>2, QueryNumbers
    <3>3. QED
      BY <3>1, <3>2
  <2>4. QED
    BY <2>2, <2>3
<1>2. QED
  BY <1>1, CacheInvariant, CacheKeepsStore, ArtifactsInvariant, PTL

==============================================================================
