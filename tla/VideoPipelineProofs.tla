-------------------------- MODULE VideoPipelineProofs --------------------------
(***************************************************************************)
(* Theorems about VideoPipeline, for any number of requests, messages and  *)
(* executions: what the API and the client may write beside the workflow   *)
(* disturbs none of what is proved of it, under every fault or under every *)
(* one but overruns, and what is sent bounds what is run.                  *)
(***************************************************************************)
EXTENDS VideoPipeline, VideoWorkflowProofs

-------------------------------------------------------------------------------
\* What the API and the client do to what the workflow works on: a status is written
\* over the row, or the file is replaced.
Writes(st) ==
    /\ video' = [video EXCEPT !.status = st]
    /\ UNCHANGED <<jobs, assets, objects, original, slot, flow>>

Replaces ==
    /\ original' \in Heights
    /\ UNCHANGED <<video, jobs, assets, objects, slot, flow>>

OutsideStep ==
    \/ video.status = "absent" /\ Writes("pending_upload")
    \/ Writes("processing") /\ \E r \in Requests : request[r].pc = "commit"
    \/ Replaces

\* Every step of the pipeline is one of the workflow, of these, or of the queue alone.
LEMMA PipelineIsWorkflow ==
    ASSUME [PipelineNext]_pipelineVars
    PROVE  [WorkflowNext]_vars \/ OutsideStep
<1>1. CASE CreateVideo
  BY <1>1 DEF CreateVideo, OutsideStep, Writes
<1>2. ASSUME NEW m \in Messages,
             StoreUpload(m) \/ NotifyAgain(m) \/ QueueMoves(m)
      PROVE  UNCHANGED vars
  BY <1>2 DEF StoreUpload, NotifyAgain, QueueMoves
<1>3. ASSUME NEW m \in Messages, HandleMessage(m) \/ StartWorkflowFails(m)
      PROVE  StartWorkflow \/ UNCHANGED vars
  BY <1>3 DEF HandleMessage, StartWorkflowFails
<1>4. ASSUME NEW m \in Messages, NEW h \in Heights, ReplaceUpload(h, m)
      PROVE  Replaces
  BY <1>4 DEF ReplaceUpload, Replaces
<1>5. ASSUME NEW r \in Requests, RetryCommit(r)
      PROVE  Writes("processing") /\ request[r].pc = "commit"
  BY <1>5 DEF RetryCommit, Writes
<1>6. ASSUME NEW r \in Requests,
             RetryRead(r) \/ RetryFails(r) \/ \E m \in Messages : RetrySend(r, m)
      PROVE  UNCHANGED vars
  BY <1>6 DEF RetryRead, RetryFails, RetrySend
<1>7. CASE ShimLoops \/ ShimFails \/ UNCHANGED pipelineVars
  BY <1>7 DEF ShimLoops, ShimFails, pipelineVars
<1> QED
  BY <1>1, <1>2, <1>3, <1>4, <1>5, <1>6, <1>7 DEF PipelineNext, OutsideStep, WorkflowNext

\* What is outside the workflow touches no attempt, no result and no bookkeeping.
LEMMA OutsideKeepsFlow ==
    ASSUME FlowInv, OutsideStep
    PROVE  /\ FlowInv'
           /\ UNCHANGED <<jobs, assets, objects, slot, execution, runs, activity, result, stale>>
           /\ video' \in [status : VideoStatuses, height : Heights \cup {None}]
           /\ video'.height = video.height
           /\ video'.status \in {video.status, "pending_upload", "processing"}
<1>1. /\ UNCHANGED <<jobs, assets, objects, slot, execution, runs, activity, result, stale>>
      /\ original' \in Heights
  BY DEF OutsideStep, Writes, Replaces, flow, FlowInv, TypeInv, JobsTypeOK
<1>2. /\ video' \in [status : VideoStatuses, height : Heights \cup {None}]
      /\ video'.height = video.height
      /\ video'.status \in {video.status, "pending_upload", "processing"}
  BY DEF OutsideStep, Writes, Replaces, FlowInv, TypeInv, JobsTypeOK, VideoStatuses
<1>3. TypeInv'
  BY <1>1, <1>2 DEF FlowInv, TypeInv, JobsTypeOK, HasJob
<1>4. ServerInv'
  BY <1>1 DEF FlowInv, ServerInv, FlowTypeOK, SlotsOK, OrderOK, HeightOK, Awaited, Heard, At
<1> QED
  BY <1>1, <1>2, <1>3, <1>4 DEF FlowInv

\* None of what is proved of attempts that do not overlap is about the status alone,
\* or about the file.
LEMMA OutsideKeepsLone ==
    ASSUME LoneInv, RecordInv, OutsideStep
    PROVE  LoneInv' /\ RecordInv'
<1>1. FlowInv' /\ UNCHANGED <<jobs, assets, objects, slot, execution, runs, activity, result, stale>>
  BY OutsideKeepsFlow DEF LoneInv
<1>2. /\ video' \in [status : VideoStatuses, height : Heights \cup {None}]
      /\ video'.height = video.height
      /\ video'.status \in {video.status, "pending_upload", "processing"}
  BY OutsideKeepsFlow DEF LoneInv
<1>5. AloneInv'
  <2>1. FinishedVideoHasFinishedJobs'
    BY <1>1, <1>2 DEF LoneInv, AloneInv, FinishedVideoHasFinishedJobs
  <2>2. \A s \in Slots : Fresh(slot[s]) => Fresh(slot[s])'
    BY <1>1 DEF Fresh
  <2> QED
    BY <1>1, <2>1, <2>2 DEF LoneInv, AloneInv, Alone
<1>6. QuietInv'
  <2>1. SessionsOK'
    BY <1>1, <1>2 DEF LoneInv, QuietInv, SessionsOK
  <2>2. ReportsOK' /\ TranscodeOK'
    BY <1>1 DEF LoneInv, QuietInv, ReportsOK, TranscodeOK, At
  <2> QED
    BY <1>1, <2>1, <2>2 DEF LoneInv, QuietInv
<1>7. RecordInv'
  <2>1. RecordOK'
    BY <1>1, <1>2 DEF RecordInv, RecordOK
  <2>2. \A s \in Slots : OfRecord(slot[s]) => OfRecord(slot[s])'
    BY <1>1, <1>2 DEF OfRecord
  <2> QED
    BY <1>1, <2>1, <2>2 DEF RecordInv
<1> QED
  BY <1>1, <1>5, <1>6, <1>7 DEF LoneInv

-------------------------------------------------------------------------------
\* An execution that completed has completed every job; a video that reads as not yet
\* processed or failed has a job left.
DeliveredOK ==
    /\ execution = "completed" => Done = JobTypes
    /\ video.status \in {"absent", "pending_upload", "failed"} => Done # JobTypes

CoreInv == LoneInv /\ RecordInv /\ DeliveredOK

\* Nothing is done at first.
LEMMA CoreInit == PipelineInit => CoreInv
<1> SUFFICES ASSUME PipelineInit PROVE CoreInv
  OBVIOUS
<1>1. WorkflowInit
  BY DEF PipelineInit
<1>2. LoneInv /\ RecordInv
  BY <1>1, TypeInit, ServerInit, AloneInit, QuietInit, RecordInit DEF WorkflowInit, LoneInv, FlowInv
<1>3. Done = {} /\ execution = "none"
  BY <1>1 DEF WorkflowInit, JobsInit, Done, NoRow
<1> QED
  BY <1>2, <1>3 DEF CoreInv, DeliveredOK, JobTypes

\* What the lifecycle allows keeps a video from being delivered with a job left.
LEMMA DeliveredStep ==
    ASSUME DeliveredOK, LifecycleMoves
    PROVE  DeliveredOK' /\ (video.status # "absent" => video'.status # "absent")
<1>1. Done \subseteq JobTypes
  BY DEF Done
<1> USE DEF DeliveredOK
<1>2. CASE UNCHANGED Seen
  BY <1>2 DEF Seen
<1>3. CASE Lifecycle!Start \/ Lifecycle!Claim \/ Lifecycle!Fail \/ Lifecycle!Close
  BY <1>3 DEF Lifecycle!Start, Lifecycle!Claim, Lifecycle!Fail, Lifecycle!Close, Done
<1>4. ASSUME NEW j \in JobTypes, Lifecycle!Finish(j)
      PROVE  DeliveredOK' /\ (video.status # "absent" => video'.status # "absent")
  BY <1>4 DEF Lifecycle!Finish, Done
<1> QED
  BY <1>2, <1>3, <1>4 DEF LifecycleMoves, Lifecycle!WorkerNext

\* Every step of the pipeline keeps what the workflow keeps, and the video stays.
LEMMA CoreStep ==
    ASSUME "overrun" \notin Faults, CoreInv, [PipelineNext]_pipelineVars
    PROVE  CoreInv' /\ (video.status # "absent" => video'.status # "absent")
<1>1. CASE [WorkflowNext]_vars
  BY <1>1, LoneFlowStep, RecordStep, LifecycleStep, DeliveredStep DEF CoreInv
<1>2. CASE OutsideStep
  <2>1. video \in [status : VideoStatuses, height : Heights \cup {None}]
    BY DEF CoreInv, LoneInv, FlowInv, TypeInv, JobsTypeOK
  <2>2. Done' = Done /\ execution' = execution
    BY <1>2 DEF OutsideStep, Writes, Replaces, Done, flow
  <2>3. DeliveredOK' /\ (video.status # "absent" => video'.status # "absent")
    BY <1>2, <2>1, <2>2 DEF CoreInv, DeliveredOK, OutsideStep, Writes, Replaces
  <2> QED
    BY <1>2, <2>3, OutsideKeepsLone DEF CoreInv
<1> QED
  BY <1>1, <1>2, PipelineIsWorkflow

\* It holds of every behaviour of the pipeline.
LEMMA CoreInvariant ==
    ASSUME "overrun" \notin Faults
    PROVE  PipelineSafety => []CoreInv
BY CoreInit, CoreStep, PTL DEF PipelineSafety

\* An execution begins alone, whoever asked for it: neither a retry nor a duplicate
\* message finds an attempt of an earlier one still at work.
THEOREM PipelineClosedIsQuiet ==
    ASSUME "overrun" \notin Faults
    PROVE  PipelineSafety => []ClosedExecutionIsQuiet
<1>1. CoreInv => ClosedExecutionIsQuiet
  BY QuietWhenClosed DEF CoreInv
<1> QED
  BY <1>1, CoreInvariant, PTL

-------------------------------------------------------------------------------
\* What the attempts have stored, whatever file is there and however they overlap: what
\* an attempt is about to record it has uploaded, down to the last of its assets.
Holds(a) ==
    /\ a.produced \subseteq objects
    /\ a.fresh \subseteq a.produced
    /\ a.job # "metadata" /\ a.pc \in {"upsert", "flush", "commit"} =>
          AssetsOf(a.job, a.sourceHeight) \subseteq a.produced
    /\ a.pc \in {"flush", "commit"} /\ a.job # "metadata" => a.produced \subseteq a.fresh \cup assets

StoredInv ==
    /\ AssetRowsHaveObjects
    /\ jobs["thumbnail"].status = "completed" => "thumbnail" \in assets
    /\ \A s \in Slots : Holds(slot[s])

\* An attempt that has ended, or only begun, holds nothing.
LEMMA NothingHeld ==
    ASSUME NEW a, a.pc \notin {"upsert", "flush", "commit"}, a.produced = {}, a.fresh = {}
    PROVE  Holds(a)
BY DEF Holds

\* What a commit writes is stored, and it takes no asset back.
LEMMA CommitIsStored ==
    ASSUME TypeInv, StoredInv, NEW s \in Slots, slot[s].job \in JobTypes, objects' = objects,
           \/ InsertRow(s) \/ ClaimRows(s) \/ FailRows(s) \/ UNCHANGED rows
           \/ slot[s].pc = "commit" /\ CompleteRows(s)
    PROVE  /\ assets \subseteq assets' /\ AssetRowsHaveObjects'
           /\ jobs'["thumbnail"].status = "completed" => "thumbnail" \in assets'
<1> DEFINE a == slot[s]
<1>1. Holds(a) /\ jobs \in [JobTypes -> JobRow] /\ "thumbnail" \in JobTypes
  BY DEF StoredInv, TypeInv, JobsTypeOK, JobTypes
<1>2. CASE InsertRow(s) \/ ClaimRows(s) \/ FailRows(s) \/ UNCHANGED rows
  <2>1. assets' = assets
    BY <1>2 DEF InsertRow, ClaimRows, FailRows, rows
  <2>2. jobs'["thumbnail"].status = "completed" => jobs["thumbnail"].status = "completed"
    BY <1>1, <1>2 DEF InsertRow, NewRow, ClaimRows, FailRows, rows, JobRow
  <2> QED
    BY <2>1, <2>2 DEF StoredInv, AssetRowsHaveObjects
<1>3. CASE slot[s].pc = "commit" /\ CompleteRows(s)
  <2>1. assets' = assets \cup a.fresh
    BY <1>3 DEF CompleteRows
  <2>2. AssetRowsHaveObjects'
    BY <1>1, <2>1 DEF StoredInv, AssetRowsHaveObjects, Holds
  <2>3. CASE a.job = "thumbnail"
    <3>1. "thumbnail" \in a.produced
      BY <1>1, <1>3, <2>3 DEF Holds, AssetsOf
    <3> QED
      BY <1>1, <1>3, <2>1, <2>2, <2>3, <3>1 DEF Holds
  <2>4. CASE a.job # "thumbnail"
    <3>1. jobs'["thumbnail"] = jobs["thumbnail"]
      BY <1>1, <1>3, <2>4 DEF CompleteRows
    <3> QED
      BY <2>1, <2>2, <3>1 DEF StoredInv
  <2> QED
    BY <2>3, <2>4
<1> QED
  BY <1>2, <1>3

\* Every step of a slot keeps it, whoever starts the attempts: one case per action.
LEMMA StoredStep ==
    ASSUME TypeInv, StoredInv, NEW s \in Slots, AnyStep(s)
    PROVE  StoredInv'
<1> PICK a : a = slot[s]
  OBVIOUS
<1>1. /\ a \in Attempt /\ Holds(a) /\ (a.pc # "idle" => a.job \in JobTypes)
      /\ slot \in [Slots -> Attempt]
  BY DEF TypeInv, JobsTypeOK, HasJob, StoredInv
\* What is needed of a step: the slot takes b, which is sound of what is stored then.
<1>2. ASSUME NEW b, Becomes(s, b), assets \subseteq assets', objects \subseteq objects',
             AssetRowsHaveObjects',
             jobs'["thumbnail"].status = "completed" => "thumbnail" \in assets',
             NEW c, c = b, Holds(c)'
      PROVE  StoredInv'
  <2>1. slot'[s] = b /\ \A t \in Slots \ {s} : slot'[t] = slot[t]
    BY <1>1, <1>2 DEF Becomes
  <2>2. ASSUME NEW t \in Slots PROVE Holds(slot[t])'
    <3>1. CASE t = s
      BY <1>2, <2>1, <3>1 DEF Holds
    <3>2. CASE t # s
      <4>1. Holds(slot[t]) /\ slot'[t] = slot[t]
        BY <2>1, <3>2 DEF StoredInv
      <4> QED
        BY <1>2, <4>1 DEF Holds
    <3> QED
      BY <3>1, <3>2
  <2> QED
    BY <1>2, <2>2 DEF StoredInv
<1>3. ASSUME NEW b, Becomes(s, b), UNCHANGED <<rows, objects>>, Holds(b)
      PROVE  StoredInv'
  <2>1. PICK c : c = b
    OBVIOUS
  <2>2. Holds(c)'
    BY <1>3, <2>1 DEF Holds, rows
  <2> QED
    BY <1>2, <1>3, <2>1, <2>2 DEF rows, StoredInv, AssetRowsHaveObjects
<1>4. ASSUME NEW pc \in Reported \cup {"lost"}, NEW h, EndWith(s, pc, h), a.job \in JobTypes,
             objects' = objects,
             \/ InsertRow(s) \/ ClaimRows(s) \/ FailRows(s) \/ UNCHANGED rows
             \/ slot[s].pc = "commit" /\ CompleteRows(s)
      PROVE  StoredInv'
  <2> DEFINE b == [Idle EXCEPT !.job = a.job, !.pc = pc, !.height = h]
  <2>1. b.pc = pc /\ b.produced = {} /\ b.fresh = {}
    BY DEF Idle
  <2>2. Becomes(s, b)
    BY <1>4 DEF EndWith
  <2> HIDE DEF b
  <2>3. PICK c : c = b
    OBVIOUS
  <2>4. pc \notin {"upsert", "flush", "commit"}
    BY DEF Reported
  <2>5. Holds(c)'
    BY <2>1, <2>3, <2>4 DEF Holds
  <2>6. /\ assets \subseteq assets' /\ AssetRowsHaveObjects'
        /\ jobs'["thumbnail"].status = "completed" => "thumbnail" \in assets'
    BY <1>4, CommitIsStored
  <2> QED
    BY <1>2, <1>4, <2>2, <2>3, <2>5, <2>6
<1>5. ASSUME NEW pc \in Reported \cup {"lost"}, End(s, pc), a.job \in JobTypes, objects' = objects,
             \/ InsertRow(s) \/ ClaimRows(s) \/ FailRows(s) \/ UNCHANGED rows
             \/ slot[s].pc = "commit" /\ CompleteRows(s)
      PROVE  StoredInv'
  BY <1>4, <1>5 DEF End
\* Steps before the upsert that keep what was produced.
<1>6. ASSUME NEW b, Becomes(s, b), a.job \in JobTypes, UNCHANGED objects,
             InsertRow(s) \/ ClaimRows(s) \/ UNCHANGED rows,
             b.pc \notin {"upsert", "flush", "commit"} \/ (b.job = "metadata" /\ b.pc = "flush"),
             b.produced = a.produced, b.fresh = a.fresh
      PROVE  StoredInv'
  <2>1. PICK c : c = b
    OBVIOUS
  <2>2. Holds(c)'
    BY <1>1, <1>6, <2>1 DEF Holds
  <2>3. /\ assets \subseteq assets' /\ AssetRowsHaveObjects'
        /\ jobs'["thumbnail"].status = "completed" => "thumbnail" \in assets'
    BY <1>6, CommitIsStored
  <2> QED
    BY <1>2, <1>6, <2>1, <2>2, <2>3
<1> USE DEF At
<1>21. CASE LoadVideo(s)
  <2>1. CASE End(s, "refused")
    BY <1>1, <1>5, <1>21, <2>1 DEF LoadVideo, Reported
  <2>2. CASE Becomes(s, [a EXCEPT !.pc = "read", !.status = video.status, !.height = video.height])
    <3>1. PICK b : b = [a EXCEPT !.pc = "read", !.status = video.status, !.height = video.height]
      OBVIOUS
    <3>2. b.pc = "read" /\ b.produced = a.produced /\ b.fresh = a.fresh
      BY <1>1, <3>1 DEF Attempt
    <3> QED
      BY <1>1, <1>6, <1>21, <2>2, <3>1, <3>2 DEF LoadVideo
  <2> QED
    BY <1>21, <2>1, <2>2 DEF LoadVideo
<1>22. CASE ReadJob(s)
  <2>0. a.job \in JobTypes /\ UNCHANGED <<rows, objects>>
    BY <1>1, <1>22 DEF ReadJob
  <2>1. CASE Goto(s, "insert")
    <3>1. PICK b : b = [a EXCEPT !.pc = "insert"]
      OBVIOUS
    <3>2. b.pc = "insert" /\ b.produced = a.produced /\ b.fresh = a.fresh
      BY <1>1, <3>1 DEF Attempt
    <3> QED
      BY <1>6, <2>0, <2>1, <3>1, <3>2 DEF Goto
  <2>2. CASE Becomes(s, [a EXCEPT !.pc = "claim", !.row = jobs[a.job]])
    <3>1. PICK b : b = [a EXCEPT !.pc = "claim", !.row = jobs[a.job]]
      OBVIOUS
    <3>2. b.pc = "claim" /\ b.produced = a.produced /\ b.fresh = a.fresh
      BY <1>1, <3>1 DEF Attempt
    <3> QED
      BY <1>6, <2>0, <2>2, <3>1, <3>2
  <2>3. CASE End(s, "refused") \/ End(s, "returned")
    BY <1>5, <2>0, <2>3 DEF Reported
  <2>4. CASE EndWith(s, "returned", a.height)
    BY <1>4, <2>0, <2>4 DEF Reported
  <2> QED
    BY <1>22, <2>1, <2>2, <2>3, <2>4 DEF ReadJob
<1>23. CASE InsertJob(s)
  <2>0. a.job \in JobTypes /\ UNCHANGED objects
    BY <1>1, <1>23 DEF InsertJob
  <2>1. CASE InsertRow(s) /\ Becomes(s, [a EXCEPT !.pc = "claim", !.row = NewRow])
    <3>1. PICK b : b = [a EXCEPT !.pc = "claim", !.row = NewRow]
      OBVIOUS
    <3>2. b.pc = "claim" /\ b.produced = a.produced /\ b.fresh = a.fresh
      BY <1>1, <3>1 DEF Attempt
    <3> QED
      BY <1>6, <2>0, <2>1, <3>1, <3>2
  <2>2. CASE End(s, "raised") /\ UNCHANGED rows
    BY <1>5, <2>0, <2>2 DEF Reported
  <2> QED
    BY <1>23, <2>1, <2>2 DEF InsertJob
<1>24. CASE ClaimJob(s)
  <2> DEFINE pc == IF a.job = "transcode" /\ a.sourceHeight = 0 THEN "reject" ELSE "work"
             st == IF a.status = "completed" THEN "completed" ELSE "processing"
  <2>1. PICK b : b = [a EXCEPT !.pc = pc, !.status = st] /\ Becomes(s, b)
    BY <1>24 DEF ClaimJob
  <2>2. b.pc = pc /\ b.produced = a.produced /\ b.fresh = a.fresh
    BY <1>1, <2>1 DEF Attempt
  <2>3. b.pc \notin {"upsert", "flush", "commit"}
    BY <2>2
  <2> QED
    BY <1>1, <1>6, <1>24, <2>1, <2>2, <2>3 DEF ClaimJob
<1>25. CASE ExtractMetadata(s)
  <2>1. PICK b : b = [a EXCEPT !.pc = "flush", !.height = original]
    OBVIOUS
  <2>2. b.pc = "flush" /\ b.job = "metadata" /\ b.produced = a.produced /\ b.fresh = a.fresh
    BY <1>1, <1>25, <2>1 DEF Attempt, ExtractMetadata
  <2> QED
    BY <1>1, <1>6, <1>25, <2>1, <2>2 DEF ExtractMetadata
<1>26. CASE UploadAsset(s)
  <2>1. a.job \in JobTypes \ {"metadata"} /\ a.pc = "work"
    BY <1>1, <1>26 DEF UploadAsset
  <2>2. PICK asset : /\ objects' = objects \cup {asset}
                     /\ Becomes(s, [a EXCEPT !.produced = @ \cup {asset}])
                     /\ UNCHANGED <<rows, original>>
    BY <1>26 DEF UploadAsset
  <2>3. PICK b : b = [a EXCEPT !.produced = @ \cup {asset}]
    OBVIOUS
  <2>4. b.pc = "work" /\ b.produced = a.produced \cup {asset} /\ b.fresh = a.fresh
    BY <1>1, <2>1, <2>3 DEF Attempt
  <2>5. PICK c : c = b
    OBVIOUS
  <2>6. Holds(c)'
    BY <1>1, <2>2, <2>4, <2>5 DEF Holds
  <2> QED
    BY <1>2, <2>2, <2>3, <2>5, <2>6 DEF rows, StoredInv, AssetRowsHaveObjects
<1>27. CASE FinishUploads(s)
  <2>1. PICK b : b = [a EXCEPT !.pc = "upsert"]
    OBVIOUS
  <2>2. /\ b.pc = "upsert" /\ b.produced = a.produced /\ b.fresh = a.fresh
        /\ b.job = a.job /\ b.sourceHeight = a.sourceHeight
    BY <1>1, <2>1 DEF Attempt
  <2>3. Holds(b)
    BY <1>1, <1>27, <2>2 DEF FinishUploads, Holds
  <2> QED
    BY <1>3, <1>27, <2>1, <2>3 DEF FinishUploads, Goto
<1>28. CASE ReadAssets(s)
  <2>1. PICK b : b = [a EXCEPT !.pc = "flush", !.fresh = a.produced \ assets]
    OBVIOUS
  <2>2. /\ b.pc = "flush" /\ b.produced = a.produced /\ b.fresh = a.produced \ assets
        /\ b.job = a.job /\ b.sourceHeight = a.sourceHeight
    BY <1>1, <2>1 DEF Attempt
  <2>3. Holds(b)
    BY <1>1, <1>28, <2>2 DEF ReadAssets, Holds
  <2> QED
    BY <1>3, <1>28, <2>1, <2>3 DEF ReadAssets
<1>29. CASE FlushAndCount(s)
  <2>1. CASE End(s, "raised")
    BY <1>1, <1>5, <1>29, <2>1 DEF FlushAndCount, Reported
  <2>2. CASE Becomes(s, [a EXCEPT !.pc = "commit", !.allDone = AllJobsCompleted(a.job)])
    <3>1. PICK b : b = [a EXCEPT !.pc = "commit", !.allDone = AllJobsCompleted(a.job)]
      OBVIOUS
    <3>2. /\ b.pc = "commit" /\ b.produced = a.produced /\ b.fresh = a.fresh
          /\ b.job = a.job /\ b.sourceHeight = a.sourceHeight
      BY <1>1, <3>1 DEF Attempt
    <3>3. Holds(b)
      BY <1>1, <1>29, <3>2 DEF FlushAndCount, Holds
    <3> QED
      BY <1>3, <1>29, <2>2, <3>1, <3>3 DEF FlushAndCount
  <2> QED
    BY <1>29, <2>1, <2>2 DEF FlushAndCount
<1>30. CASE CompleteJob(s)
  BY <1>1, <1>4, <1>30 DEF CompleteJob, Reported
<1>31. CASE FailJob(s)
  BY <1>1, <1>5, <1>31 DEF FailJob, Reported
<1>32. CASE WorkFails(s)
  <2>1. PICK b : b = [a EXCEPT !.pc = "fail"]
    OBVIOUS
  <2>2. b.pc = "fail" /\ b.produced = a.produced /\ b.fresh = a.fresh
    BY <1>1, <2>1 DEF Attempt
  <2> QED
    BY <1>1, <1>6, <1>32, <2>1, <2>2 DEF WorkFails, Goto
<1>33. CASE DatabaseError(s)
  BY <1>1, <1>5, <1>33 DEF DatabaseError, Reported, Running
<1>34. CASE LostAcknowledgement(s)
  BY <1>1, <1>5, <1>34 DEF LostAcknowledgement, Reported
<1>35. CASE LoseAttempt(s)
  BY <1>1, <1>5, <1>35 DEF LoseAttempt, Running, Reported
<1>36. CASE EndAttempt(s)
  <2>1. Holds(Idle)
    BY NothingHeld DEF Idle
  <2> QED
    BY <1>3, <1>36, <2>1 DEF EndAttempt
<1>37. CASE BeginAny(s)
  <2>1. PICK j, h : BeginAttempt(s, j, h)
    BY <1>37 DEF BeginAny
  <2>2. PICK b : b = [Idle EXCEPT !.job = j, !.pc = "load", !.sourceHeight = h]
    OBVIOUS
  <2>3. b.pc = "load" /\ b.produced = {} /\ b.fresh = {}
    BY <2>2 DEF Idle
  <2>4. Holds(b)
    BY <2>3, NothingHeld
  <2> QED
    BY <1>3, <2>1, <2>2, <2>4 DEF BeginAttempt
<1> QED
  BY <1>21, <1>22, <1>23, <1>24, <1>25, <1>26, <1>27, <1>28, <1>29, <1>30, <1>31, <1>32, <1>33,
     <1>34, <1>35, <1>36, <1>37 DEF AnyStep, Progress, Misfortune

\* What holds of the pipeline under every fault, overruns included.
FaultyInv == FlowInv /\ BudgetInv /\ StoredInv

\* Nothing is stored or claimed at first.
LEMMA FaultyInit == PipelineInit => FaultyInv
<1> SUFFICES ASSUME PipelineInit PROVE FaultyInv
  OBVIOUS
<1>1. WorkflowInit
  BY DEF PipelineInit
<1>2. FlowInv /\ BudgetInv
  BY <1>1, TypeInit, ServerInit, BudgetInit DEF WorkflowInit, FlowInv
<1>3. Holds(Idle)
  BY NothingHeld DEF Idle
<1>4. StoredInv
  BY <1>1, <1>3 DEF WorkflowInit, JobsInit, StoredInv, AssetRowsHaveObjects, NoRow, JobTypes
<1> QED
  BY <1>2, <1>4 DEF FaultyInv

\* Every step of the pipeline keeps it.
LEMMA FaultyStep ==
    ASSUME FaultyInv, [PipelineNext]_pipelineVars
    PROVE  FaultyInv'
<1>0. FlowInv /\ BudgetInv /\ StoredInv
  BY DEF FaultyInv
<1>1. ASSUME UNCHANGED <<jobs, assets, objects, slot>> PROVE StoredInv'
  <2>1. \A s \in Slots : Holds(slot[s])'
    BY <1>0, <1>1 DEF StoredInv, Holds
  <2> QED
    BY <1>0, <1>1, <2>1 DEF StoredInv, AssetRowsHaveObjects
<1>2. CASE [WorkflowNext]_vars
  <2>1. StoredInv'
    <3>1. CASE UNCHANGED jobVars
      BY <1>1, <3>1 DEF jobVars
    <3>2. CASE \E s \in Slots : AnyStep(s)
      BY <1>0, <3>2, StoredStep DEF FlowInv
    <3> QED
      BY <1>0, <1>2, <3>1, <3>2, FlowIsAnyStep DEF FlowInv
  <2>2. FlowInv'
    BY <1>0, <1>2, FlowTypeStep, ServerStep DEF FlowInv
  <2>3. BudgetInv'
    BY <1>0, <1>2, BudgetStep
  <2> QED
    BY <2>1, <2>2, <2>3 DEF FaultyInv
<1>3. CASE OutsideStep
  <2>1. FlowInv' /\ UNCHANGED <<jobs, assets, objects, slot, execution, runs, activity>>
    BY <1>0, <1>3, OutsideKeepsFlow
  <2>2. BudgetInv'
    <3>1. \A j \in JobTypes : Unclaimed(j)' = Unclaimed(j) /\ Spare(j)' = Spare(j)
      BY <2>1 DEF Unclaimed, Spare
    <3>2. \A j \in JobTypes, n \in Nat : Within(j, n) => Within(j, n)'
      BY <2>1, <3>1 DEF Within
    <3> QED
      BY <1>0, <2>1, <3>1, <3>2, BudgetGrows DEF FlowInv
  <2> QED
    BY <1>1, <2>1, <2>2 DEF FaultyInv
<1> QED
  BY <1>2, <1>3, PipelineIsWorkflow

\* It holds of every behaviour of the pipeline.
LEMMA FaultyInvariant == PipelineSafety => []FaultyInv
BY FaultyInit, FaultyStep, PTL DEF PipelineSafety

\* Whatever the API, the client and the queue do, and however attempts overlap: every
\* variable of the workflow keeps its type, and no activity is tried beyond its policy.
THEOREM PipelineTypeCorrect == PipelineSafety => []WorkflowTypeOK
<1>1. FaultyInv => WorkflowTypeOK
  BY DEF FaultyInv, FlowInv, TypeInv, ServerInv, FlowTypeOK, ActivityRow, WorkflowTypeOK
<1> QED
  BY <1>1, FaultyInvariant, PTL

\* A download link of the API always leads to an object, though the client replaces the
\* file while overlapping attempts of several executions work from it.
THEOREM PipelineAssetsAreReal == PipelineSafety => []AssetRowsHaveObjects
<1>1. FaultyInv => AssetRowsHaveObjects
  BY DEF FaultyInv, StoredInv
<1> QED
  BY <1>1, FaultyInvariant, PTL

\* The budget of claims is that of the executions, whoever asked for them: duplicates,
\* redeliveries and retries of the video add none of their own.
THEOREM PipelineClaimsAreWithinBudget == PipelineSafety => []ClaimsStayInBudget
<1>1. FaultyInv => ClaimsStayInBudget
  BY BudgetBounds DEF FaultyInv
<1> QED
  BY <1>1, FaultyInvariant, PTL

\* A completed transcode has left every rendition of the height on record.
WholeOK == jobs["transcode"].status = "completed" => RenditionsFor(video.height) \subseteq assets

\* A transcode completes with the height on record, which is not written again.
LEMMA WholeStep ==
    ASSUME "overrun" \notin Faults, CoreInv, FaultyInv, WholeOK, [PipelineNext]_pipelineVars
    PROVE  WholeOK'
<1>0. LoneInv /\ FlowInv /\ TypeInv /\ RecordInv /\ StoredInv /\ StoredInv'
  BY FaultyStep DEF CoreInv, LoneInv, FlowInv, FaultyInv
<1>1. ASSUME UNCHANGED <<jobs, assets>>, video'.height = video.height PROVE WholeOK'
  BY <1>1 DEF WholeOK
<1>2. ASSUME NEW s \in Slots, Progress(s) \/ Misfortune(s)
      PROVE  WholeOK'
  <2> PICK a : a = slot[s]
    OBVIOUS
  <2>1. PICK b : Becomes(s, b) /\ HandsOn(s, b) /\ Moves(s, b)
    BY <1>0, <1>2, AttemptMoves
  <2>2. /\ jobs \in [JobTypes -> JobRow] /\ a.job \in JobTypes /\ "transcode" \in JobTypes
        /\ Holds(a) /\ OfRecord(a)
    BY <1>0, <2>1 DEF TypeInv, JobsTypeOK, HasJob, HandsOn, JobTypes, StoredInv, RecordInv
  <2>3. /\ jobs["metadata"].status = "completed" => video'.height = video.height
        /\ assets' = assets \/ (Completes(s, b) /\ assets' = assets \cup a.fresh)
    BY <1>0, <2>1, HeightIsSetOnce
  <2>4. jobs["transcode"].status = "completed" => jobs["metadata"].status = "completed"
    BY <1>0 DEF LoneInv, QuietInv, TranscodeOK
  <2>5. CASE jobs["transcode"].status = "completed"
    BY <2>3, <2>4, <2>5 DEF WholeOK
  <2>6. CASE jobs["transcode"].status # "completed" /\ jobs'["transcode"].status = "completed"
    <3>1. Completes(s, b) /\ a.job = "transcode"
      <4>1. CASE Completes(s, b)
        BY <2>2, <2>6, <4>1 DEF Completes, CompleteRows
      <4>2. CASE Inserts(s, b)
        BY <2>2, <2>6, <4>2 DEF Inserts, InsertRow, NewRow
      <4>3. CASE ClaimsJob(s, b)
        BY <2>2, <2>6, <4>3 DEF ClaimsJob, ClaimRows
      <4>4. CASE FailsJob(s, b)
        BY <2>2, <2>6, <4>4 DEF FailsJob, FailRows, JobRow
      <4>5. CASE UNCHANGED rows
        BY <2>6, <4>5 DEF rows
      <4> QED
        BY <2>1, <4>1, <4>2, <4>3, <4>4, <4>5 DEF Moves, Cuts, Loads, Reads, Works, Counts
    <3>2. a.pc = "commit" /\ assets' = assets \cup a.fresh
      BY <3>1 DEF Completes, At, CompleteRows
    <3>3. AssetsOf(a.job, a.sourceHeight) \subseteq assets'
      BY <3>1, <3>2, <2>2 DEF Holds
    <3>4. a.sourceHeight = video.height /\ AssetsOf(a.job, a.sourceHeight) = RenditionsFor(a.sourceHeight)
      BY <2>2, <3>1, <3>2 DEF OfRecord, Running, AssetsOf
    <3>5. video'.height = video.height
      BY <1>0, <2>3, <3>1, SiblingsAreDone
    <3> QED
      BY <3>3, <3>4, <3>5 DEF WholeOK
  <2> QED
    BY <2>5, <2>6 DEF WholeOK
<1>3. CASE [WorkflowNext]_vars
  <2>1. CASE UNCHANGED jobVars
    BY <1>1, <2>1 DEF jobVars
  <2>2. ASSUME NEW s \in Slots, LoneStep(s)
        PROVE  WholeOK'
    <3>1. CASE EndAttempt(s) \/ LoneBegin(s)
      BY <1>1, <3>1 DEF EndAttempt, LoneBegin, BeginAttempt, rows
    <3> QED
      BY <1>2, <2>2, <3>1 DEF LoneStep
  <2> QED
    BY <1>0, <1>3, <2>1, <2>2, FlowIsLone DEF LoneInv, QuietInv
<1>4. CASE OutsideStep
  BY <1>0, <1>1, <1>4, OutsideKeepsFlow
<1> QED
  BY <1>3, <1>4, PipelineIsWorkflow

\* The renditions recorded are always those of the height recorded, and complete once the
\* video reads completed, whatever files the client puts and whenever: a finished metadata
\* job answers from the row, the transcode works from that answer, and what is recorded
\* was uploaded before.
THEOREM RenditionsAreOfRecord ==
    ASSUME "overrun" \notin Faults
    PROVE  PipelineSafety => []RenditionsMatchRecord
<1>1. ASSUME CoreInv, FaultyInv, WholeOK PROVE RenditionsMatchRecord
  <2>1. \A r \in assets \cap Previews : video.height # None /\ RenditionHeight[r] < video.height
    BY <1>1 DEF CoreInv, RecordInv, RecordOK, RenditionsFor
  <2>2. ASSUME video.status = "completed"
        PROVE  assets = {"thumbnail"} \cup RenditionsFor(video.height)
    <3>1. jobs["thumbnail"].status = "completed" /\ jobs["transcode"].status = "completed"
      BY <1>1, <2>2 DEF CoreInv, LoneInv, AloneInv, FinishedVideoHasFinishedJobs, JobTypes
    <3>2. "thumbnail" \in assets /\ RenditionsFor(video.height) \subseteq assets
      BY <1>1, <3>1 DEF FaultyInv, StoredInv, WholeOK
    <3>3. assets \cap Previews \subseteq RenditionsFor(video.height)
      BY <1>1 DEF CoreInv, RecordInv, RecordOK
    <3>4. assets \subseteq Previews \cup {"thumbnail"}
      BY <1>1 DEF FaultyInv, FlowInv, TypeInv, JobsTypeOK, AssetTypes
    <3> QED
      BY <3>2, <3>3, <3>4
  <2> QED
    BY <2>1, <2>2 DEF RenditionsMatchRecord
<1>2. PipelineInit => WholeOK
  BY DEF PipelineInit, WorkflowInit, JobsInit, WholeOK, NoRow, JobTypes
<1>3. CoreInv /\ FaultyInv /\ WholeOK /\ [PipelineNext]_pipelineVars => WholeOK'
  BY WholeStep
<1> QED
  BY <1>1, <1>2, <1>3, CoreInvariant, FaultyInvariant, PTL DEF PipelineSafety

-------------------------------------------------------------------------------
\* No step of the workflow writes the row of a completed job, its counter included.
LEMMA CompletedRowStays ==
    ASSUME "overrun" \notin Faults, LoneInv, [WorkflowNext]_vars,
           NEW j \in JobTypes, jobs[j].status = "completed"
    PROVE  jobs'[j] = jobs[j]
<1>1. ASSUME NEW s \in Slots, Progress(s) \/ Misfortune(s)
      PROVE  jobs'[j] = jobs[j]
  <2>1. PICK b : HandsOn(s, b) /\ Moves(s, b)
    BY <1>1, AttemptMoves DEF LoneInv, FlowInv
  <2>2. CASE slot[s].job = j
    <3>1. slot[s].pc \notin Running \ {"load", "read"}
      BY <2>2 DEF LoneInv, AloneInv, Fresh
    <3> QED
      BY <2>1, <3>1, VideoStaysPresent
         DEF Moves, Cuts, Loads, Reads, Inserts, ClaimsJob, Works, Counts, Completes, FailsJob,
             Running, At, rows
  <2>3. CASE slot[s].job # j
    BY <1>1, <2>3, AloneStep DEF LoneInv, FlowInv, LoneStep, RowStep, OwnRows
  <2> QED
    BY <2>2, <2>3
<1>2. ASSUME NEW s \in Slots, EndAttempt(s) \/ LoneBegin(s)
      PROVE  jobs' = jobs
  BY <1>2 DEF EndAttempt, LoneBegin, BeginAttempt, rows
<1> QED
  BY <1>1, <1>2, FlowIsLone DEF LoneInv, QuietInv, LoneStep, jobVars

\* A completed job is never touched again: a duplicate notification, a redelivery or a
\* retry of the video re-runs the incomplete jobs only (claim_job's early return).
THEOREM CompletedJobsAreLeftAlone ==
    ASSUME "overrun" \notin Faults
    PROVE  PipelineSafety => OnlyIncompleteJobsRerun
<1>1. ASSUME CoreInv, [PipelineNext]_pipelineVars
      PROVE  [\A j \in JobTypes :
                 jobs[j].status = "completed" => jobs'[j] = jobs[j]]_pipelineVars
  <2>1. CASE [WorkflowNext]_vars
    BY <1>1, <2>1, CompletedRowStays DEF CoreInv
  <2>2. CASE OutsideStep
    BY <2>2 DEF OutsideStep, Writes, Replaces
  <2> QED
    BY <1>1, <2>1, <2>2, PipelineIsWorkflow
<1> QED
  BY <1>1, CoreInvariant, PTL DEF PipelineSafety, OnlyIncompleteJobsRerun

\* Once the execution has completed the workflow moves no more: no attempt is left, none
\* can be dispatched and no execution started.
LEMMA CompletedIsStill ==
    ASSUME LoneInv, execution = "completed", [WorkflowNext]_vars
    PROVE  UNCHANGED vars
<1>1. \A j \in JobTypes : activity[j].state \notin {"scheduled", "started"}
  BY DEF LoneInv, FlowInv, ServerInv, OrderOK
<1>2. \A s \in Slots : slot[s].pc = "idle"
  BY <1>1, LoneAttempts DEF LoneInv, QuietInv
<1>3. ~StartWorkflow /\ ~WorkflowTask
  BY DEF StartWorkflow, WorkflowTask, ScheduleTranscode, CloseFailed, CloseCompleted
<1>4. ASSUME NEW s \in Slots
      PROVE  ~Progress(s) /\ ~Misfortune(s)
  <2>1. slot[s].pc \notin Running \cup Reported \cup {"lost"}
    BY <1>2 DEF Running, Reported
  <2>2. ~Progress(s)
    BY <1>2 DEF Progress, LoadVideo, ReadJob, InsertJob, ClaimJob, ExtractMetadata, UploadAsset,
       FinishUploads, ReadAssets, FlushAndCount, CompleteJob, FailJob, At
  <2>3. ~Misfortune(s)
    BY <1>2, <2>1 DEF Misfortune, WorkFails, DatabaseError, LostAcknowledgement, LoseAttempt, At
  <2> QED
    BY <2>2, <2>3
<1>5. ASSUME NEW s \in Slots
      PROVE  ~Report(s) /\ ~Overrun(s) /\ \A j \in JobTypes : ~Dispatch(s, j)
  BY <1>1, <1>2 DEF Report, ReportSuccess, ReportFailure, IgnoreReport, EndAttempt, Overrun,
     Dispatch, At, Running, Reported
<1> QED
  BY <1>3, <1>4, <1>5 DEF WorkflowNext, ExecutionNext, WorkerStep

\* A delivered video is never processed again, whatever messages still name it
\* (ALLOW_DUPLICATE_FAILED_ONLY).
THEOREM DeliveredIsLeftAlone ==
    ASSUME "overrun" \notin Faults
    PROVE  PipelineSafety => DeliveredIsNotReprocessed
<1>1. ASSUME CoreInv, [PipelineNext]_pipelineVars
      PROVE  [execution = "completed" =>
                 /\ execution' = "completed"
                 /\ UNCHANGED <<slot, assets, objects>>]_pipelineVars
  <2> SUFFICES ASSUME execution = "completed"
               PROVE  execution' = "completed" /\ UNCHANGED <<slot, assets, objects>>
    OBVIOUS
  <2>1. CASE [WorkflowNext]_vars
    BY <1>1, <2>1, CompletedIsStill DEF CoreInv, vars, jobVars, flow
  <2>2. CASE OutsideStep
    BY <2>2 DEF OutsideStep, Writes, Replaces, flow
  <2> QED
    BY <1>1, <2>1, <2>2, PipelineIsWorkflow
<1> QED
  BY <1>1, CoreInvariant, PTL DEF PipelineSafety, DeliveredIsNotReprocessed

-------------------------------------------------------------------------------
\* A retry is under way only for a video that exists: what its commit updates is there.
RetriesOK ==
    /\ request \in [Requests -> [pc : {"idle", "send", "commit", "done"},
                                 message : Messages \cup {None}, runs : Nat, open : BOOLEAN]]
    /\ \A r \in Requests : request[r].pc \in {"send", "commit"} => video.status # "absent"

\* A retry goes one way: read, sent, committed; or it fails and is forgotten.
LEMMA RequestMoves ==
    ASSUME RetriesOK, runs \in Nat, [PipelineNext]_pipelineVars
    PROVE  \/ request' = request
           \/ \E r \in Requests : RetryRead(r)
           \/ \E r \in Requests : RetryCommit(r)
           \/ \E r \in Requests : RetryFails(r)
           \/ \E r \in Requests, m \in Messages : RetrySend(r, m)
BY DEF PipelineNext, CreateVideo, StoreUpload, NotifyAgain, ReplaceUpload, HandleMessage,
       StartWorkflowFails, QueueMoves, ShimLoops, ShimFails, pipelineVars, apiVars

\* Each of its steps leaves a request of the right form, and the others alone.
LEMMA RequestForm ==
    ASSUME RetriesOK, runs \in Nat, NEW r \in Requests,
           RetryRead(r) \/ RetryCommit(r) \/ RetryFails(r) \/ \E m \in Messages : RetrySend(r, m)
    PROVE  /\ request' \in [Requests -> [pc : {"idle", "send", "commit", "done"},
                                         message : Messages \cup {None}, runs : Nat, open : BOOLEAN]]
           /\ request'[r].pc \in {"send", "commit"} =>
                 video.status # "absent" \/ request[r].pc \in {"send", "commit"}
           /\ \A q \in Requests \ {r} : request'[q] = request[q]
<1> DEFINE Form == [pc : {"idle", "send", "commit", "done"},
                    message : Messages \cup {None}, runs : Nat, open : BOOLEAN]
           q == request[r]
<1>0. request \in [Requests -> Form] /\ q \in Form
  BY DEF RetriesOK
<1>1. ASSUME NEW n \in Form, request' = [request EXCEPT ![r] = n],
             n.pc \in {"send", "commit"} => video.status # "absent" \/ q.pc \in {"send", "commit"}
      PROVE  /\ request' \in [Requests -> Form]
             /\ request'[r].pc \in {"send", "commit"} =>
                   video.status # "absent" \/ q.pc \in {"send", "commit"}
             /\ \A k \in Requests \ {r} : request'[k] = request[k]
  BY <1>0, <1>1
<1>2. CASE RetryRead(r)
  BY <1>1, <1>2 DEF RetryRead
<1>3. CASE RetryCommit(r)
  <2>1. PICK n : n = [q EXCEPT !.pc = "done"]
    OBVIOUS
  <2>2. n \in Form /\ n.pc = "done"
    BY <1>0, <2>1
  <2>3. request' = [request EXCEPT ![r] = n]
    BY <1>3, <2>1 DEF RetryCommit
  <2> QED
    BY <1>1, <2>2, <2>3
<1>4. CASE RetryFails(r)
  <2>1. NoRequest \in Form /\ NoRequest.pc = "idle"
    BY DEF NoRequest
  <2> QED
    BY <1>1, <1>4, <2>1 DEF RetryFails
<1>5. ASSUME NEW m \in Messages, RetrySend(r, m)
      PROVE  /\ request' \in [Requests -> Form]
             /\ request'[r].pc \in {"send", "commit"} =>
                   video.status # "absent" \/ q.pc \in {"send", "commit"}
             /\ \A k \in Requests \ {r} : request'[k] = request[k]
  <2>1. PICK n : n = [q EXCEPT !.pc = "commit", !.message = m]
    OBVIOUS
  <2>2. n \in Form /\ q.pc = "send"
    BY <1>0, <1>5, <2>1 DEF RetrySend
  <2>3. request' = [request EXCEPT ![r] = n]
    BY <1>5, <2>1 DEF RetrySend
  <2> QED
    BY <1>1, <2>2, <2>3
<1> QED
  BY <1>2, <1>3, <1>4, <1>5

\* So every step keeps the retries in order.
LEMMA RetriesStep ==
    ASSUME "overrun" \notin Faults, CoreInv, RetriesOK, [PipelineNext]_pipelineVars
    PROVE  RetriesOK'
<1>1. runs \in Nat
  BY DEF CoreInv, LoneInv, FlowInv, ServerInv, FlowTypeOK
<1>2. video.status # "absent" => video'.status # "absent"
  BY CoreStep
<1>3. CASE request' = request
  BY <1>2, <1>3 DEF RetriesOK
<1>4. ASSUME NEW r \in Requests,
             RetryRead(r) \/ RetryCommit(r) \/ RetryFails(r) \/ \E m \in Messages : RetrySend(r, m)
      PROVE  RetriesOK'
  BY <1>1, <1>2, <1>4, RequestForm DEF RetriesOK
<1> QED
  BY <1>1, <1>3, <1>4, RequestMoves

\* Whatever the API commits beside it, the video goes through the life VideoLifecycle
\* describes, but for the status a retry writes at any time: what ApiServer assumes of
\* the worker side is what the worker side does.
THEOREM PipelineImplementsRetriedLifecycle ==
    ASSUME "overrun" \notin Faults
    PROVE  PipelineSafety => ImplementsRetriedLifecycle
<1>1. PipelineInit => Lifecycle!LifecycleInit /\ RetriesOK
  <2>1. PipelineInit => Lifecycle!LifecycleInit
    BY DEF PipelineInit, WorkflowInit, JobsInit, NoRow, Lifecycle!LifecycleInit
  <2>2. PipelineInit => RetriesOK
    BY DEF PipelineInit, RetriesOK, NoRequest
  <2> QED
    BY <2>1, <2>2
<1>2. ASSUME CoreInv, RetriesOK, [PipelineNext]_pipelineVars
      PROVE  [Lifecycle!LifecycleNext \/ Lifecycle!Retry]_(Lifecycle!lifecycle)
  <2>1. CASE [WorkflowNext]_vars
    BY <1>2, <2>1, LifecycleStep, SeenIsMapped
       DEF CoreInv, LifecycleMoves, Lifecycle!LifecycleNext
  <2>2. CASE OutsideStep
    <3>1. video \in [status : VideoStatuses, height : Heights \cup {None}]
      BY <1>2 DEF CoreInv, LoneInv, FlowInv, TypeInv, JobsTypeOK
    <3>2. Done' = Done /\ execution' = execution
      BY <2>2 DEF OutsideStep, Writes, Replaces, Done, flow
    <3>3. CASE video.status = "absent" /\ Writes("pending_upload")
      <4>1. Lifecycle!Create
        BY <3>1, <3>2, <3>3 DEF Writes, Done, Lifecycle!Create
      <4> QED
        BY <4>1 DEF Lifecycle!LifecycleNext
    <3>4. CASE Writes("processing") /\ \E r \in Requests : request[r].pc = "commit"
      <4>1. Lifecycle!Retry
        BY <1>2, <3>1, <3>2, <3>4 DEF Writes, Done, RetriesOK, Lifecycle!Retry
      <4> QED
        BY <4>1
    <3>5. CASE Replaces
      <4>1. Seen' = Seen
        BY <3>2, <3>5 DEF Replaces, Seen
      <4> QED
        BY <4>1, SeenIsMapped
    <3> QED
      BY <2>2, <3>3, <3>4, <3>5 DEF OutsideStep
  <2> QED
    BY <1>2, <2>1, <2>2, PipelineIsWorkflow
<1>3. CoreInv /\ RetriesOK /\ [PipelineNext]_pipelineVars => RetriesOK'
  BY RetriesStep
<1> QED
  BY <1>1, <1>2, <1>3, CoreInvariant, PTL
     DEF PipelineSafety, ImplementsRetriedLifecycle, Lifecycle!RetriedSpec

-------------------------------------------------------------------------------
\* A message whose handler is past its one record, or that was deleted after that.
Passed(m) ==
    \/ Shim!Unfinished(m) /\ handler[m].record > 1
    \/ queue[m].state = "deleted"

\* What was never sent has no handler; what was sent names the video; a handler starts
\* the first record and deletes only past it.
OrderlyMessage(m) ==
    /\ queue[m].state = "unsent" => handler[m].pc = "none"
    /\ queue[m].state # "unsent" => body[m] = <<ThisVideo>>
    /\ Shim!Unfinished(m) => handler[m].record >= 1
    /\ handler[m].pc = "start" => handler[m].record = 1
    /\ handler[m].pc = "delete" => handler[m].record > 1

Task == [pc : Shim!TaskStates, record : Nat]
Entry == [state : Shim!MessageStates, receives : Nat]

MessagesOK ==
    /\ queue \in [Messages -> Entry]
    /\ body \in [Messages -> {<<>>, <<ThisVideo>>}]
    /\ handler \in [Messages -> Task]
    /\ \A m \in Messages : OrderlyMessage(m)

\* A call of start_workflow that returns, with what it does to the workflow.
Starts(m) == Shim!Start(m) /\ (StartWorkflow \/ UNCHANGED vars)

\* What a step may do to a message: it stays sent, and only start_workflow returning
\* gets its handler past the record.
MessageStep(m) ==
    /\ queue[m].state # "unsent" => queue'[m].state # "unsent"
    /\ Passed(m)' => Passed(m) \/ Starts(m)

\* The queue and the shim move by the steps of SqsShim, each by itself.
LEMMA ShimMoves ==
    ASSUME [PipelineNext]_pipelineVars
    PROVE  \/ UNCHANGED queueVars
           \/ Shim!Poll \/ Shim!EndBatch \/ Shim!Restart \/ Shim!Crash
           \/ \E m \in Messages :
                 \/ Shim!Publish(m, <<ThisVideo>>)
                 \/ Shim!Redeliver(m) \/ Shim!DeadLetter(m)
                 \/ Shim!Resolve(m) \/ Starts(m) \/ Shim!Delete(m)
                 \/ Shim!StartFails(m) \/ Shim!LookupFails(m) \/ Shim!DeleteFails(m)
BY DEF PipelineNext, CreateVideo, StoreUpload, NotifyAgain, ReplaceUpload, RetryRead, RetrySend,
       RetryCommit, RetryFails, HandleMessage, StartWorkflowFails, QueueMoves, ShimLoops,
       ShimFails, pipelineVars, Starts, Shim!Handle, Shim!QueueStep

\* Nothing is sent at first, and nothing handled.
LEMMA MessagesInit == PipelineInit => MessagesOK
<1>1. Shim!NoTask \in Task /\ Shim!NoTask.pc = "none"
  BY DEF Shim!NoTask, Task, Shim!TaskStates
<1>2. [state |-> "unsent", receives |-> 0] \in Entry
  BY DEF Entry, Shim!MessageStates
<1> QED
  BY <1>1, <1>2 DEF PipelineInit, MessagesOK, OrderlyMessage, Shim!Unfinished

\* The body of a message that was sent has one record, and it names the video.
LEMMA OneRecord ==
    Len(<<ThisVideo>>) = 1 /\ <<ThisVideo>>[1] = "video"
BY DEF ThisVideo

\* A step that moves one task only, or none, and settles no message.
LEMMA OneTaskMoves ==
    ASSUME MessagesOK, NEW m \in Messages, NEW t \in Task,
           queue' = queue, body' = body, handler' = [handler EXCEPT ![m] = t],
           queue[m].state # "unsent",
           t.pc \in {"resolve", "start", "delete"} => t.record >= 1,
           t.pc = "start" => t.record = 1,
           t.pc = "delete" => t.record > 1,
           t.pc \in {"resolve", "start", "delete"} /\ t.record > 1 => Passed(m) \/ Starts(m)
    PROVE  MessagesOK' /\ \A k \in Messages : MessageStep(k)
<1>1. handler' \in [Messages -> Task] /\ handler'[m] = t
  BY DEF MessagesOK
<1>2. \A k \in Messages \ {m} : handler'[k] = handler[k]
  BY DEF MessagesOK
<1>3. ASSUME NEW k \in Messages
      PROVE  OrderlyMessage(k)' /\ MessageStep(k)
  BY <1>1, <1>2 DEF MessagesOK, OrderlyMessage, MessageStep, Passed, Shim!Unfinished
<1> QED
  BY <1>1, <1>3 DEF MessagesOK

\* A step that moves one message in the queue, and no handler.
LEMMA OneMessageMoves ==
    ASSUME MessagesOK, NEW m \in Messages, NEW e \in Entry, NEW b \in {<<>>, <<ThisVideo>>},
           queue' = [queue EXCEPT ![m] = e], body' = [body EXCEPT ![m] = b],
           handler' = handler,
           e.state # "unsent", b = <<ThisVideo>>,
           e.state = "deleted" => Passed(m)
    PROVE  MessagesOK' /\ \A k \in Messages : MessageStep(k)
<1>1. /\ queue' \in [Messages -> Entry] /\ queue'[m] = e
      /\ body' \in [Messages -> {<<>>, <<ThisVideo>>}] /\ body'[m] = b
  BY DEF MessagesOK
<1>2. \A k \in Messages \ {m} : queue'[k] = queue[k] /\ body'[k] = body[k]
  BY DEF MessagesOK
<1>3. ASSUME NEW k \in Messages
      PROVE  OrderlyMessage(k)' /\ MessageStep(k)
  BY <1>1, <1>2 DEF MessagesOK, OrderlyMessage, MessageStep, Passed, Shim!Unfinished
<1> QED
  BY <1>1, <1>3 DEF MessagesOK

\* A step after which the batch is over: every task is gone, and what it leaves in the
\* queue is there or deleted past its record.
LEMMA BatchEnds ==
    ASSUME MessagesOK, body' = body,
           handler' = [m \in Messages |-> Shim!NoTask],
           queue' \in [Messages -> Entry],
           \A m \in Messages : queue'[m] = queue[m] \/ (queue'[m].state = "deleted" /\ Passed(m))
    PROVE  MessagesOK' /\ \A k \in Messages : MessageStep(k)
<1>1. Shim!NoTask \in Task /\ Shim!NoTask.pc = "none"
  BY DEF Shim!NoTask, Task, Shim!TaskStates
<1>2. handler' \in [Messages -> Task] /\ \A m \in Messages : handler'[m].pc = "none"
  BY <1>1
<1>3. ASSUME NEW k \in Messages
      PROVE  OrderlyMessage(k)' /\ MessageStep(k)
  <2>1. queue'[k].state = "unsent" <=> queue[k].state = "unsent"
    BY DEF MessagesOK, OrderlyMessage, Passed, Shim!Unfinished
  <2> QED
    BY <1>2, <2>1 DEF MessagesOK, OrderlyMessage, MessageStep, Passed, Shim!Unfinished
<1> QED
  BY <1>2, <1>3 DEF MessagesOK

\* What the handler of one message does, or what its start_workflow call comes to.
LEMMA HandlerStep ==
    ASSUME MessagesOK, NEW m \in Messages,
           Shim!Resolve(m) \/ Starts(m) \/ Shim!StartFails(m) \/ Shim!LookupFails(m)
    PROVE  MessagesOK' /\ \A k \in Messages : MessageStep(k)
<1> DEFINE h == handler[m]
           With(pc) == [h EXCEPT !.pc = pc]
           Next == [pc |-> "resolve", record |-> h.record + 1]
<1>1. h \in Task /\ handler \in [Messages -> Task] /\ OrderlyMessage(m)
  BY DEF MessagesOK
<1>2. \A pc \in Shim!TaskStates :
         With(pc) \in Task /\ With(pc).pc = pc /\ With(pc).record = h.record
  BY <1>1 DEF Task
<1>3. Next \in Task /\ Next.pc = "resolve" /\ Next.record = h.record + 1
  BY <1>1 DEF Task, Shim!TaskStates
<1>4. /\ h.pc \in {"resolve", "start"}
      /\ UNCHANGED <<queue, body>>
  BY DEF Shim!Resolve, Starts, Shim!Start, Shim!StartFails, Shim!LookupFails, Shim!queueVars
<1>5. /\ queue[m].state # "unsent" /\ body[m] = <<ThisVideo>>
      /\ h.record \in Nat /\ h.record >= 1
      /\ h.pc = "start" => h.record = 1
      /\ h.record > 1 => Passed(m)
  BY <1>1, <1>4 DEF OrderlyMessage, Passed, Shim!Unfinished, Task
<1>6. \/ \E pc \in {"start", "delete", "done"} :
            /\ handler' = [handler EXCEPT ![m] = With(pc)]
            /\ pc = "start" => h.record =< 1
            /\ pc = "delete" => h.record > 1
      \/ handler' = [handler EXCEPT ![m] = Next] /\ Starts(m)
  <2>1. CASE Shim!Resolve(m)
    <3>1. Shim!MoreRecords(m) <=> h.record =< 1
      BY <1>5, OneRecord DEF Shim!MoreRecords
    <3>2. h.record =< 1 => Shim!Key(m) = "video"
      <4>1. h.record =< 1 => h.record = 1
        BY <1>5
      <4> QED
        BY <1>5, <4>1, OneRecord DEF Shim!Key
    <3>3. ASSUME NEW pc \in Shim!TaskStates, Shim!Step(m, pc)
          PROVE  handler' = [handler EXCEPT ![m] = With(pc)]
      BY <3>3 DEF Shim!Step
    <3> QED
      BY <1>5, <2>1, <3>1, <3>2, <3>3 DEF Shim!Resolve, Shim!TaskStates
  <2>2. CASE Starts(m)
    BY <2>2 DEF Starts, Shim!Start, Shim!NextRecord
  <2>3. CASE Shim!StartFails(m) \/ Shim!LookupFails(m)
    BY <2>3 DEF Shim!StartFails, Shim!LookupFails, Shim!Step
  <2> QED
    BY <2>1, <2>2, <2>3
<1>7. \A pc \in {"start", "delete", "done"} : pc \in Shim!TaskStates
  BY DEF Shim!TaskStates
<1> HIDE DEF h, With, Next
<1>8. ASSUME NEW pc \in {"start", "delete", "done"},
             handler' = [handler EXCEPT ![m] = With(pc)],
             pc = "start" => h.record =< 1,
             pc = "delete" => h.record > 1
      PROVE  MessagesOK' /\ \A k \in Messages : MessageStep(k)
  <2>1. With(pc) \in Task /\ With(pc).pc = pc /\ With(pc).record = h.record
    BY <1>2, <1>7
  <2>2. PICK t \in Task : t = With(pc)
    BY <2>1
  <2>3. t.pc = pc /\ t.record = h.record /\ handler' = [handler EXCEPT ![m] = t]
    BY <1>8, <2>1, <2>2
  <2>4. /\ t.pc \in {"resolve", "start", "delete"} => t.record >= 1
        /\ t.pc = "start" => t.record = 1
        /\ t.pc = "delete" => t.record > 1
        /\ t.pc \in {"resolve", "start", "delete"} /\ t.record > 1 => Passed(m) \/ Starts(m)
    BY <1>5, <1>8, <2>3
  <2>5. queue' = queue /\ body' = body /\ queue[m].state # "unsent"
    BY <1>4, <1>5
  <2> QED
    BY <2>3, <2>4, <2>5, OneTaskMoves
<1>9. ASSUME handler' = [handler EXCEPT ![m] = Next], Starts(m)
      PROVE  MessagesOK' /\ \A k \in Messages : MessageStep(k)
  <2>1. PICK t \in Task : t = Next
    BY <1>3
  <2>2. /\ t.pc = "resolve" /\ t.record >= 1
        /\ handler' = [handler EXCEPT ![m] = t]
    BY <1>3, <1>5, <1>9, <2>1
  <2>3. /\ t.pc \in {"resolve", "start", "delete"} => t.record >= 1
        /\ t.pc = "start" => t.record = 1
        /\ t.pc = "delete" => t.record > 1
        /\ t.pc \in {"resolve", "start", "delete"} /\ t.record > 1 => Passed(m) \/ Starts(m)
    BY <1>9, <2>2
  <2>4. queue' = queue /\ body' = body /\ queue[m].state # "unsent"
    BY <1>4, <1>5
  <2> QED
    BY <2>2, <2>3, <2>4, OneTaskMoves
<1> QED
  BY <1>6, <1>8, <1>9

\* What becomes of one message in the queue: it is sent, it comes back, it is given up.
LEMMA QueueEntryStep ==
    ASSUME MessagesOK, NEW m \in Messages,
           Shim!Publish(m, <<ThisVideo>>) \/ Shim!Redeliver(m) \/ Shim!DeadLetter(m)
    PROVE  MessagesOK' /\ \A k \in Messages : MessageStep(k)
<1>1. PICK st \in {"visible", "dead"} :
         /\ queue' = [queue EXCEPT ![m].state = st]
         /\ handler' = handler
         /\ Shim!Publish(m, <<ThisVideo>>) \/ (queue[m].state # "unsent" /\ body' = body)
  <2>1. CASE Shim!Publish(m, <<ThisVideo>>)
    BY <2>1 DEF Shim!Publish
  <2>2. CASE Shim!Redeliver(m) \/ Shim!DeadLetter(m)
    BY <2>2 DEF Shim!Redeliver, Shim!DeadLetter
  <2> QED
    BY <2>1, <2>2
<1>2. PICK e : e = [queue[m] EXCEPT !.state = st]
  OBVIOUS
<1>3. e \in Entry /\ e.state = st /\ queue' = [queue EXCEPT ![m] = e]
  BY <1>1, <1>2 DEF MessagesOK, Entry, Shim!MessageStates
<1>4. body' = [body EXCEPT ![m] = <<ThisVideo>>]
  <2>1. CASE Shim!Publish(m, <<ThisVideo>>)
    BY <2>1 DEF Shim!Publish
  <2>2. CASE queue[m].state # "unsent" /\ body' = body
    BY <2>2 DEF MessagesOK, OrderlyMessage
  <2> QED
    BY <1>1, <2>1, <2>2
<1> QED
  BY <1>1, <1>3, <1>4, OneMessageMoves

\* The message a handler deletes is past its record.
LEMMA DeleteStep ==
    ASSUME MessagesOK, NEW m \in Messages, Shim!Delete(m)
    PROVE  MessagesOK' /\ \A k \in Messages : MessageStep(k)
<1>1. /\ queue' = [queue EXCEPT ![m].state = "deleted"]
      /\ handler' = [handler EXCEPT ![m].pc = "done"]
      /\ body' = body /\ handler[m].pc = "delete"
  BY DEF Shim!Delete, Shim!Step
<1>2. /\ queue' \in [Messages -> Entry] /\ queue'[m].state = "deleted"
      /\ handler' \in [Messages -> Task] /\ handler'[m].pc = "done"
  BY <1>1 DEF MessagesOK, Entry, Task, Shim!MessageStates, Shim!TaskStates
<1>3. \A k \in Messages \ {m} : queue'[k] = queue[k] /\ handler'[k] = handler[k]
  BY <1>1 DEF MessagesOK
<1>4. Passed(m) /\ queue[m].state # "unsent"
  BY <1>1 DEF MessagesOK, OrderlyMessage, Passed, Shim!Unfinished
<1>5. ASSUME NEW k \in Messages
      PROVE  OrderlyMessage(k)' /\ MessageStep(k)
  BY <1>1, <1>2, <1>3, <1>4 DEF MessagesOK, OrderlyMessage, MessageStep, Passed, Shim!Unfinished
<1> QED
  BY <1>1, <1>2, <1>5 DEF MessagesOK

\* A batch starts every one of its messages from the first record.
LEMMA PollStep ==
    ASSUME MessagesOK, Shim!Poll
    PROVE  MessagesOK' /\ \A k \in Messages : MessageStep(k)
<1>1. PICK batch \in SUBSET Messages : Shim!Receive(batch)
  BY DEF Shim!Poll
<1>2. \A k \in Messages :
         \/ /\ queue[k].state = "visible"
            /\ queue'[k] = [state |-> "hidden", receives |-> queue[k].receives + 1]
            /\ handler'[k] = [pc |-> "resolve", record |-> 1]
         \/ queue'[k] = queue[k] /\ handler'[k] = Shim!NoTask
  BY <1>1 DEF Shim!Receive, Shim!Receivable
<1>3. ASSUME NEW k \in Messages
      PROVE  /\ queue'[k] \in Entry /\ handler'[k] \in Task
             /\ queue'[k].state \in {queue[k].state, "hidden"}
             /\ queue'[k].state = "hidden" => queue[k].state # "unsent"
             /\ \/ handler'[k].pc = "none"
                \/ /\ handler'[k].pc = "resolve"
                   /\ handler'[k].record = 1
                   /\ queue[k].state = "visible"
  <2>1. queue[k] \in Entry
    BY DEF MessagesOK
  <2>2. CASE /\ queue[k].state = "visible"
             /\ queue'[k] = [state |-> "hidden", receives |-> queue[k].receives + 1]
             /\ handler'[k] = [pc |-> "resolve", record |-> 1]
    BY <2>1, <2>2 DEF Entry, Task, Shim!MessageStates, Shim!TaskStates
  <2>3. CASE queue'[k] = queue[k] /\ handler'[k] = Shim!NoTask
    <3>1. Shim!NoTask \in Task /\ Shim!NoTask.pc = "none"
      BY DEF Shim!NoTask, Task, Shim!TaskStates
    <3>2. queue[k].state = "hidden" => queue[k].state # "unsent"
      OBVIOUS
    <3> QED
      BY <2>1, <2>3, <3>1, <3>2
  <2> QED
    BY <1>2, <2>2, <2>3
<1>4. queue' \in [Messages -> Entry] /\ handler' \in [Messages -> Task]
  <2>1. queue' = [k \in Messages |-> queue'[k]] /\ handler' = [k \in Messages |-> handler'[k]]
    BY <1>1 DEF Shim!Receive
  <2> QED
    BY <1>3, <2>1
<1>5. body' = body
  BY <1>1 DEF Shim!Receive
<1>6. ASSUME NEW k \in Messages
      PROVE  OrderlyMessage(k)' /\ MessageStep(k)
  <2>1. queue'[k].state = "unsent" <=> queue[k].state = "unsent"
    BY <1>3
  <2> QED
    BY <1>3, <1>5, <2>1 DEF MessagesOK, OrderlyMessage, MessageStep, Passed, Shim!Unfinished
<1> QED
  BY <1>4, <1>5, <1>6 DEF MessagesOK

\* No step disorders a message, and a message is passed only by start_workflow returning.
LEMMA MessagesStep ==
    ASSUME MessagesOK, [PipelineNext]_pipelineVars
    PROVE  MessagesOK' /\ \A m \in Messages : MessageStep(m)
<1>1. CASE UNCHANGED <<queue, body, handler>>
  BY <1>1 DEF MessagesOK, OrderlyMessage, MessageStep, Passed, Shim!Unfinished
<1>2. CASE UNCHANGED queueVars \/ Shim!Restart
  BY <1>1, <1>2 DEF queueVars, Shim!Restart, Shim!queueVars
<1>3. CASE Shim!EndBatch \/ Shim!Crash
  <2>1. UNCHANGED <<queue, body>> /\ handler' = [m \in Messages |-> Shim!NoTask]
    BY <1>3 DEF Shim!EndBatch, Shim!Crash, Shim!Down, Shim!queueVars
  <2>2. queue' \in [Messages -> Entry] /\ \A m \in Messages : queue'[m] = queue[m]
    BY <2>1 DEF MessagesOK
  <2> QED
    BY <2>1, <2>2, BatchEnds
<1>4. ASSUME NEW m \in Messages, Shim!DeleteFails(m)
      PROVE  MessagesOK' /\ \A k \in Messages : MessageStep(k)
  <2>1. /\ queue' \in {queue, [queue EXCEPT ![m].state = "deleted"]}
        /\ handler' = [k \in Messages |-> Shim!NoTask]
        /\ body' = body /\ handler[m].pc = "delete"
    BY <1>4 DEF Shim!DeleteFails, Shim!Down
  <2>2. Passed(m)
    BY <2>1 DEF MessagesOK, OrderlyMessage, Passed, Shim!Unfinished
  <2>3. queue' \in [Messages -> Entry]
    BY <2>1 DEF MessagesOK, Entry, Shim!MessageStates
  <2>4. \A k \in Messages : queue'[k] = queue[k] \/ (queue'[k].state = "deleted" /\ Passed(k))
    <3>1. CASE queue' = queue
      BY <3>1
    <3>2. CASE queue' = [queue EXCEPT ![m].state = "deleted"]
      <4>1. queue \in [Messages -> Entry] /\ queue[m] \in Entry
        BY DEF MessagesOK
      <4>2. \A k \in Messages \ {m} : queue'[k] = queue[k]
        BY <3>2, <4>1
      <4>3. queue'[m].state = "deleted"
        BY <3>2, <4>1 DEF Entry
      <4> QED
        BY <2>2, <4>2, <4>3
    <3> QED
      BY <2>1, <3>1, <3>2
  <2> QED
    BY <2>1, <2>3, <2>4, BatchEnds
<1> QED
  BY <1>2, <1>3, <1>4, ShimMoves, PollStep, HandlerStep, QueueEntryStep, DeleteStep

-------------------------------------------------------------------------------
\* Of all that happens to an execution once it is started, its closing alone shows.
LEMMA OnlyCloses ==
    ASSUME ExecutionNext
    PROVE  /\ runs' = runs
           /\ \/ execution' = execution
              \/ execution = "running" /\ execution' \in {"completed", "failed"}
<1>1. CASE WorkflowTask
  BY <1>1 DEF WorkflowTask, ScheduleTranscode, CloseFailed, CloseCompleted
<1>2. ASSUME NEW s \in Slots,
             \/ WorkerStep(s)
             \/ Misfortune(s) /\ UNCHANGED flow
             \/ Report(s)
             \/ Overrun(s)
             \/ \E j \in JobTypes : Dispatch(s, j)
      PROVE  runs' = runs /\ execution' = execution
  BY <1>2 DEF WorkerStep, flow, Report, ReportSuccess, ReportFailure, IgnoreReport, Overrun, Dispatch
<1> QED
  BY <1>1, <1>2 DEF ExecutionNext

\* Executions are counted up, and only a running one closes.
LEMMA ExecutionMoves ==
    ASSUME runs \in Nat, [WorkflowNext]_vars
    PROVE  \/ runs' = runs + 1 /\ execution \in {"none", "failed"}
           \/ runs' = runs /\ (execution' = execution \/ execution = "running")
<1>1. CASE StartWorkflow
  BY <1>1 DEF StartWorkflow
<1>2. CASE UNCHANGED vars
  BY <1>2 DEF vars, flow
<1> QED
  BY <1>1, <1>2, OnlyCloses DEF WorkflowNext

\* The executions as the pipeline sees them.
LEMMA ExecutionSteps ==
    ASSUME CoreInv, [PipelineNext]_pipelineVars
    PROVE  /\ runs \in Nat /\ runs' \in Nat
           /\ \/ runs' = runs + 1 /\ execution \in {"none", "failed"}
              \/ runs' = runs /\ (execution' = execution \/ execution = "running")
<1>1. runs \in Nat
  BY DEF CoreInv, LoneInv, FlowInv, ServerInv, FlowTypeOK
<1>2. CASE [WorkflowNext]_vars
  BY <1>1, <1>2, ExecutionMoves
<1>3. CASE OutsideStep
  BY <1>1, <1>3 DEF OutsideStep, Writes, Replaces, flow
<1> QED
  BY <1>2, <1>3, PipelineIsWorkflow

\* A retry that found the execution closed found it open to another one: since then there
\* has been one, or there can be.
Restartable(q) ==
    q.pc # "idle" /\ ~q.open =>
        \/ runs > q.runs
        \/ runs = q.runs /\ execution \in {"none", "failed"}

\* A message that a retry has sent gets past its record only by an execution begun since.
Acknowledged(q) ==
    q.pc \in {"commit", "done"} =>
        /\ q.message \in Messages
        /\ queue[q.message].state # "unsent"
        /\ ~q.open /\ Passed(q.message) => runs > q.runs

RetryInv ==
    /\ CoreInv
    /\ RetriesOK
    /\ MessagesOK
    /\ \A r \in Requests : Restartable(request[r]) /\ Acknowledged(request[r])

\* Where no execution is open or completed, start_workflow begins one.
LEMMA StartsStart ==
    ASSUME MessagesOK, NEW m \in Messages, Starts(m), execution \in {"none", "failed"}
    PROVE  StartWorkflow
<1>1. Shim!Key(m) = ThisVideo
  <2>1. handler[m].pc = "start"
    BY DEF Starts, Shim!Start
  <2>2. body[m] = <<ThisVideo>> /\ handler[m].record = 1
    BY <2>1 DEF MessagesOK, OrderlyMessage
  <2> QED
    BY <2>2 DEF Shim!Key
<1>2. [v \in {ThisVideo} |-> execution][ThisVideo] = execution
  OBVIOUS
<1>3. Shim!Accepted(ThisVideo)
  BY <1>1, <1>2 DEF Starts, Shim!Start, Shim!Startable
<1>4. [v \in {ThisVideo} |-> execution'] =
         [[v \in {ThisVideo} |-> execution] EXCEPT ![ThisVideo] = "running"]
  BY <1>3 DEF Shim!Accepted
<1>5. [v \in {ThisVideo} |-> execution'][ThisVideo] = "running"
  BY <1>4
<1>6. execution' = "running"
  BY <1>5
<1> QED
  BY <1>6 DEF Starts, vars, flow

\* A request that stays as it is keeps both, whatever moves beside it.
LEMMA StandingRequest ==
    ASSUME RetryInv, [PipelineNext]_pipelineVars,
           NEW r \in Requests, NEW q, q = request[r]
    PROVE  Restartable(q)' /\ Acknowledged(q)'
<1>1. q.runs \in Nat /\ runs \in Nat /\ runs' \in Nat
  BY ExecutionSteps DEF RetryInv, RetriesOK
<1>2. /\ \/ runs' = runs + 1 /\ execution \in {"none", "failed"}
         \/ runs' = runs /\ (execution' = execution \/ execution = "running")
      /\ \A m \in Messages : MessageStep(m)
  BY ExecutionSteps, MessagesStep DEF RetryInv
<1>3. Restartable(q) /\ Acknowledged(q)
  BY DEF RetryInv
<1>4. Restartable(q)'
  BY <1>1, <1>2, <1>3 DEF Restartable
<1>5. Acknowledged(q)'
  <2> SUFFICES ASSUME q.pc \in {"commit", "done"}
               PROVE  /\ q.message \in Messages
                      /\ queue'[q.message].state # "unsent"
                      /\ ~q.open /\ Passed(q.message)' => runs' > q.runs
    BY DEF Acknowledged
  <2>1. PICK m \in Messages : m = q.message /\ queue[m].state # "unsent"
    BY <1>3 DEF Acknowledged
  <2>2. queue'[m].state # "unsent"
    BY <1>2, <2>1 DEF MessageStep
  <2>3. ASSUME ~q.open, Passed(m)'
        PROVE  runs' > q.runs
    <3>1. CASE Passed(m)
      BY <1>1, <1>2, <1>3, <2>1, <2>3, <3>1 DEF Acknowledged
    <3>2. CASE Starts(m)
      <4>1. execution \in {"none", "failed"} => StartWorkflow
        BY <3>2, StartsStart DEF RetryInv
      <4>2. StartWorkflow => runs' = runs + 1
        BY DEF StartWorkflow
      <4> QED
        BY <1>1, <1>2, <1>3, <2>1, <2>3, <4>1, <4>2 DEF Restartable
    <3> QED
      BY <1>2, <2>3, <3>1, <3>2 DEF MessageStep
  <2> QED
    BY <2>1, <2>2, <2>3
<1> QED
  BY <1>4, <1>5

\* A retry reads a failed video, whose execution has not completed; publishes a message
\* nobody has handled; commits and answers, with the same message; or is forgotten.
LEMMA MovedRequest ==
    ASSUME RetryInv, NEW r \in Requests,
           RetryRead(r) \/ RetryCommit(r) \/ RetryFails(r) \/ \E m \in Messages : RetrySend(r, m)
    PROVE  \E q : /\ request' = [request EXCEPT ![r] = q]
                  /\ Restartable(q)'
                  /\ Acknowledged(q)'
<1> DEFINE p == request[r]
           Form == [pc : {"idle", "send", "commit", "done"},
                    message : Messages \cup {None}, runs : Nat, open : BOOLEAN]
<1>1. p \in Form
  BY DEF RetryInv, RetriesOK
<1>2. Restartable(p) /\ Acknowledged(p)
  BY DEF RetryInv
<1>3. CASE RetryRead(r)
  <2>1. PICK q : q = [pc |-> "send", message |-> None, runs |-> runs, open |-> execution = "running"]
    OBVIOUS
  <2>2. /\ q.pc = "send" /\ q.runs = runs
        /\ q.open = (execution = "running")
    BY <2>1
  <2>3. execution \in {"none", "running", "failed"}
    BY <1>3 DEF RetryRead, RetryInv, CoreInv, DeliveredOK, LoneInv, FlowInv, ServerInv, FlowTypeOK
  <2>4. runs' = runs /\ execution' = execution
    BY <1>3 DEF RetryRead, vars, flow
  <2>5. ASSUME ~q.open
        PROVE  execution \in {"none", "failed"}
    BY <2>2, <2>3, <2>5
  <2> QED
    BY <1>3, <2>1, <2>2, <2>4, <2>5 DEF RetryRead, Restartable, Acknowledged
<1>4. CASE RetryCommit(r)
  <2>1. PICK q : q = [p EXCEPT !.pc = "done"]
    OBVIOUS
  <2>2. q.pc = "done" /\ q.runs = p.runs /\ q.open = p.open /\ q.message = p.message
    BY <1>1, <2>1
  <2>3. request' = [request EXCEPT ![r] = q] /\ p.pc = "commit"
    BY <1>4, <2>1 DEF RetryCommit
  <2>4. runs' = runs /\ execution' = execution /\ queue' = queue /\ handler' = handler
    BY <1>4 DEF RetryCommit, flow, queueVars
  <2>5. Restartable(q)'
    BY <1>2, <2>2, <2>3, <2>4 DEF Restartable
  <2>6. Acknowledged(q)'
    BY <1>2, <2>2, <2>3, <2>4 DEF Acknowledged, Passed, Shim!Unfinished
  <2> QED
    BY <2>3, <2>5, <2>6
<1>5. CASE RetryFails(r)
  <2>1. NoRequest.pc = "idle"
    BY DEF NoRequest
  <2>2. Restartable(NoRequest)' /\ Acknowledged(NoRequest)'
    BY <2>1 DEF Restartable, Acknowledged
  <2> QED
    BY <1>5, <2>2 DEF RetryFails
<1>6. ASSUME NEW m \in Messages, RetrySend(r, m)
      PROVE  \E q : /\ request' = [request EXCEPT ![r] = q]
                    /\ Restartable(q)'
                    /\ Acknowledged(q)'
  <2>1. PICK q : q = [p EXCEPT !.pc = "commit", !.message = m]
    OBVIOUS
  <2>2. q.pc = "commit" /\ q.runs = p.runs /\ q.open = p.open /\ q.message = m
    BY <1>1, <2>1
  <2>3. request' = [request EXCEPT ![r] = q] /\ p.pc = "send"
    BY <1>6, <2>1 DEF RetrySend
  <2>4. runs' = runs /\ execution' = execution /\ handler' = handler
    BY <1>6 DEF RetrySend, vars, flow, Shim!Publish
  <2>5. queue[m].state = "unsent" /\ queue' = [queue EXCEPT ![m].state = "visible"]
    BY <1>6 DEF RetrySend, Shim!Publish
  <2>6. queue'[m].state = "visible" /\ handler[m].pc = "none"
    BY <2>5 DEF RetryInv, MessagesOK, OrderlyMessage, Entry
  <2>7. Restartable(q)'
    BY <1>2, <2>2, <2>3, <2>4 DEF Restartable
  <2>8. ~Passed(m)'
    BY <2>4, <2>6 DEF Passed, Shim!Unfinished
  <2>9. Acknowledged(q)'
    BY <2>2, <2>6, <2>8 DEF Acknowledged
  <2> QED
    BY <2>3, <2>7, <2>9
<1> QED
  BY <1>3, <1>4, <1>5, <1>6

\* So every step of the pipeline keeps what there is to say of the retries.
LEMMA RetryStep ==
    ASSUME "overrun" \notin Faults, RetryInv, [PipelineNext]_pipelineVars
    PROVE  RetryInv'
<1>1. CoreInv' /\ RetriesOK' /\ MessagesOK'
  BY CoreStep, RetriesStep, MessagesStep DEF RetryInv
<1>2. ASSUME NEW r \in Requests, NEW q, q = request'[r], Restartable(q)', Acknowledged(q)'
      PROVE  Restartable(request[r])' /\ Acknowledged(request[r])'
  BY <1>2 DEF Restartable, Acknowledged
<1>3. ASSUME NEW r \in Requests
      PROVE  \E q : q = request'[r] /\ Restartable(q)' /\ Acknowledged(q)'
  <2>1. CASE request'[r] = request[r]
    BY <2>1, StandingRequest
  <2>2. CASE RetryRead(r) \/ RetryCommit(r) \/ RetryFails(r) \/ \E m \in Messages : RetrySend(r, m)
    <3>1. PICK q : /\ request' = [request EXCEPT ![r] = q]
                   /\ Restartable(q)'
                   /\ Acknowledged(q)'
      BY <2>2, MovedRequest
    <3>2. request'[r] = q
      BY <3>1 DEF RetryInv, RetriesOK
    <3> QED
      BY <3>1, <3>2
  <2>3. ASSUME NEW k \in Requests \ {r},
               RetryRead(k) \/ RetryCommit(k) \/ RetryFails(k) \/ \E m \in Messages : RetrySend(k, m)
        PROVE  request'[r] = request[r]
    <3>1. \E q : request' = [request EXCEPT ![k] = q]
      BY <2>3, MovedRequest
    <3> QED
      BY <2>3, <3>1 DEF RetryInv, RetriesOK
  <2>4. RetriesOK /\ runs \in Nat
    BY ExecutionSteps DEF RetryInv
  <2> QED
    BY <2>1, <2>2, <2>3, <2>4, RequestMoves
<1>4. \A r \in Requests : Restartable(request[r])' /\ Acknowledged(request[r])'
  BY <1>2, <1>3
<1> QED
  BY <1>1, <1>4 DEF RetryInv

\* A retry of a video whose execution has closed is never lost: when its message is
\* acknowledged there has been an execution since the retry read the row, its own or one
\* it shares, whatever else was sent, redelivered or failed (the shim's reuse policy and
\* its delete after the last start_workflow).
THEOREM RetriesOfClosedRestart ==
    ASSUME "overrun" \notin Faults
    PROVE  PipelineSafety => []RetryOfClosedRestarts
<1>1. PipelineInit => RetryInv
  <2> SUFFICES ASSUME PipelineInit PROVE RetryInv
    OBVIOUS
  <2>1. CoreInv
    BY CoreInit
  <2>2. \A r \in Requests : request[r].pc = "idle"
    BY DEF PipelineInit, NoRequest
  <2>3. RetriesOK /\ \A r \in Requests : Restartable(request[r]) /\ Acknowledged(request[r])
    <3>1. NoRequest \in [pc : {"idle", "send", "commit", "done"},
                         message : Messages \cup {None}, runs : Nat, open : BOOLEAN]
      BY DEF NoRequest
    <3> QED
      BY <2>2, <3>1 DEF PipelineInit, RetriesOK, Restartable, Acknowledged
  <2>4. MessagesOK
    BY MessagesInit
  <2> QED
    BY <2>1, <2>3, <2>4 DEF RetryInv
<1>2. RetryInv => RetryOfClosedRestarts
  BY DEF RetryInv, Acknowledged, Passed, RetryOfClosedRestarts
<1>3. ("overrun" \notin Faults) /\ RetryInv /\ [PipelineNext]_pipelineVars => RetryInv'
  BY RetryStep
<1> QED
  BY <1>1, <1>2, <1>3, PTL DEF PipelineSafety

-------------------------------------------------------------------------------
\* Its closing is all the shim can see of it.
LEMMA ExecutionCloses ==
    ASSUME ExecutionNext, UNCHANGED queueVars
    PROVE  UNCHANGED Shim!shimVars \/
           \E outcome \in {"completed", "failed"} : Shim!Close(ThisVideo, outcome)
<1>1. execution' = execution \/ (execution = "running" /\ execution' \in {"completed", "failed"})
  BY OnlyCloses
<1>2. CASE execution' = execution
  BY <1>2 DEF queueVars, Shim!shimVars
<1>3. CASE execution = "running" /\ execution' \in {"completed", "failed"}
  <2>1. [v \in {ThisVideo} |-> execution'] =
           [[v \in {ThisVideo} |-> execution] EXCEPT ![ThisVideo] = execution']
    OBVIOUS
  <2>2. [v \in {ThisVideo} |-> execution][ThisVideo] = "running"
    BY <1>3
  <2>3. Shim!Close(ThisVideo, execution')
    BY <2>1, <2>2 DEF Shim!Close, queueVars, Shim!queueVars
  <2> QED
    BY <1>3, <2>3
<1> QED
  BY <1>1, <1>2, <1>3

\* The queue and the shim of the pipeline are those of SqsShim, with the workflow that
\* really runs in the place of the one reduced to its state: what the runs and theorems
\* of SqsShim say of it, the reuse policy and the order of start and delete included,
\* holds beside real attempts, retries and replaced uploads.
THEOREM PipelineImplementsShim == PipelineSafety => Shim!ShimSafety
<1>1. PipelineInit => Shim!ShimInit
  BY DEF PipelineInit, WorkflowInit, Shim!ShimInit
<1>2. [PipelineNext]_pipelineVars => [Shim!ShimNext]_(Shim!shimVars)
  <2> SUFFICES ASSUME [PipelineNext]_pipelineVars
               PROVE  Shim!ShimNext \/ UNCHANGED Shim!shimVars
    OBVIOUS
  <2>1. CASE CreateVideo \/ UNCHANGED pipelineVars
    BY <2>1 DEF CreateVideo, flow, pipelineVars, vars, queueVars, Shim!shimVars
  <2>2. ASSUME NEW m \in Messages,
               \/ StoreUpload(m) \/ NotifyAgain(m)
               \/ \E h \in Heights : ReplaceUpload(h, m)
               \/ \E r \in Requests : RetrySend(r, m)
        PROVE  Shim!ShimNext
    <3>1. Shim!Publish(m, <<ThisVideo>>)
      BY <2>2 DEF StoreUpload, NotifyAgain, ReplaceUpload, RetrySend
    <3> QED
      BY <3>1 DEF Shim!ShimNext
  <2>3. ASSUME NEW m \in Messages, HandleMessage(m) \/ StartWorkflowFails(m) \/ QueueMoves(m)
        PROVE  Shim!ShimNext
    BY <2>3 DEF HandleMessage, StartWorkflowFails, QueueMoves, Shim!ShimNext, Shim!Fault
  <2>4. ASSUME NEW r \in Requests, RetryRead(r) \/ RetryCommit(r) \/ RetryFails(r)
        PROVE  UNCHANGED Shim!shimVars
    BY <2>4 DEF RetryRead, RetryCommit, RetryFails, vars, flow, queueVars, Shim!shimVars
  <2>5. CASE ShimLoops \/ ShimFails
    BY <2>5 DEF ShimLoops, ShimFails, Shim!ShimNext, Shim!Fault
  <2>6. CASE ExecutionNext /\ UNCHANGED <<apiVars, queueVars>>
    BY <2>6, ExecutionCloses DEF Shim!ShimNext
  <2> QED
    BY <2>1, <2>2, <2>3, <2>4, <2>5, <2>6 DEF PipelineNext
<1> QED
  BY <1>1, <1>2, PTL DEF PipelineSafety, Shim!ShimSafety

\* There is never again no execution.
LEMMA ExecutionStays ==
    ASSUME [PipelineNext]_pipelineVars, execution # "none"
    PROVE  execution' # "none"
<1>1. CASE StartWorkflow
  BY <1>1 DEF StartWorkflow
<1>2. CASE UNCHANGED vars \/ OutsideStep
  BY <1>2 DEF vars, flow, OutsideStep, Writes, Replaces
<1> QED
  BY <1>1, <1>2, OnlyCloses, PipelineIsWorkflow DEF WorkflowNext

\* A message is acknowledged only when the video has had an execution, whatever fails
\* and however attempts overlap: what DeletedMeansStarted says of the shim beside the
\* real workflow.
THEOREM AcknowledgedMeansStarted == PipelineSafety => []Shim!DeletedMeansStarted
<1> DEFINE Inv == MessagesOK /\ \A m \in Messages : Passed(m) => execution # "none"
<1>1. PipelineInit => Inv
  <2> SUFFICES ASSUME PipelineInit PROVE Inv
    OBVIOUS
  <2>1. MessagesOK
    BY MessagesInit
  <2>2. ASSUME NEW m \in Messages PROVE ~Passed(m)
    <3>1. Shim!NoTask.pc = "none"
      BY DEF Shim!NoTask
    <3> QED
      BY <3>1 DEF PipelineInit, Passed, Shim!Unfinished
  <2> QED
    BY <2>1, <2>2
<1>2. ASSUME Inv, [PipelineNext]_pipelineVars
      PROVE  Inv'
  <2>1. ASSUME NEW m \in Messages, Starts(m)
        PROVE  execution' # "none"
    <3>1. execution \in {"none", "failed"} => StartWorkflow
      BY <1>2, <2>1, StartsStart
    <3> QED
      BY <1>2, <3>1, ExecutionStays DEF StartWorkflow
  <2> QED
    BY <1>2, <2>1, MessagesStep, ExecutionStays DEF MessageStep
<1>3. Inv => Shim!DeletedMeansStarted
  <2> SUFFICES ASSUME Inv, NEW m \in Messages, queue[m].state = "deleted",
                      NEW v \in Shim!NamedIn(m)
               PROVE  [w \in {ThisVideo} |-> execution][v] # "none"
    BY DEF Shim!DeletedMeansStarted
  <2>1. v \in {ThisVideo} /\ execution # "none"
    BY DEF Shim!NamedIn, Passed
  <2> QED
    BY <2>1
<1> QED
  BY <1>1, <1>2, <1>3, PTL DEF PipelineSafety

-------------------------------------------------------------------------------
\* What SQS has handed out so far: each message as often as it was received.
Deliveries == {d \in Messages \X (1 .. MaxReceiveCount) : d[2] =< queue[d[1]].receives}

\* The handler of m has not been past start_workflow yet.
MayStart(m) == handler[m].pc \in {"resolve", "start"} /\ handler[m].record = 1

\* The deliveries that start no execution any more.
Spent == {d \in Deliveries : MayStart(d[1]) => d[2] < queue[d[1]].receives}

\* A handler works on a delivery, and none but those of the batch does.
DeliveriesOK ==
    /\ shim # "handling" => \A m \in Messages : handler[m].pc = "none"
    /\ \A m \in Messages :
          /\ queue[m].receives =< MaxReceiveCount
          /\ MayStart(m) => queue[m].receives >= 1

\* What a step may do to the deliveries of m: a handler that could not start an execution
\* can do so only with one delivery more.
DeliveryStep(m) ==
    \/ /\ queue'[m].receives = queue[m].receives
       /\ MayStart(m)' => MayStart(m)
    \/ /\ queue'[m].receives = queue[m].receives + 1
       /\ queue'[m].receives =< MaxReceiveCount
       /\ ~MayStart(m)

\* What the handler of one message does gives no other the means to start.
LEMMA HandlerDelivery ==
    ASSUME MessagesOK, MessagesOK', NEW k \in Messages,
           Shim!Resolve(k) \/ Starts(k) \/ Shim!StartFails(k) \/ Shim!LookupFails(k) \/ Shim!Delete(k)
    PROVE  /\ shim' = shim
           /\ \A m \in Messages :
                 /\ queue'[m].receives = queue[m].receives
                 /\ MayStart(m)' => MayStart(m)
                 /\ handler'[m].pc # "none" => handler[m].pc # "none"
           /\ (Starts(k) \/ Shim!StartFails(k)) => MayStart(k) /\ ~MayStart(k)'
<1>1. /\ handler \in [Messages -> Task] /\ handler[k] \in Task
      /\ queue \in [Messages -> Entry] /\ queue[k] \in Entry
      /\ OrderlyMessage(k) /\ OrderlyMessage(k)'
  BY DEF MessagesOK
<1>2. \/ /\ handler' = [handler EXCEPT ![k] = [pc |-> "resolve", record |-> @.record + 1]]
         /\ Starts(k)
      \/ /\ \E pc \in {"start", "delete", "done"} : handler' = [handler EXCEPT ![k].pc = pc]
         /\ ~(handler[k].pc = "start" /\ handler'[k].pc = "start")
  <2>1. CASE Shim!Resolve(k)
    <3>1. Shim!Key(k) = "video" \/ ~Shim!MoreRecords(k)
      <4>1. handler[k].record \in Nat /\ handler[k].record >= 1 /\ body[k] = <<ThisVideo>>
        BY <1>1, <2>1 DEF Shim!Resolve, OrderlyMessage, Shim!Unfinished, Task
      <4>2. Shim!MoreRecords(k) => handler[k].record = 1
        BY <4>1, OneRecord DEF Shim!MoreRecords
      <4> QED
        BY <4>1, <4>2, OneRecord DEF Shim!Key
    <3> QED
      BY <2>1, <3>1 DEF Shim!Resolve, Shim!Step
  <2>2. CASE Starts(k)
    BY <2>2 DEF Starts, Shim!Start, Shim!NextRecord
  <2>3. CASE Shim!StartFails(k) \/ Shim!LookupFails(k)
    <3>1. handler' = [handler EXCEPT ![k].pc = "done"]
      BY <2>3 DEF Shim!StartFails, Shim!LookupFails, Shim!Step
    <3> QED
      BY <1>1, <3>1 DEF Task
  <2>4. CASE Shim!Delete(k)
    <3>1. handler' = [handler EXCEPT ![k].pc = "done"]
      BY <2>4 DEF Shim!Delete, Shim!Step
    <3> QED
      BY <1>1, <3>1 DEF Task
  <2> QED
    BY <2>1, <2>2, <2>3, <2>4
<1>3. handler[k].pc \in {"resolve", "start", "delete"} /\ shim' = shim
  BY DEF Shim!Resolve, Starts, Shim!Start, Shim!StartFails, Shim!LookupFails, Shim!Delete
<1>4. \A m \in Messages : queue'[m].receives = queue[m].receives
  <2>1. queue' = queue \/ queue' = [queue EXCEPT ![k].state = "deleted"]
    BY DEF Shim!Resolve, Starts, Shim!Start, Shim!StartFails, Shim!LookupFails, Shim!Delete,
       Shim!queueVars
  <2> QED
    BY <1>1, <2>1 DEF Entry
<1>5. \A m \in Messages \ {k} : handler'[m] = handler[m]
  BY <1>1, <1>2
<1>6. \/ handler'[k].pc = "resolve" /\ handler'[k].record = handler[k].record + 1 /\ Starts(k)
      \/ /\ handler'[k].pc \in {"start", "delete", "done"}
         /\ handler'[k].record = handler[k].record
         /\ ~(handler[k].pc = "start" /\ handler'[k].pc = "start")
  BY <1>1, <1>2 DEF Task
<1>7. handler[k].record \in Nat /\ handler[k].record >= 1
  BY <1>1, <1>3 DEF Task, OrderlyMessage, Shim!Unfinished
<1>8. handler'[k].pc = "start" => handler[k].pc = "resolve"
  <2>1. handler'[k].pc = "start" => handler'[k].record = 1
    BY <1>1 DEF OrderlyMessage
  <2> QED
    BY <1>1, <1>3, <1>6, <1>7, <2>1 DEF OrderlyMessage
<1>9. MayStart(k)' => MayStart(k)
  BY <1>1, <1>6, <1>7, <1>8 DEF MayStart, OrderlyMessage
<1>10. ASSUME Starts(k) \/ Shim!StartFails(k)
       PROVE  MayStart(k) /\ ~MayStart(k)'
  <2>1. handler[k].pc = "start"
    BY <1>10 DEF Starts, Shim!Start, Shim!StartFails
  <2> QED
    BY <1>1, <1>6, <1>7, <1>8, <2>1 DEF MayStart, OrderlyMessage
<1> QED
  BY <1>3, <1>4, <1>5, <1>9, <1>10 DEF MayStart

\* What happens to a message in the queue does not receive it.
LEMMA QueueDelivery ==
    ASSUME MessagesOK, NEW k \in Messages,
           Shim!Publish(k, <<ThisVideo>>) \/ Shim!Redeliver(k) \/ Shim!DeadLetter(k)
    PROVE  /\ UNCHANGED <<shim, handler>>
           /\ \A m \in Messages : queue'[m].receives = queue[m].receives
<1>1. /\ UNCHANGED <<shim, handler>>
      /\ \E st \in {"visible", "dead"} : queue' = [queue EXCEPT ![k].state = st]
  BY DEF Shim!Publish, Shim!Redeliver, Shim!DeadLetter
<1>2. queue \in [Messages -> Entry]
  BY DEF MessagesOK
<1> QED
  BY <1>1, <1>2 DEF Entry

\* A process that is gone, or a batch that is over, leaves no handler.
LEMMA IdleDelivery ==
    ASSUME MessagesOK, NEW k \in Messages,
           Shim!EndBatch \/ Shim!Crash \/ Shim!DeleteFails(k)
    PROVE  \A m \in Messages :
              /\ queue'[m].receives = queue[m].receives
              /\ handler'[m].pc = "none"
<1>1. handler' = [m \in Messages |-> Shim!NoTask] /\ Shim!NoTask.pc = "none"
  BY DEF Shim!EndBatch, Shim!Crash, Shim!DeleteFails, Shim!Down, Shim!NoTask
<1>2. queue' = queue \/ queue' = [queue EXCEPT ![k].state = "deleted"]
  BY DEF Shim!EndBatch, Shim!Crash, Shim!DeleteFails, Shim!queueVars
<1>3. queue \in [Messages -> Entry]
  BY DEF MessagesOK
<1> QED
  BY <1>1, <1>2, <1>3 DEF Entry

\* A batch is received once more, and by handlers that did not run before.
LEMMA PollDelivery ==
    ASSUME MessagesOK, DeliveriesOK, Shim!Poll
    PROVE  /\ shim' = "handling"
           /\ \A m \in Messages :
                 /\ ~MayStart(m)
                 /\ \/ /\ queue'[m].receives = queue[m].receives + 1
                       /\ queue'[m].receives =< MaxReceiveCount
                    \/ queue'[m].receives = queue[m].receives /\ ~MayStart(m)'
<1>1. PICK batch \in SUBSET Messages : Shim!Receive(batch)
  BY DEF Shim!Poll
<1>2. shim = "polling" /\ shim' = "handling"
  BY <1>1 DEF Shim!Receive
<1>3. \A m \in Messages :
         \/ /\ queue[m].receives < MaxReceiveCount
            /\ queue'[m] = [state |-> "hidden", receives |-> queue[m].receives + 1]
         \/ queue'[m] = queue[m] /\ handler'[m] = Shim!NoTask
  BY <1>1 DEF Shim!Receive, Shim!Receivable
<1>4. Shim!NoTask.pc = "none"
  BY DEF Shim!NoTask
<1>5. ASSUME NEW m \in Messages
      PROVE  /\ ~MayStart(m)
             /\ \/ /\ queue'[m].receives = queue[m].receives + 1
                   /\ queue'[m].receives =< MaxReceiveCount
                \/ queue'[m].receives = queue[m].receives /\ ~MayStart(m)'
  <2>1. queue[m].receives \in Nat
    BY DEF MessagesOK, Entry
  <2>2. ~MayStart(m)
    BY <1>2 DEF DeliveriesOK, MayStart
  <2>3. CASE /\ queue[m].receives < MaxReceiveCount
             /\ queue'[m] = [state |-> "hidden", receives |-> queue[m].receives + 1]
    <3>1. queue'[m].receives = queue[m].receives + 1
      BY <2>3
    <3> QED
      BY <2>1, <2>2, <2>3, <3>1, ReceiveCountAssumption
  <2>4. CASE queue'[m] = queue[m] /\ handler'[m] = Shim!NoTask
    BY <1>4, <2>2, <2>4 DEF MayStart
  <2> QED
    BY <1>3, <2>3, <2>4
<1> QED
  BY <1>2, <1>5

\* So each step that gives a handler the means to start an execution is a delivery.
LEMMA DeliveriesStep ==
    ASSUME MessagesOK, DeliveriesOK, [PipelineNext]_pipelineVars
    PROVE  DeliveriesOK' /\ \A m \in Messages : DeliveryStep(m)
<1> DEFINE Goal == DeliveriesOK' /\ \A m \in Messages : DeliveryStep(m)
<1>1. /\ MessagesOK'
      /\ \A m \in Messages : queue[m].receives \in Nat /\ queue'[m].receives \in Nat
  BY MessagesStep DEF MessagesOK, Entry
<1>2. ASSUME shim' = shim \/ \A m \in Messages : handler'[m].pc = "none",
             \A m \in Messages :
                /\ queue'[m].receives = queue[m].receives
                /\ MayStart(m)' => MayStart(m)
                /\ handler'[m].pc # "none" => handler[m].pc # "none"
      PROVE  Goal
  BY <1>1, <1>2 DEF DeliveriesOK, DeliveryStep
<1>3. ASSUME UNCHANGED handler, \A m \in Messages : queue'[m].receives = queue[m].receives,
             shim' = shim
      PROVE  Goal
  BY <1>2, <1>3 DEF MayStart
<1>4. CASE UNCHANGED queueVars
  BY <1>3, <1>4 DEF queueVars
<1>5. CASE Shim!Restart
  <2>1. /\ UNCHANGED handler
        /\ \A m \in Messages : queue'[m].receives = queue[m].receives
        /\ shim = "down"
    BY <1>5 DEF Shim!Restart, Shim!queueVars
  <2>2. \A m \in Messages : handler'[m].pc = "none"
    BY <2>1 DEF DeliveriesOK
  <2> QED
    BY <1>2, <2>1, <2>2 DEF MayStart
<1>6. ASSUME NEW k \in Messages, Shim!EndBatch \/ Shim!Crash \/ Shim!DeleteFails(k)
      PROVE  Goal
  BY <1>2, <1>6, IdleDelivery DEF MayStart
<1>7. CASE Shim!EndBatch \/ Shim!Crash
  <2>1. CASE Messages = {}
    BY <2>1 DEF DeliveriesOK
  <2> QED
    BY <1>6, <1>7, <2>1
<1>8. ASSUME NEW k \in Messages,
             Shim!Publish(k, <<ThisVideo>>) \/ Shim!Redeliver(k) \/ Shim!DeadLetter(k)
      PROVE  Goal
  BY <1>3, <1>8, QueueDelivery
<1>9. ASSUME NEW k \in Messages,
             \/ Shim!Resolve(k) \/ Starts(k) \/ Shim!StartFails(k)
             \/ Shim!LookupFails(k) \/ Shim!Delete(k)
      PROVE  Goal
  BY <1>1, <1>2, <1>9, HandlerDelivery
<1>10. CASE Shim!Poll
  <2>1. /\ shim' = "handling"
        /\ \A m \in Messages :
              /\ ~MayStart(m)
              /\ \/ /\ queue'[m].receives = queue[m].receives + 1
                    /\ queue'[m].receives =< MaxReceiveCount
                 \/ queue'[m].receives = queue[m].receives /\ ~MayStart(m)'
    BY <1>10, PollDelivery
  <2>2. DeliveriesOK'
    BY <1>1, <2>1 DEF DeliveriesOK
  <2> QED
    BY <2>1, <2>2 DEF DeliveryStep
<1> QED
  BY <1>4, <1>5, <1>6, <1>7, <1>8, <1>9, <1>10, ShimMoves

\* An execution is begun by one handler's call of start_workflow, returned or not.
LEMMA RunIsDelivered ==
    ASSUME MessagesOK, runs \in Nat, [PipelineNext]_pipelineVars, runs' # runs
    PROVE  /\ runs' = runs + 1
           /\ \E m \in Messages :
                 MayStart(m) /\ ~MayStart(m)' /\ queue'[m].receives = queue[m].receives
<1>1. PICK k \in Messages : HandleMessage(k) \/ StartWorkflowFails(k)
  <2>1. CASE ExecutionNext
    BY <2>1, OnlyCloses
  <2>2. CASE CreateVideo \/ ShimLoops \/ ShimFails \/ UNCHANGED pipelineVars
    BY <2>2 DEF CreateVideo, ShimLoops, ShimFails, pipelineVars, vars, flow
  <2>3. ASSUME NEW m \in Messages,
               \/ StoreUpload(m) \/ NotifyAgain(m) \/ QueueMoves(m)
               \/ \E h \in Heights : ReplaceUpload(h, m)
        PROVE  runs' = runs
    BY <2>3 DEF StoreUpload, NotifyAgain, QueueMoves, ReplaceUpload, vars, flow
  <2>4. ASSUME NEW r \in Requests,
               \/ RetryRead(r) \/ RetryCommit(r) \/ RetryFails(r)
               \/ \E m \in Messages : RetrySend(r, m)
        PROVE  runs' = runs
    BY <2>4 DEF RetryRead, RetryCommit, RetryFails, RetrySend, vars, flow
  <2> QED
    BY <2>1, <2>2, <2>3, <2>4 DEF PipelineNext
<1>2. StartWorkflow
  BY <1>1 DEF HandleMessage, StartWorkflowFails, vars, flow
<1>3. runs' = runs + 1 /\ execution \in {"none", "failed"} /\ execution' = "running"
  BY <1>2 DEF StartWorkflow
<1>4. [v \in {ThisVideo} |-> execution'] # [v \in {ThisVideo} |-> execution]
  <2>1. /\ [v \in {ThisVideo} |-> execution'][ThisVideo] = "running"
        /\ [v \in {ThisVideo} |-> execution][ThisVideo] # "running"
    BY <1>3
  <2> QED
    BY <2>1
<1>5. Starts(k) \/ Shim!StartFails(k)
  BY <1>1, <1>2, <1>4
     DEF HandleMessage, StartWorkflowFails, Starts, Shim!Handle, Shim!Resolve, Shim!Delete
<1>6. MayStart(k) /\ ~MayStart(k)' /\ queue'[k].receives = queue[k].receives
  BY <1>5, MessagesStep, HandlerDelivery
<1> QED
  BY <1>3, <1>6

FinitelyMany ==
    /\ IsFiniteSet(Spent)
    /\ Cardinality(Deliveries) \in Nat /\ Cardinality(Spent) \in Nat
    /\ Cardinality(Spent) =< Cardinality(Deliveries)
    /\ Cardinality(Deliveries) =< Cardinality(Messages) * MaxReceiveCount

\* There are finitely many deliveries, as the redrive policy has them.
LEMMA DeliveriesAreFinite == FinitelyMany
<1>1. IsFiniteSet(1 .. MaxReceiveCount) /\ Cardinality(1 .. MaxReceiveCount) = MaxReceiveCount
  BY FS_Interval, ReceiveCountAssumption
<1>2. /\ IsFiniteSet(Messages \X (1 .. MaxReceiveCount))
      /\ Cardinality(Messages \X (1 .. MaxReceiveCount)) = Cardinality(Messages) * MaxReceiveCount
  BY <1>1, FS_Product, MessagesAssumption
<1>3. Deliveries \in SUBSET (Messages \X (1 .. MaxReceiveCount)) /\ Spent \in SUBSET Deliveries
  BY DEF Deliveries, Spent
<1>4. /\ IsFiniteSet(Deliveries)
      /\ Cardinality(Deliveries) =< Cardinality(Messages \X (1 .. MaxReceiveCount))
  BY <1>2, <1>3, FS_Subset
<1>5. IsFiniteSet(Spent) /\ Cardinality(Spent) =< Cardinality(Deliveries)
  BY <1>3, <1>4, FS_Subset
<1>6. Cardinality(Deliveries) \in Nat /\ Cardinality(Spent) \in Nat
  BY <1>4, <1>5, FS_CardinalityType
<1> QED
  BY <1>2, <1>4, <1>5, <1>6 DEF FinitelyMany

CostInv ==
    /\ FaultyInv
    /\ MessagesOK
    /\ DeliveriesOK
    /\ runs =< Cardinality(Spent)

\* No delivery starts two executions: beginning one spends it.
LEMMA CostStep ==
    ASSUME CostInv, [PipelineNext]_pipelineVars
    PROVE  CostInv'
<1>1. FaultyInv' /\ MessagesOK' /\ DeliveriesOK' /\ \A m \in Messages : DeliveryStep(m)
  BY FaultyStep, MessagesStep, DeliveriesStep DEF CostInv
<1>2. runs \in Nat
  BY DEF CostInv, FaultyInv, FlowInv, ServerInv, FlowTypeOK
<1>3. /\ IsFiniteSet(Spent) /\ Cardinality(Spent) \in Nat
      /\ IsFiniteSet(Spent') /\ Cardinality(Spent') \in Nat
  <2>1. FinitelyMany'
    BY DeliveriesAreFinite, PTL
  <2> QED
    BY <2>1, DeliveriesAreFinite DEF FinitelyMany
<1>4. Spent \in SUBSET Spent'
  <2> SUFFICES ASSUME NEW m \in Messages, NEW i \in 1 .. MaxReceiveCount,
                      i =< queue[m].receives, MayStart(m) => i < queue[m].receives
               PROVE  i =< queue'[m].receives /\ (MayStart(m)' => i < queue'[m].receives)
    BY DEF Spent, Deliveries
  <2>1. DeliveryStep(m) /\ queue[m].receives \in Nat
    BY <1>1 DEF CostInv, MessagesOK, Entry
  <2> QED
    BY <2>1 DEF DeliveryStep
<1>5. CASE runs' = runs
  <2>1. Cardinality(Spent) =< Cardinality(Spent')
    BY <1>3, <1>4, FS_Subset
  <2> QED
    BY <1>1, <1>2, <1>3, <1>5, <2>1 DEF CostInv
<1>6. CASE runs' # runs
  <2>1. runs' = runs + 1
    BY <1>2, <1>6, RunIsDelivered DEF CostInv
  <2>2. PICK m \in Messages :
           MayStart(m) /\ ~MayStart(m)' /\ queue'[m].receives = queue[m].receives
    BY <1>2, <1>6, RunIsDelivered DEF CostInv
  <2> DEFINE d == <<m, queue[m].receives>>
  <2>3. queue[m].receives \in 1 .. MaxReceiveCount
    BY <2>2, ReceiveCountAssumption DEF CostInv, DeliveriesOK, MessagesOK, Entry
  <2>4. d \notin Spent
    BY <2>2, <2>3 DEF Spent
  <2>5. d \in Spent'
    BY <2>2, <2>3 DEF Spent, Deliveries
  <2>6. Cardinality(Spent \cup {d}) = Cardinality(Spent) + 1
    BY <1>3, <2>4, FS_AddElement
  <2>7. Cardinality(Spent \cup {d}) =< Cardinality(Spent')
    BY <1>3, <1>4, <2>5, FS_Subset
  <2> QED
    BY <1>1, <1>2, <1>3, <2>1, <2>6, <2>7 DEF CostInv
<1> QED
  BY <1>5, <1>6

\* It holds of every behaviour of the pipeline.
LEMMA CostInvariant == PipelineSafety => []CostInv
<1>1. PipelineInit => CostInv
  <2> SUFFICES ASSUME PipelineInit PROVE CostInv
    OBVIOUS
  <2>1. FaultyInv /\ MessagesOK
    BY FaultyInit, MessagesInit
  <2>2. DeliveriesOK
    <3>1. Shim!NoTask.pc = "none"
      BY DEF Shim!NoTask
    <3> QED
      BY <3>1, ReceiveCountAssumption DEF PipelineInit, DeliveriesOK, MayStart
  <2>3. runs = 0
    BY DEF PipelineInit, WorkflowInit
  <2> QED
    BY <2>1, <2>2, <2>3, DeliveriesAreFinite DEF CostInv, FinitelyMany
<1> QED
  BY <1>1, CostStep, PTL DEF PipelineSafety

\* What failures cost: one delivery of a message begins at most one execution, though
\* start_workflow may fail after it has taken effect and the message come back; and as the
\* queue gives a message up after max_receive_count, everything that is sent together
\* claims a job no more often than so many budgets allow.
CostIsBounded ==
    /\ runs =< Cardinality(Deliveries)
    /\ runs =< Cardinality(Messages) * MaxReceiveCount
    /\ \A j \in JobTypes : jobs[j].attempts =< Cardinality(Deliveries) * MaximumAttempts

\* A larger factor makes a larger product.
LEMMA ProductGrows ==
    ASSUME NEW a \in Nat, NEW b \in Nat, NEW c \in Nat, a =< b
    PROVE  a * c =< b * c
<1>1. PICK d \in Nat : b = a + d
  <2>1. b - a \in Nat /\ b = a + (b - a)
    OBVIOUS
  <2> QED
    BY <2>1
<1>2. b * c = a * c + d * c /\ d * c >= 0 /\ a * c \in Nat /\ d * c \in Nat
  BY <1>1
<1> QED
  BY <1>2

\* No execution is begun and no job claimed that a delivery does not pay for
\* (process_message's one call of start_workflow per record; the redrive policy).
THEOREM DeliveriesBoundCost == PipelineSafety => []CostIsBounded
<1>1. CostInv => CostIsBounded
  <2> SUFFICES ASSUME CostInv PROVE CostIsBounded
    OBVIOUS
  <2>1. runs \in Nat /\ Cardinality(Messages) \in Nat
    BY MessagesAssumption, FS_CardinalityType
       DEF CostInv, FaultyInv, FlowInv, ServerInv, FlowTypeOK
  <2>2. runs =< Cardinality(Deliveries) /\ runs =< Cardinality(Messages) * MaxReceiveCount
    BY <2>1, DeliveriesAreFinite, ReceiveCountAssumption DEF CostInv, FinitelyMany
  <2>3. \A j \in JobTypes : jobs[j].attempts =< runs * MaximumAttempts
    BY BudgetBounds DEF CostInv, FaultyInv, ClaimsStayInBudget
  <2>4. Cardinality(Deliveries) \in Nat
    BY DeliveriesAreFinite DEF FinitelyMany
  <2>5. runs * MaximumAttempts =< Cardinality(Deliveries) * MaximumAttempts
    BY <2>1, <2>2, <2>4, ProductGrows, MaximumAttemptsAssumption
  <2>6. \A j \in JobTypes : jobs[j].attempts \in Nat
    BY DEF CostInv, FaultyInv, FlowInv, TypeInv, JobsTypeOK, JobRow
  <2>7. \A j \in JobTypes : jobs[j].attempts =< Cardinality(Deliveries) * MaximumAttempts
    <3>1. /\ runs * MaximumAttempts \in Nat
          /\ Cardinality(Deliveries) * MaximumAttempts \in Nat
      BY <2>1, <2>4, MaximumAttemptsAssumption
    <3> QED
      BY <2>3, <2>5, <2>6, <3>1
  <2> QED
    BY <2>2, <2>7 DEF CostIsBounded
<1> QED
  BY <1>1, CostInvariant, PTL

-------------------------------------------------------------------------------
\* Nothing is granted, sent or started for a video whose row is not there.
RowFirst ==
    video.status = "absent" =>
        /\ upload = "none"
        /\ execution = "none"
        /\ \A m \in Messages : queue[m].state = "unsent"

\* The row is written before the URL is handed out, and retries read it.
LEMMA RowFirstStep ==
    ASSUME "overrun" \notin Faults, CoreInv, RetriesOK, MessagesOK, RowFirst,
           [PipelineNext]_pipelineVars
    PROVE  RowFirst'
<1> SUFFICES ASSUME video'.status = "absent"
             PROVE  /\ upload' = "none" /\ execution' = "none"
                    /\ \A m \in Messages : queue'[m].state = "unsent"
  BY DEF RowFirst
<1>1. /\ video.status = "absent" /\ upload = "none" /\ execution = "none"
      /\ \A m \in Messages : queue[m].state = "unsent"
  BY CoreStep DEF RowFirst
<1>2. \A m \in Messages : handler[m].pc = "none"
  BY <1>1 DEF MessagesOK, OrderlyMessage
<1>3. ~CreateVideo
  <2>1. video \in [status : VideoStatuses, height : Heights \cup {None}]
    BY DEF CoreInv, LoneInv, FlowInv, TypeInv, JobsTypeOK
  <2>2. CreateVideo => video'.status = "pending_upload"
    BY <2>1 DEF CreateVideo
  <2> QED
    BY <2>2
<1>4. ASSUME NEW m \in Messages
      PROVE  /\ ~StoreUpload(m) /\ ~NotifyAgain(m) /\ ~QueueMoves(m)
             /\ ~HandleMessage(m) /\ ~StartWorkflowFails(m)
             /\ \A h \in Heights : ~ReplaceUpload(h, m)
             /\ ~Shim!LookupFails(m) /\ ~Shim!DeleteFails(m)
  BY <1>1, <1>2 DEF StoreUpload, NotifyAgain, QueueMoves, HandleMessage, StartWorkflowFails,
     ReplaceUpload, Shim!QueueStep, Shim!Redeliver, Shim!DeadLetter, Shim!Handle, Shim!Resolve,
     Shim!Start, Shim!Delete, Shim!StartFails, Shim!LookupFails, Shim!DeleteFails
<1>5. ASSUME NEW r \in Requests
      PROVE  /\ ~RetryRead(r) /\ ~RetryCommit(r) /\ ~RetryFails(r)
             /\ \A m \in Messages : ~RetrySend(r, m)
  BY <1>1 DEF RetriesOK, RetryRead, RetryCommit, RetryFails, RetrySend
<1>6. ~Shim!Poll
  BY <1>1 DEF Shim!Poll, Shim!Receive, Shim!Receivable
<1>7. CASE ShimLoops \/ ShimFails \/ UNCHANGED pipelineVars
  <2>1. UNCHANGED <<upload, execution, queue>>
    BY <1>4, <1>6, <1>7 DEF ShimLoops, ShimFails, Shim!EndBatch, Shim!Restart, Shim!Crash,
       Shim!queueVars, pipelineVars, vars, flow, apiVars, queueVars
  <2> QED
    BY <1>1, <2>1
<1>8. CASE ExecutionNext /\ UNCHANGED <<apiVars, queueVars>>
  BY <1>1, <1>8, OnlyCloses DEF apiVars, queueVars
<1> QED
  BY <1>3, <1>4, <1>5, <1>7, <1>8 DEF PipelineNext

\* Only a transcode without a height to encode is on its way to be rejected.
RejectOK == \A s \in Slots : At(s, "reject") => slot[s].sourceHeight = 0

\* An attempt gets there from its claim, for a height of zero.
LEMMA RejectsZero ==
    ASSUME TypeInv, NEW s \in Slots, Progress(s) \/ Misfortune(s), slot'[s].pc = "reject"
    PROVE  slot'[s].sourceHeight = 0
<1>1. PICK b : Becomes(s, b) /\ HandsOn(s, b) /\ Moves(s, b)
  BY AttemptMoves
<1>2. slot'[s] = b
  BY <1>1, OnlySlot
<1>3. slot[s].pc = "claim" /\ slot[s] \in Attempt
  BY <1>1, <1>2 DEF Moves, Cuts, Loads, Reads, Inserts, ClaimsJob, Works, Counts, Completes,
     FailsJob, At, TypeInv, JobsTypeOK
<1>4. CASE ClaimJob(s)
  <2>1. PICK c : c = [slot[s] EXCEPT
                 !.pc = IF slot[s].job = "transcode" /\ slot[s].sourceHeight = 0
                        THEN "reject" ELSE "work",
                 !.status = IF slot[s].status = "completed" THEN "completed" ELSE "processing"]
    OBVIOUS
  <2>2. /\ c.sourceHeight = slot[s].sourceHeight
        /\ c.pc = "reject" => slot[s].sourceHeight = 0
    BY <1>3, <2>1 DEF Attempt
  <2>3. slot'[s] = c
    BY <1>4, <2>1, OnlySlot DEF ClaimJob
  <2> QED
    BY <2>2, <2>3
<1>5. CASE ~ClaimJob(s)
  <2>1. Misfortune(s)
    BY <1>3, <1>5 DEF Progress, LoadVideo, ReadJob, InsertJob, ExtractMetadata, UploadAsset,
       FinishUploads, ReadAssets, FlushAndCount, CompleteJob, FailJob, At
  <2>2. End(s, "raised") \/ End(s, "lost")
    BY <1>3, <2>1 DEF Misfortune, WorkFails, DatabaseError, LostAcknowledgement, LoseAttempt
  <2>3. ASSUME NEW pc \in {"raised", "lost"}, End(s, pc)
        PROVE  slot'[s].pc # "reject"
    <3>1. PICK c : c = [Idle EXCEPT !.job = slot[s].job, !.pc = pc, !.height = None]
      OBVIOUS
    <3>2. c.pc = pc
      BY <3>1 DEF Idle
    <3>3. slot'[s] = c
      BY <2>3, <3>1, OnlySlot DEF End, EndWith
    <3> QED
      BY <3>2, <3>3
  <2> QED
    BY <2>2, <2>3
<1> QED
  BY <1>4, <1>5

\* No other step puts an attempt there, or changes the height of one that is.
LEMMA RejectStep ==
    ASSUME TypeInv, RejectOK, [PipelineNext]_pipelineVars
    PROVE  RejectOK'
<1>1. ASSUME NEW s \in Slots, NEW b, Becomes(s, b), b.pc = "reject" => b.sourceHeight = 0
      PROVE  RejectOK'
  BY <1>1, OnlySlot DEF RejectOK, At
<1>2. ASSUME NEW s \in Slots, Progress(s) \/ Misfortune(s)
      PROVE  RejectOK'
  <2>1. PICK b : Becomes(s, b)
    BY <1>2, AttemptMoves
  <2> QED
    BY <1>1, <1>2, <2>1, OnlySlot, RejectsZero
<1>3. ASSUME NEW s \in Slots, NEW j \in JobTypes, Dispatch(s, j)
      PROVE  RejectOK'
  <2>1. PICK b : b = [Idle EXCEPT !.job = j, !.pc = "load",
                                  !.sourceHeight = IF j = "transcode" THEN result ELSE None]
    OBVIOUS
  <2>2. b.pc = "load"
    BY <2>1 DEF Idle
  <2> QED
    BY <1>1, <1>3, <2>1, <2>2 DEF Dispatch, BeginAttempt
<1>4. ASSUME NEW s \in Slots, Report(s)
      PROVE  RejectOK'
  <2>1. Becomes(s, Idle) /\ Idle.pc = "idle"
    BY <1>4 DEF Report, ReportSuccess, ReportFailure, IgnoreReport, EndAttempt, Idle
  <2> QED
    BY <1>1, <2>1
<1>5. ASSUME slot' = slot PROVE RejectOK'
  BY <1>5 DEF RejectOK, At
<1>6. CASE [WorkflowNext]_vars
  <2>1. CASE StartWorkflow \/ WorkflowTask \/ UNCHANGED vars \/ \E s \in Slots : Overrun(s)
    BY <1>5, <2>1 DEF StartWorkflow, WorkflowTask, ScheduleTranscode, CloseFailed, CloseCompleted,
       Overrun, jobVars, vars
  <2> QED
    BY <1>2, <1>3, <1>4, <1>6, <2>1 DEF WorkflowNext, ExecutionNext, WorkerStep
<1>7. CASE OutsideStep
  BY <1>5, <1>7 DEF OutsideStep, Writes, Replaces
<1> QED
  BY <1>6, <1>7, PipelineIsWorkflow

\* Temporal is told not to retry only what no retry could mend.
RefusedForHeight ==
    \A s \in Slots : At(s, "refused") => slot[s].job = "transcode" /\ video.height = 0

RefusedInv ==
    /\ CoreInv
    /\ RetriesOK
    /\ MessagesOK
    /\ RowFirst
    /\ RejectOK
    /\ RefusedForHeight

\* A step of an attempt refuses it for the height on record, and that stays.
LEMMA AttemptRefuses ==
    ASSUME RefusedInv, NEW s \in Slots, Progress(s) \/ Misfortune(s), UNCHANGED flow
    PROVE  RefusedForHeight'
<1> DEFINE a == slot[s]
<1>0. LoneInv /\ FlowInv /\ TypeInv /\ RecordInv
  BY DEF RefusedInv, CoreInv, LoneInv, FlowInv
<1>1. PICK b : Becomes(s, b) /\ HandsOn(s, b) /\ Moves(s, b)
  BY <1>0, AttemptMoves
<1>2. slot'[s] = b /\ \A t \in Slots \ {s} : slot'[t] = slot[t]
  BY <1>0, <1>1, OnlySlot
<1>3. jobs["metadata"].status = "completed" => video'.height = video.height
  BY <1>0, <1>1, HeightIsSetOnce
<1>4. \A t \in Slots : slot[t].job = "transcode" => video'.height = video.height
  BY <1>0, <1>3, SiblingsAreDone
<1>5. video.status # "absent"
  <2>1. activity[a.job].state = "started" /\ a.job \in JobTypes
    BY <1>0, <1>1, LoneAttempts DEF HandsOn, LoneInv, QuietInv
  <2>2. execution = "running"
    BY <1>0, <2>1 DEF FlowInv, ServerInv, OrderOK
  <2> QED
    BY <2>2 DEF RefusedInv, RowFirst
<1>6. ASSUME b.pc = "refused"
      PROVE  a.job = "transcode" /\ video.height = 0
  <2>1. ~Loads(s, b)
    BY <1>5, <1>6 DEF Loads
  <2>2. ~Reads(s, b)
    BY <1>0, <1>6 DEF Reads, HandsOn, RecordInv, RecordOK, OfRecord, At
  <2>3. a.pc = "reject"
    BY <1>1, <1>6, <2>1, <2>2
       DEF Moves, Cuts, Inserts, ClaimsJob, Works, Counts, Completes, FailsJob, At
  <2>4. a.job = "transcode"
    BY <1>0, <2>3 DEF LoneInv, QuietInv, TranscodeOK, At
  <2>5. a.sourceHeight = 0
    BY <2>3 DEF RefusedInv, RejectOK, At
  <2>6. a.sourceHeight = video.height
    BY <1>0, <2>3, <2>4 DEF RecordInv, OfRecord, Running
  <2> QED
    BY <2>4, <2>5, <2>6
<1>7. b.job = a.job
  BY <1>1 DEF HandsOn
<1>8. ASSUME NEW t \in Slots, slot'[t].pc = "refused"
      PROVE  slot'[t].job = "transcode" /\ video'.height = 0
  <2>1. CASE t = s
    BY <1>2, <1>4, <1>6, <1>7, <1>8, <2>1
  <2>2. CASE t # s
    BY <1>2, <1>4, <1>8, <2>2 DEF RefusedInv, RefusedForHeight, At
  <2> QED
    BY <2>1, <2>2
<1> QED
  BY <1>8 DEF RefusedForHeight, At

\* Nothing else refuses an attempt, or writes the height.
LEMMA PipelineRefuses ==
    ASSUME "overrun" \notin Faults, RefusedInv, [PipelineNext]_pipelineVars
    PROVE  RefusedInv'
<1>0. TypeInv /\ FlowInv /\ runs \in Nat
  BY DEF RefusedInv, CoreInv, LoneInv, FlowInv, ServerInv, FlowTypeOK
<1>1. ASSUME NEW s \in Slots, NEW b, Becomes(s, b), b.pc \in {"idle", "load"}, UNCHANGED rows
      PROVE  RefusedForHeight'
  BY <1>0, <1>1, OnlySlot DEF RefusedInv, RefusedForHeight, At, rows
<1>2. ASSUME NEW s \in Slots, NEW j \in JobTypes, Dispatch(s, j)
      PROVE  RefusedForHeight'
  <2>1. PICK b : b = [Idle EXCEPT !.job = j, !.pc = "load",
                                  !.sourceHeight = IF j = "transcode" THEN result ELSE None]
    OBVIOUS
  <2>2. b.pc = "load"
    BY <2>1 DEF Idle
  <2> QED
    BY <1>1, <1>2, <2>1, <2>2 DEF Dispatch, BeginAttempt
<1>3. ASSUME NEW s \in Slots, Report(s)
      PROVE  RefusedForHeight'
  <2>1. Becomes(s, Idle) /\ UNCHANGED rows /\ Idle.pc = "idle"
    BY <1>3 DEF Report, ReportSuccess, ReportFailure, IgnoreReport, EndAttempt, Idle
  <2> QED
    BY <1>1, <2>1
<1>4. ASSUME slot' = slot, video'.height = video.height
      PROVE  RefusedForHeight'
  BY <1>4 DEF RefusedInv, RefusedForHeight, At
<1>5. RefusedForHeight'
  <2>1. CASE StartWorkflow \/ WorkflowTask \/ UNCHANGED vars \/ \E s \in Slots : Overrun(s)
    BY <1>4, <2>1 DEF StartWorkflow, WorkflowTask, ScheduleTranscode, CloseFailed, CloseCompleted,
       Overrun, jobVars, vars
  <2>2. ASSUME NEW s \in Slots, WorkerStep(s) \/ (Misfortune(s) /\ UNCHANGED flow)
        PROVE  RefusedForHeight'
    BY <2>2, AttemptRefuses DEF WorkerStep
  <2>3. CASE [WorkflowNext]_vars
    BY <1>2, <1>3, <2>1, <2>2, <2>3 DEF WorkflowNext, ExecutionNext
  <2>4. CASE OutsideStep
    BY <1>0, <1>4, <2>4, OutsideKeepsFlow
  <2> QED
    BY <2>3, <2>4, PipelineIsWorkflow
<1>6. CoreInv' /\ RetriesOK' /\ MessagesOK'
  BY CoreStep, RetriesStep, MessagesStep DEF RefusedInv
<1>7. RowFirst' /\ RejectOK'
  BY <1>0, RowFirstStep, RejectStep DEF RefusedInv
<1> QED
  BY <1>5, <1>6, <1>7 DEF RefusedInv

\* Of the three non-retryable errors of activities.py only that of a source without height
\* is ever raised: no message starts a workflow before create_video has committed the row,
\* and a finished metadata job has its columns.
THEOREM RefusedOnlyForHeight ==
    ASSUME "overrun" \notin Faults
    PROVE  PipelineSafety => []RefusedForHeight
<1>1. PipelineInit => RefusedInv
  <2> SUFFICES ASSUME PipelineInit PROVE RefusedInv
    OBVIOUS
  <2>1. CoreInv /\ MessagesOK
    BY CoreInit, MessagesInit
  <2>2. RetriesOK
    BY DEF PipelineInit, RetriesOK, NoRequest
  <2>3. \A s \in Slots : slot[s].pc = "idle"
    BY DEF PipelineInit, WorkflowInit, JobsInit, Idle
  <2>4. RowFirst
    BY DEF PipelineInit, WorkflowInit, RowFirst
  <2> QED
    BY <2>1, <2>2, <2>3, <2>4 DEF RefusedInv, RejectOK, RefusedForHeight, At
<1>2. ("overrun" \notin Faults) /\ RefusedInv /\ [PipelineNext]_pipelineVars => RefusedInv'
  BY PipelineRefuses
<1>3. RefusedInv => RefusedForHeight
  BY DEF RefusedInv
<1> QED
  BY <1>1, <1>2, <1>3, PTL DEF PipelineSafety
===============================================================================
