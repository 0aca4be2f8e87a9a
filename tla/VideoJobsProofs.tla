---------------------------- MODULE VideoJobsProofs ----------------------------
(***************************************************************************)
(* Theorems about VideoJobs, for every set of slots, heights and faults.   *)
(***************************************************************************)
EXTENDS VideoJobs, TLAPS

\* How an attempt is started, as far as a proof needs to know: the transcode is
\* given the height of the original.
Begin(s) ==
    \E j \in JobTypes, h \in {None, original} :
        (j = "transcode" => h # None) /\ BeginAttempt(s, j, h)

\* Any step of one slot, whoever drives it.
SlotStep(s) == Progress(s) \/ Misfortune(s) \/ EndAttempt(s) \/ Begin(s)

\* ... when the height may be that of a file replaced since.
BeginAny(s) ==
    \E j \in JobTypes, h \in Heights \cup {None} : BeginAttempt(s, j, h)

AnyStep(s) == Progress(s) \/ Misfortune(s) \/ EndAttempt(s) \/ BeginAny(s)

\* The loop of transcode_activity never runs past its list: the tallest of what
\* is left is one of what is left.
LEMMA TallestIsLeft ==
    ASSUME NEW T \in SUBSET Previews, T # {}
    PROVE  Tallest(T) \in T
<1>1. \E r \in T : \A q \in T : RenditionHeight[q] =< RenditionHeight[r]
  <2>1. RenditionHeight["preview_1080p"] = 1080 /\ RenditionHeight["preview_720p"] = 720
          /\ RenditionHeight["preview_480p"] = 480
    BY DEF RenditionHeight, Previews
  <2>2. CASE "preview_1080p" \in T
    BY <2>1, <2>2 DEF Previews
  <2>3. CASE "preview_1080p" \notin T /\ "preview_720p" \in T
    BY <2>1, <2>3 DEF Previews
  <2>4. CASE "preview_1080p" \notin T /\ "preview_720p" \notin T
    <3>1. T = {"preview_480p"}
      BY <2>4 DEF Previews
    <3> QED
      BY <2>1, <3>1
  <2> QED
    BY <2>2, <2>3, <2>4
<1> QED
  BY <1>1 DEF Tallest

\* What a job leaves behind is a set of asset types.
LEMMA AssetsOfType ==
    ASSUME NEW j \in JobTypes, NEW h
    PROVE  AssetsOf(j, h) \in SUBSET AssetTypes
BY DEF AssetsOf, JobTypes, AssetTypes, RenditionsFor

\* An asset uploaded by a step is one its job was still to produce.
LEMMA UploadedAsset ==
    ASSUME NEW j \in JobTypes \ {"metadata"}, NEW h, NEW P,
           AssetsOf(j, h) \ P # {}
    PROVE  (IF j = "thumbnail" THEN "thumbnail" ELSE Tallest(AssetsOf(j, h) \ P))
              \in AssetsOf(j, h) \ P
<1>1. CASE j = "thumbnail"
  BY <1>1 DEF AssetsOf
<1>2. CASE j = "transcode"
  <2>1. AssetsOf(j, h) \ P \in SUBSET Previews
    BY <1>2 DEF AssetsOf, RenditionsFor
  <2> QED
    BY <1>2, <2>1, TallestIsLeft
<1> QED
  BY <1>1, <1>2 DEF JobTypes

\* An attempt that has begun has a job.
HasJob == \A s \in Slots : slot[s].pc # "idle" => slot[s].job \in JobTypes

-------------------------------------------------------------------------------
TypeInv == JobsTypeOK /\ HasJob

\* The initial state has the types, and no slot has a job.
LEMMA TypeInit == JobsInit => TypeInv
BY DEF JobsInit, TypeInv, JobsTypeOK, HasJob, VideoStatuses, JobStatuses, JobRow, NoRow,
       Attempt, Idle, JobTypes, AssetTypes, Running, Reported

\* The slot a step belongs to holds the new attempt, the others keep theirs.
LEMMA Replaced ==
    ASSUME slot \in [Slots -> Attempt], NEW s \in Slots, NEW a \in Attempt, Becomes(s, a)
    PROVE  /\ slot' \in [Slots -> Attempt]
           /\ slot'[s] = a
           /\ \A t \in Slots \ {s} : slot'[t] = slot[t]
BY DEF Becomes

\* What each commit writes is well typed.
RowsTypeOK ==
    /\ video \in [status : VideoStatuses, height : Heights \cup {None}]
    /\ jobs \in [JobTypes -> JobRow]
    /\ assets \in SUBSET AssetTypes

\* A claim, a completion or a failure writes rows of the right type.
LEMMA RowsType ==
    ASSUME JobsTypeOK, NEW s \in Slots, slot[s].job \in JobTypes,
           InsertRow(s) \/ ClaimRows(s) \/ CompleteRows(s) \/ FailRows(s) \/ UNCHANGED rows
    PROVE  RowsTypeOK'
<1> DEFINE a == slot[s]
<1>0. a \in Attempt
  BY DEF JobsTypeOK
<1> USE DEF JobsTypeOK, RowsTypeOK, JobRow, JobStatuses, VideoStatuses
<1>1. CASE InsertRow(s)
  BY <1>1 DEF InsertRow, NewRow
<1>2. CASE ClaimRows(s)
  <2>1. a.row.attempts + 1 \in Nat
    BY <1>0 DEF Attempt
  <2> QED
    BY <1>2, <2>1 DEF ClaimRows
<1>3. CASE CompleteRows(s)
  <2>1. a.height \in Heights \cup {None} /\ a.fresh \in SUBSET AssetTypes
    BY <1>0 DEF Attempt
  <2> QED
    BY <1>3, <2>1 DEF CompleteRows
<1>4. CASE FailRows(s)
  BY <1>4 DEF FailRows
<1>5. CASE UNCHANGED rows
  BY <1>5 DEF rows
<1> QED
  BY <1>1, <1>2, <1>3, <1>4, <1>5

\* Every step of a slot keeps the types: one case per action of the attempt.
LEMMA TypeStep ==
    ASSUME TypeInv, NEW s \in Slots, AnyStep(s)
    PROVE  TypeInv'
<1> DEFINE Shape(a) == a \in Attempt /\ (a.pc # "idle" => a.job \in JobTypes)
<1> USE DEF JobTypes
<1>1. ASSUME NEW a, Becomes(s, a), Shape(a)
      PROVE  slot' \in [Slots -> Attempt] /\ HasJob'
  BY <1>1, Replaced DEF TypeInv, JobsTypeOK, HasJob
<1>2. slot[s] \in Attempt /\ Shape(slot[s])
  BY DEF TypeInv, JobsTypeOK, HasJob
<1>3. Shape(Idle)
  BY DEF Idle, Attempt, NoRow, JobRow, JobStatuses, VideoStatuses
<1>4. ASSUME NEW pc \in Running \cup Reported \cup {"lost"}, NEW h \in Heights \cup {None},
             slot[s].pc # "idle", EndWith(s, pc, h)
      PROVE  slot' \in [Slots -> Attempt] /\ HasJob'
  <2>1. Shape([Idle EXCEPT !.job = slot[s].job, !.pc = pc, !.height = h])
    BY <1>2, <1>3, <1>4 DEF Idle, Attempt
  <2> QED
    BY <1>1, <1>4, <2>1 DEF EndWith
<1>5. ASSUME NEW pc \in Running \cup Reported \cup {"lost"}, slot[s].pc # "idle", End(s, pc)
      PROVE  slot' \in [Slots -> Attempt] /\ HasJob'
  BY <1>4, <1>5 DEF End
<1>6. ASSUME NEW pc \in Running, slot[s].pc # "idle", Goto(s, pc)
      PROVE  slot' \in [Slots -> Attempt] /\ HasJob'
  <2>1. Shape([slot[s] EXCEPT !.pc = pc])
    BY <1>2, <1>6 DEF Attempt
  <2> QED
    BY <1>1, <1>6, <2>1 DEF Goto
<1>7. slot[s].pc \notin {"idle"} => slot[s].job \in JobTypes
  BY DEF TypeInv, HasJob
<1>8. ASSUME slot' \in [Slots -> Attempt] /\ HasJob', RowsTypeOK',
             objects' \in SUBSET AssetTypes, UNCHANGED original
      PROVE  TypeInv'
  BY <1>8 DEF TypeInv, JobsTypeOK, RowsTypeOK
<1>9. ASSUME UNCHANGED rows PROVE RowsTypeOK'
  BY <1>9 DEF TypeInv, JobsTypeOK, RowsTypeOK, rows
<1>10. objects \in SUBSET AssetTypes /\ original \in Heights
         /\ video.status \in VideoStatuses /\ video.height \in Heights \cup {None}
         /\ \A j \in JobTypes : jobs[j] \in JobRow
  BY DEF TypeInv, JobsTypeOK
<1>11. JobsTypeOK
  BY DEF TypeInv
<1> USE DEF At
<1>21. CASE LoadVideo(s)
  <2>1. CASE video.status = "absent" /\ End(s, "refused")
    BY <1>5, <1>8, <1>9, <1>10, <1>21, <2>1 DEF LoadVideo, Reported
  <2>2. CASE Becomes(s, [slot[s] EXCEPT !.pc = "read", !.status = video.status,
                                       !.height = video.height])
    <3>1. Shape([slot[s] EXCEPT !.pc = "read", !.status = video.status, !.height = video.height])
      BY <1>2, <1>7, <1>10, <1>21 DEF LoadVideo, Attempt, Running
    <3> QED
      BY <1>1, <1>8, <1>9, <1>10, <1>21, <2>2, <3>1 DEF LoadVideo
  <2> QED
    BY <1>21, <2>1, <2>2 DEF LoadVideo
<1>22. CASE ReadJob(s)
  <2>0. slot[s].job \in JobTypes
    BY <1>7, <1>22 DEF ReadJob
  <2> DEFINE row == jobs[slot[s].job]
  <2>1. CASE Goto(s, "insert")
    BY <1>6, <1>8, <1>9, <1>10, <1>22, <2>1 DEF ReadJob, Running
  <2>2. CASE Becomes(s, [slot[s] EXCEPT !.pc = "claim", !.row = row])
    <3>1. Shape([slot[s] EXCEPT !.pc = "claim", !.row = row])
      BY <1>2, <1>10, <2>0 DEF Attempt, Running
    <3> QED
      BY <1>1, <1>8, <1>9, <1>10, <1>22, <2>2, <3>1 DEF ReadJob
  <2>3. CASE End(s, "refused") \/ End(s, "returned")
    BY <1>5, <1>8, <1>9, <1>10, <1>22, <2>3 DEF ReadJob, Reported
  <2>4. CASE EndWith(s, "returned", slot[s].height)
    <3>1. slot[s].height \in Heights \cup {None}
      BY <1>2 DEF Attempt
    <3> QED
      BY <1>4, <1>8, <1>9, <1>10, <1>22, <2>4, <3>1 DEF ReadJob, Reported
  <2> QED
    BY <1>22, <2>1, <2>2, <2>3, <2>4 DEF ReadJob
<1>23. CASE InsertJob(s)
  <2>0. slot[s].job \in JobTypes /\ slot[s].pc # "idle"
    BY <1>7, <1>23 DEF InsertJob
  <2>1. RowsTypeOK' /\ UNCHANGED <<objects, original>>
    BY <1>11, <1>23, <2>0, RowsType DEF InsertJob
  <2>2. CASE Becomes(s, [slot[s] EXCEPT !.pc = "claim",
                                       !.row = NewRow])
    <3>1. Shape([slot[s] EXCEPT !.pc = "claim",
                                !.row = NewRow])
      BY <1>2, <2>0 DEF Attempt, Running, JobRow, JobStatuses, NewRow
    <3> QED
      BY <1>1, <1>8, <1>10, <2>1, <2>2, <3>1
  <2>3. CASE End(s, "raised")
    BY <1>5, <1>8, <1>10, <2>0, <2>1, <2>3 DEF Reported
  <2> QED
    BY <1>23, <2>2, <2>3 DEF InsertJob
<1>24. CASE ClaimJob(s)
  <2>0. slot[s].job \in JobTypes
    BY <1>7, <1>24 DEF ClaimJob
  <2>1. RowsTypeOK' /\ UNCHANGED <<objects, original>>
    BY <1>11, <1>24, <2>0, RowsType DEF ClaimJob
  <2>2. ASSUME NEW pc \in {"reject", "work"}, NEW st \in {"completed", "processing"}
        PROVE  Shape([slot[s] EXCEPT !.pc = pc, !.status = st])
    BY <1>2, <2>0, <2>2 DEF Attempt, Running, VideoStatuses
  <2> QED
    BY <1>1, <1>8, <1>10, <1>24, <2>1, <2>2 DEF ClaimJob
<1>25. CASE ExtractMetadata(s)
  <2>1. Shape([slot[s] EXCEPT !.pc = "flush", !.height = original])
    BY <1>2, <1>7, <1>10, <1>25 DEF ExtractMetadata, Attempt, Running
  <2> QED
    BY <1>1, <1>8, <1>9, <1>10, <1>25, <2>1 DEF ExtractMetadata
<1>26. CASE UploadAsset(s)
  <2> DEFINE todo == AssetsOf(slot[s].job, slot[s].sourceHeight) \ slot[s].produced
             asset == IF slot[s].job = "thumbnail" THEN "thumbnail" ELSE Tallest(todo)
  <2>1. slot[s].job \in JobTypes \ {"metadata"} /\ todo # {} /\ slot[s].pc # "idle"
    BY <1>7, <1>26 DEF UploadAsset
  <2>2. asset \in AssetTypes
    <3>1. asset \in todo
      BY <2>1, UploadedAsset
    <3>2. todo \in SUBSET AssetTypes
      BY <2>1, AssetsOfType
    <3> QED
      BY <3>1, <3>2
  <2>3. /\ objects' = objects \cup {asset}
        /\ Becomes(s, [slot[s] EXCEPT !.produced = @ \cup {asset}])
        /\ UNCHANGED <<rows, original>>
    BY <1>26 DEF UploadAsset
  <2> HIDE DEF asset
  <2>4. Shape([slot[s] EXCEPT !.produced = @ \cup {asset}])
    BY <1>2, <2>1, <2>2 DEF Attempt
  <2> QED
    BY <1>1, <1>8, <1>9, <1>10, <2>2, <2>3, <2>4
<1>27. CASE FinishUploads(s)
  BY <1>6, <1>8, <1>9, <1>10, <1>27 DEF FinishUploads, Running
<1>28. CASE ReadAssets(s)
  <2>1. Shape([slot[s] EXCEPT !.pc = "flush", !.fresh = slot[s].produced \ assets])
    BY <1>2, <1>7, <1>28 DEF ReadAssets, Attempt, Running
  <2> QED
    BY <1>1, <1>8, <1>9, <1>10, <1>28, <2>1 DEF ReadAssets
<1>29. CASE FlushAndCount(s)
  <2> DEFINE count == AllJobsCompleted(slot[s].job)
  <2>0. slot[s].pc # "idle" /\ slot[s].job \in JobTypes /\ UNCHANGED <<rows, objects, original>>
    BY <1>7, <1>29 DEF FlushAndCount
  <2>1. CASE End(s, "raised")
    BY <1>5, <1>8, <1>9, <1>10, <2>0, <2>1 DEF Reported
  <2>2. CASE Becomes(s, [slot[s] EXCEPT !.pc = "commit", !.allDone = count])
    <3>1. count \in BOOLEAN
      BY DEF AllJobsCompleted
    <3> HIDE DEF count
    <3>2. Shape([slot[s] EXCEPT !.pc = "commit", !.allDone = count])
      BY <1>2, <2>0, <3>1 DEF Attempt, Running
    <3> QED
      BY <1>1, <1>8, <1>9, <1>10, <2>0, <2>2, <3>2
  <2> QED
    BY <1>29, <2>1, <2>2 DEF FlushAndCount
<1>30. CASE CompleteJob(s)
  <2>0. slot[s].job \in JobTypes /\ slot[s].pc # "idle"
    BY <1>7, <1>30 DEF CompleteJob
  <2>1. RowsTypeOK' /\ UNCHANGED <<objects, original>>
    BY <1>11, <1>30, <2>0, RowsType DEF CompleteJob
  <2>2. (IF slot[s].job = "metadata" THEN slot[s].height ELSE None) \in Heights \cup {None}
    BY <1>2 DEF Attempt
  <2> QED
    BY <1>4, <1>8, <1>10, <1>30, <2>0, <2>1, <2>2 DEF CompleteJob, Reported
<1>31. CASE FailJob(s)
  <2>0. slot[s].job \in JobTypes /\ slot[s].pc # "idle"
    BY <1>7, <1>31 DEF FailJob
  <2>1. RowsTypeOK' /\ UNCHANGED <<objects, original>>
    BY <1>11, <1>31, <2>0, RowsType DEF FailJob
  <2> QED
    BY <1>5, <1>8, <1>10, <1>31, <2>0, <2>1 DEF FailJob, Reported
<1>32. CASE WorkFails(s)
  BY <1>6, <1>8, <1>9, <1>10, <1>32 DEF WorkFails, Running
<1>33. CASE DatabaseError(s)
  BY <1>5, <1>8, <1>9, <1>10, <1>33 DEF DatabaseError, Running, Reported
<1>34. CASE LostAcknowledgement(s)
  <2>0. slot[s].job \in JobTypes /\ slot[s].pc # "idle"
    BY <1>7, <1>34 DEF LostAcknowledgement
  <2>1. RowsTypeOK' /\ UNCHANGED <<objects, original>>
    BY <1>11, <1>34, <2>0, RowsType DEF LostAcknowledgement
  <2> QED
    BY <1>5, <1>8, <1>10, <1>34, <2>0, <2>1 DEF LostAcknowledgement, Reported
<1>35. CASE LoseAttempt(s)
  BY <1>5, <1>8, <1>9, <1>10, <1>35 DEF LoseAttempt, Running, Reported
<1>36. CASE EndAttempt(s)
  BY <1>1, <1>3, <1>8, <1>9, <1>10, <1>36 DEF EndAttempt
<1>37. CASE BeginAny(s)
  <2>1. PICK j \in JobTypes, h \in Heights \cup {None} : BeginAttempt(s, j, h)
    BY <1>37 DEF BeginAny
  <2>2. Shape([Idle EXCEPT !.job = j, !.pc = "load", !.sourceHeight = h])
    BY <1>3 DEF Attempt, Idle, Running
  <2> QED
    BY <1>1, <1>8, <1>9, <1>10, <2>1, <2>2 DEF BeginAttempt
<1> QED
  BY <1>21, <1>22, <1>23, <1>24, <1>25, <1>26, <1>27, <1>28, <1>29, <1>30, <1>31, <1>32, <1>33,
     <1>34, <1>35, <1>36, <1>37 DEF AnyStep, Progress, Misfortune

-------------------------------------------------------------------------------
\* What an attempt holds is true of what is stored, and stays so while others
\* commit: nothing it relies on is ever taken back.
AttemptOK(a) ==
    /\ a.height \in {None, original}
    /\ a.job = "metadata" => a.pc # "upsert"
    /\ a.job = "metadata" /\ a.pc \in {"flush", "commit"} => a.height = original
    /\ a.job = "transcode" /\ a.pc \in Running => a.sourceHeight = original
    /\ a.produced \subseteq objects
    /\ a.fresh \subseteq a.produced
    /\ a.job \in JobTypes => a.produced \subseteq AssetsOf(a.job, original)
    /\ a.pc \in {"upsert", "flush", "commit"} /\ a.job # "metadata" =>
          AssetsOf(a.job, original) \subseteq a.produced
    /\ a.pc \in {"flush", "commit"} => a.produced \subseteq a.fresh \cup assets
    /\ a.pc = "commit" /\ a.allDone => \A j \in JobTypes \ {a.job} : ResultStored(j)

\* What the committed rows say is true of what is stored.
RowsOK ==
    /\ video.height \in {None, original}
    /\ CompletedJobHasResults
    /\ FinishedVideoIsWhole
    /\ AssetRowsHaveObjects
    /\ NoSurplusAssets

ResultInv == RowsOK /\ \A s \in Slots : AttemptOK(slot[s])

\* Results are only ever added.
Grows ==
    /\ assets \subseteq assets'
    /\ objects \subseteq objects'
    /\ original' = original
    /\ video.height = original => video'.height = original

\* Steps that only add to the stored results take none back.
LEMMA ResultsStay ==
    ASSUME Grows, NEW j, ResultStored(j)
    PROVE  ResultStored(j)'
<1>1. AssetsOf(j, original)' = AssetsOf(j, original)
  BY DEF Grows
<1> QED
  BY <1>1 DEF Grows, ResultStored

\* An attempt whose slot does not move stays sound while the results grow.
LEMMA AttemptStaysOK ==
    ASSUME Grows, NEW a, AttemptOK(a)
    PROVE  AttemptOK(a)'
<1>1. AssetsOf(a.job, original)' = AssetsOf(a.job, original)
  BY DEF Grows
<1>2. \A j \in JobTypes : ResultStored(j) => ResultStored(j)'
  BY ResultsStay
<1> QED
  BY <1>1, <1>2 DEF Grows, AttemptOK

\* One slot takes a sound attempt, the rows stay sound: so does everything.
LEMMA StepFrame ==
    ASSUME TypeInv, ResultInv, NEW s \in Slots, NEW a, Becomes(s, a),
           Grows, RowsOK', AttemptOK(a)'
    PROVE  ResultInv'
<1>1. slot \in [Slots -> Attempt]
  BY DEF TypeInv, JobsTypeOK
<1>2. slot'[s] = a /\ \A t \in Slots \ {s} : slot'[t] = slot[t]
  BY <1>1 DEF Becomes
<1>3. ASSUME NEW t \in Slots PROVE AttemptOK(slot[t])'
  <2>1. CASE t = s
    BY <1>2, <2>1 DEF AttemptOK, ResultStored
  <2>2. CASE t # s
    <3>1. AttemptOK(slot[t])
      BY DEF ResultInv
    <3> DEFINE b == slot[t]
    <3>2. slot'[t] = b
      BY <1>2, <2>2
    <3> HIDE DEF b
    <3> QED
      BY <3>1, <3>2, AttemptStaysOK DEF AttemptOK, b, ResultStored
  <2> QED
    BY <2>1, <2>2
<1> QED
  BY <1>3 DEF ResultInv

\* What a commit writes is sound if the attempt that makes it is.
LEMMA CommitIsSound ==
    ASSUME TypeInv, ResultInv, NEW s \in Slots, slot[s].job \in JobTypes,
           UNCHANGED <<objects, original>>,
           \/ InsertRow(s) \/ ClaimRows(s) \/ FailRows(s) \/ UNCHANGED rows
           \/ slot[s].pc = "commit" /\ CompleteRows(s)
    PROVE  Grows /\ RowsOK'
<1> DEFINE a == slot[s]
<1>0. /\ AttemptOK(a)
      /\ video \in [status : VideoStatuses, height : Heights \cup {None}]
      /\ jobs \in [JobTypes -> JobRow]
  BY DEF ResultInv, TypeInv, JobsTypeOK
<1>1. ASSUME UNCHANGED assets, video'.height = video.height,
             video'.status = "completed" => video.status = "completed",
             \A j \in JobTypes : jobs'[j].status = "completed" => jobs[j].status = "completed"
      PROVE  Grows /\ RowsOK'
  <2>1. Grows
    BY <1>1 DEF Grows
  <2>2. \A j \in JobTypes : ResultStored(j) => ResultStored(j)'
    BY <2>1, ResultsStay
  <2> QED
    BY <1>1, <2>1, <2>2 DEF ResultInv, RowsOK, CompletedJobHasResults, FinishedVideoIsWhole,
       AssetRowsHaveObjects, NoSurplusAssets
<1>2. CASE InsertRow(s)
  BY <1>0, <1>1, <1>2 DEF InsertRow, JobRow, NewRow
<1>3. CASE ClaimRows(s)
  BY <1>0, <1>1, <1>3 DEF ClaimRows, JobRow
<1>4. CASE FailRows(s)
  BY <1>0, <1>1, <1>4 DEF FailRows, JobRow
<1>5. CASE UNCHANGED rows
  BY <1>1, <1>5 DEF rows
<1>6. CASE slot[s].pc = "commit" /\ CompleteRows(s)
  <2>1. /\ assets' = assets \cup a.fresh
        /\ video'.height = (IF a.job = "metadata" THEN a.height ELSE video.height)
        /\ video'.status = "completed" => a.allDone \/ video.status = "completed"
        /\ \A j \in JobTypes \ {a.job} : jobs'[j] = jobs[j]
    BY <1>0, <1>6 DEF CompleteRows
  <2>2. video'.height \in {None, original} /\ (video.height = original => video'.height = original)
    BY <1>0, <1>6, <2>1 DEF AttemptOK, ResultInv, RowsOK
  <2>3. Grows
    BY <2>1, <2>2 DEF Grows
  <2>4. PICK k \in JobTypes : k = a.job
    OBVIOUS
  <2>5. ResultStored(k)'
    <3>1. AssetsOf(k, original) \subseteq assets'
      <4>1. CASE k = "metadata"
        BY <4>1 DEF AssetsOf
      <4>2. CASE k # "metadata"
        BY <1>0, <1>6, <2>1, <2>4, <4>2 DEF AttemptOK
      <4> QED
        BY <4>1, <4>2
    <3>2. k = "metadata" => video'.height = original
      BY <1>0, <1>6, <2>1, <2>4 DEF AttemptOK
    <3> QED
      BY <3>1, <3>2 DEF ResultStored
  <2>6. \A j \in JobTypes : ResultStored(j) => ResultStored(j)'
    BY <2>3, ResultsStay
  <2>7. CompletedJobHasResults' /\ FinishedVideoIsWhole'
    <3>1. \A j \in JobTypes : jobs'[j].status = "completed" => ResultStored(j)'
      BY <2>1, <2>4, <2>5, <2>6 DEF CompletedJobHasResults, ResultInv, RowsOK
    <3>2. ASSUME NEW j \in JobTypes, video'.status = "completed"
          PROVE  ResultStored(j)'
      <4>1. CASE j = k
        BY <2>5, <4>1
      <4>2. CASE j # k /\ a.allDone
        BY <1>0, <1>6, <2>4, <2>6, <4>2 DEF AttemptOK
      <4>3. CASE video.status = "completed"
        BY <2>6, <4>3 DEF FinishedVideoIsWhole, ResultInv, RowsOK
      <4> QED
        BY <2>1, <3>2, <4>1, <4>2, <4>3
    <3> QED
      BY <3>1, <3>2 DEF CompletedJobHasResults, FinishedVideoIsWhole
  <2>8. AssetRowsHaveObjects'
    BY <1>0, <2>1 DEF AssetRowsHaveObjects, ResultInv, RowsOK, AttemptOK
  <2>9. NoSurplusAssets'
    <3>1. AssetsOf(a.job, original) \subseteq {"thumbnail"} \cup RenditionsFor(original)
      BY DEF AssetsOf, JobTypes
    <3> QED
      BY <1>0, <2>1, <3>1 DEF NoSurplusAssets, ResultInv, RowsOK, AttemptOK
  <2> QED
    BY <2>2, <2>3, <2>7, <2>8, <2>9 DEF RowsOK
<1> QED
  BY <1>2, <1>3, <1>4, <1>5, <1>6

\* An attempt that has ended, or not begun, holds nothing but a result.
LEMMA EndedIsSound ==
    ASSUME NEW a, a.pc \in Reported \cup {"idle", "lost", "load"}, a.height \in {None, original},
           a.produced = {}, a.fresh = {},
           a.job = "transcode" /\ a.pc = "load" => a.sourceHeight = original
    PROVE  AttemptOK(a)
<1>1. a.pc \notin {"upsert", "flush", "commit"}
  BY DEF Reported
<1>2. a.pc \in Running => a.pc = "load"
  BY DEF Reported, Running
<1>3. a.job = "transcode" /\ a.pc \in Running => a.sourceHeight = original
  BY <1>2
<1>4. a.produced \subseteq objects /\ a.fresh \subseteq a.produced
        /\ a.produced \subseteq AssetsOf(a.job, original)
  OBVIOUS
<1> QED
  BY <1>1, <1>3, <1>4 DEF AttemptOK

\* Every step of a slot keeps rows and attempts sound: one case per action.
LEMMA ResultStep ==
    ASSUME TypeInv, ResultInv, NEW s \in Slots, SlotStep(s)
    PROVE  ResultInv'
<1> DEFINE a == slot[s]
<1>1. a \in Attempt /\ AttemptOK(a) /\ (a.pc # "idle" => a.job \in JobTypes)
  BY DEF TypeInv, JobsTypeOK, HasJob, ResultInv
<1>2. ASSUME UNCHANGED <<rows, objects, original>>
      PROVE  Grows /\ RowsOK'
  <2>1. Grows
    BY <1>2 DEF Grows, rows
  <2>2. \A j \in JobTypes : ResultStored(j) => ResultStored(j)'
    BY <2>1, ResultsStay
  <2> QED
    BY <1>2, <2>1, <2>2 DEF rows, ResultInv, RowsOK, CompletedJobHasResults,
       FinishedVideoIsWhole, AssetRowsHaveObjects, NoSurplusAssets
<1>3. ASSUME NEW b, Becomes(s, b), AttemptOK(b), Grows, RowsOK'
      PROVE  ResultInv'
  BY <1>3, AttemptStaysOK, StepFrame
<1>4. ASSUME NEW pc \in Reported \cup {"lost"}, NEW h \in {None, original}, EndWith(s, pc, h),
             Grows, RowsOK'
      PROVE  ResultInv'
  <2> DEFINE b == [Idle EXCEPT !.job = a.job, !.pc = pc, !.height = h]
  <2>1. b.pc = pc /\ b.height = h /\ b.produced = {} /\ b.fresh = {}
    BY DEF Idle
  <2>2. Becomes(s, b)
    BY <1>4 DEF EndWith
  <2> HIDE DEF b
  <2>3. AttemptOK(b)
    BY <2>1, EndedIsSound DEF Reported
  <2> QED
    BY <1>3, <1>4, <2>2, <2>3
<1>5. ASSUME NEW pc \in Reported \cup {"lost"}, End(s, pc), Grows, RowsOK'
      PROVE  ResultInv'
  BY <1>4, <1>5 DEF End
<1>6. ASSUME a.pc \in Running, NEW pc \in {"insert", "fail"}, Goto(s, pc), Grows, RowsOK'
      PROVE  ResultInv'
  <2>1. AttemptOK([a EXCEPT !.pc = pc])
    BY <1>1, <1>6 DEF AttemptOK, Attempt
  <2> QED
    BY <1>3, <1>6, <2>1 DEF Goto
<1> USE DEF At
<1>21. CASE LoadVideo(s)
  <2>1. Grows /\ RowsOK'
    BY <1>2, <1>21 DEF LoadVideo
  <2>2. CASE End(s, "refused")
    BY <1>5, <2>1, <2>2 DEF Reported
  <2>3. CASE Becomes(s, [a EXCEPT !.pc = "read", !.status = video.status, !.height = video.height])
    <3>1. video.height \in {None, original}
      BY DEF ResultInv, RowsOK
    <3>2. AttemptOK([a EXCEPT !.pc = "read", !.status = video.status, !.height = video.height])
      BY <1>1, <1>21, <3>1 DEF LoadVideo, AttemptOK, Attempt, Running
    <3> QED
      BY <1>3, <2>1, <2>3, <3>2
  <2> QED
    BY <1>21, <2>2, <2>3 DEF LoadVideo
<1>22. CASE ReadJob(s)
  <2>1. Grows /\ RowsOK' /\ a.pc = "read"
    BY <1>2, <1>22 DEF ReadJob
  <2>2. CASE Goto(s, "insert")
    BY <1>6, <2>1, <2>2 DEF Running
  <2>3. CASE Becomes(s, [a EXCEPT !.pc = "claim", !.row = jobs[a.job]])
    <3>1. AttemptOK([a EXCEPT !.pc = "claim", !.row = jobs[a.job]])
      BY <1>1, <2>1 DEF AttemptOK, Attempt, Running
    <3> QED
      BY <1>3, <2>1, <2>3, <3>1
  <2>4. CASE End(s, "refused") \/ End(s, "returned")
    BY <1>5, <2>1, <2>4 DEF Reported
  <2>5. CASE EndWith(s, "returned", a.height)
    BY <1>1, <1>4, <2>1, <2>5 DEF Reported, AttemptOK
  <2> QED
    BY <1>22, <2>2, <2>3, <2>4, <2>5 DEF ReadJob
<1>23. CASE InsertJob(s)
  <2>1. Grows /\ RowsOK'
    BY <1>1, <1>23, CommitIsSound DEF InsertJob
  <2>2. CASE Becomes(s, [a EXCEPT !.pc = "claim",
                                  !.row = NewRow])
    <3>1. AttemptOK([a EXCEPT !.pc = "claim", !.row = NewRow])
      BY <1>1, <1>23 DEF InsertJob, AttemptOK, Attempt, Running
    <3> QED
      BY <1>3, <2>1, <2>2, <3>1
  <2>3. CASE End(s, "raised")
    BY <1>5, <2>1, <2>3 DEF Reported
  <2> QED
    BY <1>23, <2>2, <2>3 DEF InsertJob
<1>24. CASE ClaimJob(s)
  <2>1. Grows /\ RowsOK'
    BY <1>1, <1>24, CommitIsSound DEF ClaimJob
  <2>2. ASSUME NEW pc \in {"reject", "work"}, NEW st
        PROVE  AttemptOK([a EXCEPT !.pc = pc, !.status = st])
    BY <1>1, <1>24, <2>2 DEF ClaimJob, AttemptOK, Attempt, Running
  <2> QED
    BY <1>3, <1>24, <2>1, <2>2 DEF ClaimJob
<1>25. CASE ExtractMetadata(s)
  <2>1. Grows /\ RowsOK'
    BY <1>2, <1>25 DEF ExtractMetadata
  <2>2. AssetsOf("metadata", original) = {}
    BY DEF AssetsOf
  <2>3. AttemptOK([a EXCEPT !.pc = "flush", !.height = original])
    BY <1>1, <1>25, <2>2 DEF ExtractMetadata, AttemptOK, Attempt, Running
  <2> QED
    BY <1>3, <1>25, <2>1, <2>3 DEF ExtractMetadata
<1>26. CASE UploadAsset(s)
  <2> DEFINE todo == AssetsOf(a.job, a.sourceHeight) \ a.produced
  <2>1. a.job \in JobTypes \ {"metadata"} /\ todo # {} /\ a.pc = "work"
    BY <1>1, <1>26 DEF UploadAsset
  <2>2. AssetsOf(a.job, a.sourceHeight) = AssetsOf(a.job, original)
    BY <1>1, <2>1 DEF AttemptOK, AssetsOf, JobTypes, Running
  <2>3. PICK asset \in todo : /\ objects' = objects \cup {asset}
                              /\ Becomes(s, [a EXCEPT !.produced = @ \cup {asset}])
                              /\ UNCHANGED <<rows, original>>
    BY <1>26, <2>1, UploadedAsset DEF UploadAsset
  <2>4. Grows
    BY <2>3 DEF Grows, rows
  <2>5. RowsOK'
    <3>1. \A j \in JobTypes : ResultStored(j) => ResultStored(j)'
      BY <2>4, ResultsStay
    <3> QED
      BY <2>3, <2>4, <3>1 DEF rows, Grows, ResultInv, RowsOK, CompletedJobHasResults,
         FinishedVideoIsWhole, AssetRowsHaveObjects, NoSurplusAssets
  <2>6. PICK b : b = [a EXCEPT !.produced = @ \cup {asset}]
    OBVIOUS
  <2>7. AttemptOK(b)'
    <3>1. PICK c : c = a
      OBVIOUS
    <3>2. AttemptOK(c)'
      BY <1>1, <2>4, <3>1, AttemptStaysOK
    <3>3. AssetsOf(b.job, original') = AssetsOf(a.job, original) /\ asset \in AssetsOf(b.job, original')
      BY <1>1, <2>2, <2>3, <2>4, <2>6 DEF Grows, Attempt
    <3> QED
      BY <1>1, <2>1, <2>3, <2>6, <3>1, <3>2, <3>3 DEF AttemptOK, Attempt
  <2> QED
    BY <2>3, <2>4, <2>5, <2>6, <2>7, StepFrame
<1>27. CASE FinishUploads(s)
  <2>1. Grows /\ RowsOK'
    BY <1>2, <1>27 DEF FinishUploads
  <2>2. AssetsOf(a.job, a.sourceHeight) = AssetsOf(a.job, original)
    BY <1>1, <1>27 DEF FinishUploads, AttemptOK, AssetsOf, JobTypes, Running
  <2>3. AttemptOK([a EXCEPT !.pc = "upsert"])
    BY <1>1, <1>27, <2>2 DEF FinishUploads, AttemptOK, Attempt, Running
  <2> QED
    BY <1>3, <1>27, <2>1, <2>3 DEF FinishUploads, Goto
<1>28. CASE ReadAssets(s)
  <2>1. Grows /\ RowsOK'
    BY <1>2, <1>28 DEF ReadAssets
  <2>2. AttemptOK([a EXCEPT !.pc = "flush", !.fresh = a.produced \ assets])
    <3> DEFINE b == [a EXCEPT !.pc = "flush", !.fresh = a.produced \ assets]
    <3>1. /\ b.job = a.job /\ b.pc = "flush" /\ b.height = a.height
          /\ b.sourceHeight = a.sourceHeight /\ b.produced = a.produced
          /\ b.fresh = a.produced \ assets
      BY <1>1 DEF Attempt
    <3>2. a.pc = "upsert" /\ "upsert" \in Running /\ "flush" \in Running
      BY <1>28 DEF ReadAssets, Running
    <3>3. a.job # "metadata"
      BY <1>1, <3>2 DEF AttemptOK
    <3> HIDE DEF b
    <3>4. AttemptOK(b)
      BY <1>1, <3>1, <3>2, <3>3 DEF AttemptOK
    <3> QED
      BY <3>4 DEF b
  <2> QED
    BY <1>3, <1>28, <2>1, <2>2 DEF ReadAssets
<1>29. CASE FlushAndCount(s)
  <2> DEFINE count == AllJobsCompleted(a.job)
  <2>1. Grows /\ RowsOK' /\ a.pc = "flush"
    BY <1>2, <1>29 DEF FlushAndCount
  <2>2. CASE End(s, "raised")
    BY <1>5, <2>1, <2>2 DEF Reported
  <2>3. CASE Becomes(s, [a EXCEPT !.pc = "commit", !.allDone = count])
    <3>1. count => \A j \in JobTypes \ {a.job} : ResultStored(j)
      BY DEF ResultInv, RowsOK, CompletedJobHasResults, AllJobsCompleted
    <3> HIDE DEF count
    <3>2. AttemptOK([a EXCEPT !.pc = "commit", !.allDone = count])
      BY <1>1, <2>1, <3>1 DEF AttemptOK, Attempt, Running
    <3> QED
      BY <1>3, <2>1, <2>3, <3>2
  <2> QED
    BY <1>29, <2>2, <2>3 DEF FlushAndCount
<1>30. CASE CompleteJob(s)
  <2>1. Grows /\ RowsOK'
    BY <1>1, <1>30, CommitIsSound DEF CompleteJob
  <2>2. (IF a.job = "metadata" THEN a.height ELSE None) \in {None, original}
    BY <1>1 DEF AttemptOK
  <2> QED
    BY <1>4, <1>30, <2>1, <2>2 DEF CompleteJob, Reported
<1>31. CASE FailJob(s)
  <2>1. Grows /\ RowsOK'
    BY <1>1, <1>31, CommitIsSound DEF FailJob
  <2> QED
    BY <1>5, <1>31, <2>1 DEF FailJob, Reported
<1>32. CASE WorkFails(s)
  BY <1>2, <1>6, <1>32 DEF WorkFails, Running
<1>33. CASE DatabaseError(s)
  BY <1>2, <1>5, <1>33 DEF DatabaseError, Reported
<1>34. CASE LostAcknowledgement(s)
  <2>1. Grows /\ RowsOK'
    BY <1>1, <1>34, CommitIsSound DEF LostAcknowledgement
  <2> QED
    BY <1>5, <1>34, <2>1 DEF LostAcknowledgement, Reported
<1>35. CASE LoseAttempt(s)
  BY <1>2, <1>5, <1>35 DEF LoseAttempt
<1>36. CASE EndAttempt(s)
  <2>1. Idle.pc = "idle" /\ Idle.height = None /\ Idle.produced = {} /\ Idle.fresh = {}
    BY DEF Idle
  <2>2. AttemptOK(Idle)
    BY <2>1, EndedIsSound
  <2> QED
    BY <1>2, <1>3, <1>36, <2>2 DEF EndAttempt
<1>37. CASE Begin(s)
  <2>1. PICK j \in JobTypes, h \in {None, original} :
                (j = "transcode" => h # None) /\ BeginAttempt(s, j, h)
    BY <1>37 DEF Begin
  <2> DEFINE b == [Idle EXCEPT !.job = j, !.pc = "load", !.sourceHeight = h]
  <2>2. /\ b.job = j /\ b.pc = "load" /\ b.sourceHeight = h /\ b.height = None
        /\ b.produced = {} /\ b.fresh = {}
    BY DEF Idle
  <2>3. Becomes(s, b) /\ UNCHANGED <<rows, objects, original>>
    BY <2>1 DEF BeginAttempt
  <2> HIDE DEF b
  <2>4. AttemptOK(b)
    BY <2>1, <2>2, EndedIsSound
  <2> QED
    BY <1>2, <1>3, <2>3, <2>4
<1> QED
  BY <1>21, <1>22, <1>23, <1>24, <1>25, <1>26, <1>27, <1>28, <1>29, <1>30, <1>31, <1>32, <1>33,
     <1>34, <1>35, <1>36, <1>37 DEF SlotStep, Progress, Misfortune

-------------------------------------------------------------------------------
SafeInv == TypeInv /\ ResultInv

\* The initial state is sound.
LEMMA SafeInit == JobsInit => SafeInv
<1> SUFFICES ASSUME JobsInit PROVE SafeInv
  OBVIOUS
<1>1. TypeInv
  BY TypeInit
<1>2. Idle.pc = "idle" /\ Idle.height = None /\ Idle.produced = {} /\ Idle.fresh = {}
  BY DEF Idle
<1>3. \A s \in Slots : AttemptOK(slot[s])
  BY <1>2, EndedIsSound DEF JobsInit
<1>4. RowsOK
  BY DEF JobsInit, RowsOK, CompletedJobHasResults, FinishedVideoIsWhole, AssetRowsHaveObjects,
         NoSurplusAssets, NoRow
<1> QED
  BY <1>1, <1>3, <1>4 DEF SafeInv, ResultInv

\* Whoever starts attempts with the height of the original keeps the invariant.
LEMMA SafeStep ==
    ASSUME SafeInv, NEW s \in Slots, SlotStep(s)
    PROVE  SafeInv'
<1>1. original \in Heights
  BY DEF SafeInv, TypeInv, JobsTypeOK
<1>2. AnyStep(s)
  BY <1>1 DEF SlotStep, AnyStep, Begin, BeginAny
<1> QED
  BY <1>2, TypeStep, ResultStep DEF SafeInv

\* The environment of JobsSpec is one of those the steps above allow.
LEMMA NextIsSlotStep ==
    ASSUME SafeInv, JobsNext
    PROVE  \E s \in Slots : SlotStep(s)
<1>1. video.height \in {None, original}
  BY DEF SafeInv, ResultInv, RowsOK
<1>2. ASSUME NEW s \in Slots, NEW j \in JobTypes, StartAny(s, j)
      PROVE  Begin(s)
  <2>1. CASE j = "transcode"
    BY <1>1, <1>2, <2>1 DEF StartAny, Begin
  <2>2. CASE j # "transcode"
    BY <1>2, <2>2 DEF StartAny, Begin
  <2> QED
    BY <2>1, <2>2
<1> QED
  BY <1>2 DEF JobsNext, SlotStep

\* A stuttering step changes nothing the invariant speaks of.
LEMMA SafeStutter == SafeInv /\ UNCHANGED jobVars => SafeInv'
<1> SUFFICES ASSUME SafeInv, UNCHANGED jobVars PROVE SafeInv'
  OBVIOUS
<1>1. TypeInv'
  BY DEF SafeInv, TypeInv, JobsTypeOK, HasJob, jobVars
<1>2. Grows
  BY DEF Grows, jobVars
<1>3. \A j \in JobTypes : ResultStored(j) => ResultStored(j)'
  BY <1>2, ResultsStay
<1>4. \A s \in Slots : AttemptOK(slot[s]) => AttemptOK(slot[s])'
  BY DEF AttemptOK, ResultStored, jobVars
<1>5. RowsOK'
  BY <1>3 DEF SafeInv, ResultInv, RowsOK, CompletedJobHasResults, FinishedVideoIsWhole,
              AssetRowsHaveObjects, NoSurplusAssets, jobVars
<1> QED
  BY <1>1, <1>4, <1>5 DEF SafeInv, ResultInv

\* The inductive invariant holds of the whole specification: types, rows that read
\* "completed" only over stored results, and attempts that carry true copies.
THEOREM JobsSafe == JobsSpec => []SafeInv
<1>1. ASSUME SafeInv, [JobsNext]_jobVars PROVE SafeInv'
  <2>1. CASE JobsNext
    BY <1>1, <2>1, NextIsSlotStep, SafeStep
  <2>2. CASE UNCHANGED jobVars
    BY <1>1, <2>2, SafeStutter
  <2> QED
    BY <1>1, <2>1, <2>2
<1> QED
  BY <1>1, SafeInit, PTL DEF JobsSpec

\* Every reachable state is well typed, whatever faults strike and however the
\* attempts overlap.
THEOREM JobsTypeCorrect == JobsSpec => []JobsTypeOK
<1>1. SafeInv => JobsTypeOK
  BY DEF SafeInv, TypeInv
<1> QED
  BY <1>1, JobsSafe, PTL

\* A completed job row always has its results beside it: the claim and completion
\* transactions of worker/jobs.py keep that with any number of attempts at once.
THEOREM CompletedJobsHaveResults == JobsSpec => []CompletedJobHasResults
<1>1. SafeInv => CompletedJobHasResults
  BY DEF SafeInv, ResultInv, RowsOK
<1> QED
  BY <1>1, JobsSafe, PTL

\* A completed video always has every result: the count in _all_jobs_completed is
\* never outrun by what happens between it and the commit.
THEOREM FinishedVideosAreWhole == JobsSpec => []FinishedVideoIsWhole
<1>1. SafeInv => FinishedVideoIsWhole
  BY DEF SafeInv, ResultInv, RowsOK
<1> QED
  BY <1>1, JobsSafe, PTL

\* No asset row precedes its object: every download link leads somewhere.
THEOREM AssetsAreReal == JobsSpec => []AssetRowsHaveObjects
<1>1. SafeInv => AssetRowsHaveObjects
  BY DEF SafeInv, ResultInv, RowsOK
<1> QED
  BY <1>1, JobsSafe, PTL

\* No rendition is recorded that the original is too small for: whatever height an
\* attempt is handed is the original's (_stored_metadata, renditions_for_source_height).
THEOREM NoAssetIsSurplus == JobsSpec => []NoSurplusAssets
<1>1. SafeInv => NoSurplusAssets
  BY DEF SafeInv, ResultInv, RowsOK
<1> QED
  BY <1>1, JobsSafe, PTL

-------------------------------------------------------------------------------
\* What more holds while attempts of one job never overlap.

\* A job has one attempt at a time.
Alone ==
    \A s, t \in Slots : s # t /\ slot[s].job \in JobTypes => slot[t].job # slot[s].job

\* From its read on, an attempt's copy of its job row is what is committed, and the
\* jobs it has counted as completed still are.
Fresh(a) ==
    /\ a.pc = "insert" => jobs[a.job].status = "absent"
    /\ a.pc = "claim" => a.row = jobs[a.job]
    /\ a.pc \in Running \ {"load", "read"} => jobs[a.job].status # "completed"
    /\ a.pc = "commit" /\ a.allDone =>
          \A k \in JobTypes \ {a.job} : jobs[k].status = "completed"

AloneInv ==
    /\ Alone
    /\ \A s \in Slots : Fresh(slot[s])
    /\ \A j \in JobTypes : jobs[j].status = "absent" => jobs[j].attempts = 0
    /\ FinishedVideoHasFinishedJobs

\* A step of one slot that starts an attempt only for a job that has none.
LoneBegin(s) ==
    \E j \in JobTypes, h \in Heights \cup {None} : ~Busy(j) /\ BeginAttempt(s, j, h)

LoneStep(s) == Progress(s) \/ Misfortune(s) \/ EndAttempt(s) \/ LoneBegin(s)

\* What the step of an attempt of job j may do to the rows.
OwnRows(j) ==
    /\ \A k \in JobTypes \ {j} : jobs'[k] = jobs[k]
    /\ \A k \in JobTypes : jobs[k].status = "completed" => jobs'[k].status = "completed"
    /\ \A k \in JobTypes : jobs'[k].status = "absent" => jobs'[k] = jobs[k]
    /\ video.status = "completed" => video'.status = "completed"
    /\ FinishedVideoHasFinishedJobs'

\* A commit of a lone attempt changes no job row but its own, and takes nothing back.
LEMMA OwnRowsOnly ==
    ASSUME TypeInv, AloneInv, NEW s \in Slots, slot[s].job \in JobTypes,
           \/ slot[s].pc = "insert" /\ InsertRow(s)
           \/ slot[s].pc = "claim" /\ ClaimRows(s)
           \/ slot[s].pc = "commit" /\ CompleteRows(s)
           \/ slot[s].pc \in {"fail", "reject"} /\ FailRows(s)
    PROVE  OwnRows(slot[s].job)
<1> DEFINE a == slot[s]
<1>1. /\ video \in [status : VideoStatuses, height : Heights \cup {None}]
      /\ jobs \in [JobTypes -> JobRow]
  BY DEF TypeInv, JobsTypeOK
<1>2. Fresh(a) /\ jobs[a.job].status # "completed"
  BY DEF AloneInv, Fresh, Running
<1>3. video.status # "completed"
  BY <1>2 DEF AloneInv, FinishedVideoHasFinishedJobs
<1>4. CASE slot[s].pc = "insert" /\ InsertRow(s)
  <2>1. /\ \A k \in JobTypes \ {a.job} : jobs'[k] = jobs[k]
        /\ jobs'[a.job].status = "pending" /\ video' = video
    BY <1>1, <1>4 DEF InsertRow, NewRow
  <2> QED
    BY <1>2, <1>3, <2>1 DEF OwnRows, FinishedVideoHasFinishedJobs
<1>5. CASE slot[s].pc = "claim" /\ ClaimRows(s)
  <2>1. a.row = jobs[a.job]
    BY <1>2, <1>5 DEF Fresh
  <2>2. /\ \A k \in JobTypes \ {a.job} : jobs'[k] = jobs[k]
        /\ jobs'[a.job].status = "processing"
        /\ video'.status # "completed"
    BY <1>1, <1>3, <1>5, <2>1 DEF ClaimRows, JobRow
  <2> QED
    BY <1>2, <1>3, <2>2 DEF OwnRows, FinishedVideoHasFinishedJobs
<1>6. CASE slot[s].pc = "commit" /\ CompleteRows(s)
  <2>1. /\ \A k \in JobTypes \ {a.job} : jobs'[k] = jobs[k]
        /\ jobs'[a.job].status = "completed"
        /\ video'.status = "completed" => a.allDone
    BY <1>1, <1>3, <1>6 DEF CompleteRows, JobRow
  <2> QED
    BY <1>2, <1>3, <1>6, <2>1 DEF Fresh, OwnRows, FinishedVideoHasFinishedJobs
<1>7. CASE slot[s].pc \in {"fail", "reject"} /\ FailRows(s)
  BY <1>1, <1>2, <1>3, <1>7 DEF FailRows, OwnRows, FinishedVideoHasFinishedJobs, JobRow, NewRow
<1> QED
  BY <1>4, <1>5, <1>6, <1>7

\* One slot moves on, the rows of the other jobs stay.
LEMMA LoneFrame ==
    ASSUME TypeInv, AloneInv, NEW s \in Slots, NEW b, Becomes(s, b), OwnRows(slot[s].job),
           b.job = slot[s].job \/ b.job = None \/ ~Busy(b.job), Fresh(b)'
    PROVE  AloneInv'
<1>1. slot \in [Slots -> Attempt]
  BY DEF TypeInv, JobsTypeOK
<1>2. slot'[s] = b /\ \A t \in Slots \ {s} : slot'[t] = slot[t]
  BY <1>1 DEF Becomes
<1>3. Alone'
  BY <1>2, NoneAssumption DEF Alone, AloneInv, Busy
<1>4. ASSUME NEW t \in Slots PROVE Fresh(slot[t])'
  <2>1. CASE t = s
    BY <1>2, <2>1 DEF Fresh
  <2>2. CASE t # s
    <3>1. slot[t].pc = "idle" \/ slot[t].job \in JobTypes \ {slot[s].job}
      BY <2>2 DEF TypeInv, HasJob, AloneInv, Alone
    <3>2. slot[t].pc # "idle" => jobs'[slot[t].job] = jobs[slot[t].job]
      BY <3>1 DEF OwnRows
    <3> QED
      BY <1>2, <2>2, <3>2 DEF AloneInv, Fresh, OwnRows, Running
  <2> QED
    BY <2>1, <2>2
<1> QED
  BY <1>3, <1>4 DEF AloneInv, OwnRows

\* What such a step does to the completed rows and to the counters.
RowStep(s) ==
    /\ OwnRows(slot[s].job)
    /\ \A j \in JobTypes :
          \/ jobs'[j].attempts = jobs[j].attempts
          \/ At(s, "claim") /\ slot[s].job = j /\ ClaimRows(s)

\* An insert, a completion or a failure leaves every attempts column alone.
LEMMA CountKept ==
    ASSUME TypeInv, AloneInv, NEW s \in Slots, slot[s].job \in JobTypes,
           InsertRow(s) \/ CompleteRows(s) \/ FailRows(s)
    PROVE  \A j \in JobTypes : jobs'[j].attempts = jobs[j].attempts
<1>1. jobs \in [JobTypes -> JobRow]
  BY DEF TypeInv, JobsTypeOK
<1>2. CASE InsertRow(s)
  BY <1>1, <1>2 DEF InsertRow, NewRow, AloneInv
<1>3. CASE CompleteRows(s)
  BY <1>1, <1>3 DEF CompleteRows, JobRow
<1>4. CASE FailRows(s)
  BY <1>1, <1>4 DEF FailRows, JobRow
<1> QED
  BY <1>2, <1>3, <1>4

\* A claim is the only step that counts, and only for its own job.
LEMMA ClaimKept ==
    ASSUME TypeInv, NEW s \in Slots, slot[s].job \in JobTypes, ClaimRows(s)
    PROVE  \A j \in JobTypes \ {slot[s].job} : jobs'[j].attempts = jobs[j].attempts
BY DEF TypeInv, JobsTypeOK, ClaimRows

\* Every step of a lone attempt keeps its session's copies fresh and takes no
\* completion back: one case per action.
LEMMA AloneStep ==
    ASSUME TypeInv, AloneInv, NEW s \in Slots, LoneStep(s)
    PROVE  AloneInv' /\ RowStep(s)
<1> DEFINE a == slot[s]
<1>1. /\ a \in Attempt /\ Fresh(a) /\ (a.pc # "idle" => a.job \in JobTypes)
      /\ jobs \in [JobTypes -> JobRow]
      /\ a.pc \in Running \ {"load", "read"} => jobs[a.job].status # "completed"
  BY DEF TypeInv, JobsTypeOK, HasJob, AloneInv, Fresh
<1>2. ASSUME UNCHANGED rows
      PROVE  RowStep(s)
  <2>1. video' = video /\ jobs' = jobs
    BY <1>2 DEF rows
  <2>2. OwnRows(a.job)
    BY <2>1 DEF OwnRows, AloneInv, FinishedVideoHasFinishedJobs
  <2> QED
    BY <2>1, <2>2 DEF RowStep
<1>3. ASSUME RowStep(s), NEW b, Becomes(s, b), b.job = a.job \/ b.job = None \/ ~Busy(b.job),
             Fresh(b)'
      PROVE  AloneInv' /\ RowStep(s)
  BY <1>3, LoneFrame DEF RowStep
<1>4. ASSUME RowStep(s), NEW pc \in Reported \cup {"lost"}, NEW h, EndWith(s, pc, h)
      PROVE  AloneInv' /\ RowStep(s)
  <2>1. PICK b : b = [Idle EXCEPT !.job = a.job, !.pc = pc, !.height = h]
    OBVIOUS
  <2>2. b.pc = pc /\ b.job = a.job
    BY <2>1 DEF Idle
  <2>3. Fresh(b)'
    BY <1>4, <2>2 DEF Fresh, Reported, Running
  <2> QED
    BY <1>3, <1>4, <2>1, <2>2, <2>3 DEF EndWith
<1>5. ASSUME RowStep(s), NEW pc \in Reported \cup {"lost"}, End(s, pc)
      PROVE  AloneInv' /\ RowStep(s)
  BY <1>4, <1>5 DEF End
\* A step to pc that keeps the rows and the copy of the job row.
<1>6. ASSUME UNCHANGED rows, NEW b, Becomes(s, b), b.job = a.job,
             b.pc \in Running, b.pc \notin {"insert", "claim", "commit"},
             b.pc \in {"load", "read"} \/ a.pc \in Running \ {"load", "read"}
      PROVE  AloneInv' /\ RowStep(s)
  <2>1. Fresh(b)'
    BY <1>1, <1>6 DEF Fresh, rows
  <2> QED
    BY <1>2, <1>3, <1>6, <2>1
<1>7. ASSUME UNCHANGED rows, NEW pc \in Running \ {"insert", "claim", "commit", "load", "read"},
             a.pc \in Running \ {"load", "read"}, Goto(s, pc)
      PROVE  AloneInv' /\ RowStep(s)
  <2>1. PICK b : b = [a EXCEPT !.pc = pc]
    OBVIOUS
  <2>2. b.pc = pc /\ b.job = a.job
    BY <1>1, <2>1 DEF Attempt
  <2> QED
    BY <1>6, <1>7, <2>1, <2>2 DEF Goto
<1> USE DEF At
<1>21. CASE LoadVideo(s)
  <2>1. CASE End(s, "refused")
    BY <1>2, <1>5, <1>21, <2>1 DEF LoadVideo, Reported
  <2>2. CASE Becomes(s, [a EXCEPT !.pc = "read", !.status = video.status, !.height = video.height])
    <3>1. PICK b : b = [a EXCEPT !.pc = "read", !.status = video.status, !.height = video.height]
      OBVIOUS
    <3>2. b.pc = "read" /\ b.job = a.job
      BY <1>1, <3>1 DEF Attempt
    <3> QED
      BY <1>6, <1>21, <2>2, <3>1, <3>2 DEF LoadVideo, Running
  <2> QED
    BY <1>21, <2>1, <2>2 DEF LoadVideo
<1>22. CASE ReadJob(s)
  <2>0. UNCHANGED rows /\ RowStep(s) /\ a.job \in JobTypes
    BY <1>1, <1>2, <1>22 DEF ReadJob
  <2>1. CASE jobs[a.job].status = "absent" /\ Goto(s, "insert")
    <3>1. PICK b : b = [a EXCEPT !.pc = "insert"]
      OBVIOUS
    <3>2. b.pc = "insert" /\ b.job = a.job
      BY <1>1, <3>1 DEF Attempt
    <3>3. Fresh(b)'
      BY <2>0, <2>1, <3>2 DEF Fresh, rows
    <3> QED
      BY <1>3, <2>0, <2>1, <3>1, <3>2, <3>3 DEF Goto
  <2>2. CASE /\ jobs[a.job].status \notin {"absent", "completed"}
             /\ Becomes(s, [a EXCEPT !.pc = "claim", !.row = jobs[a.job]])
    <3>1. PICK b : b = [a EXCEPT !.pc = "claim", !.row = jobs[a.job]]
      OBVIOUS
    <3>2. b.pc = "claim" /\ b.job = a.job /\ b.row = jobs[a.job]
      BY <1>1, <3>1 DEF Attempt
    <3>3. Fresh(b)'
      BY <2>0, <2>2, <3>2 DEF Fresh, rows
    <3> QED
      BY <1>3, <2>0, <2>2, <3>1, <3>2, <3>3
  <2>3. CASE End(s, "refused") \/ End(s, "returned")
    BY <1>5, <2>0, <2>3 DEF Reported
  <2>4. CASE EndWith(s, "returned", a.height)
    BY <1>4, <2>0, <2>4 DEF Reported
  <2> QED
    BY <1>22, <2>1, <2>2, <2>3, <2>4 DEF ReadJob
<1>23. CASE InsertJob(s)
  <2>0. a.pc = "insert" /\ a.job \in JobTypes
    BY <1>1, <1>23 DEF InsertJob
  <2>1. CASE /\ InsertRow(s)
             /\ Becomes(s, [a EXCEPT !.pc = "claim",
                                     !.row = NewRow])
    <3>1. RowStep(s)
      BY <2>0, <2>1, OwnRowsOnly, CountKept DEF RowStep
    <3>2. PICK b : b = [a EXCEPT !.pc = "claim", !.row = NewRow]
      OBVIOUS
    <3>3. b.pc = "claim" /\ b.job = a.job /\ b.row = NewRow
      BY <1>1, <3>2 DEF Attempt
    <3>4. jobs'[a.job] = NewRow
      BY <1>1, <2>0, <2>1 DEF InsertRow
    <3>5. Fresh(b)'
      BY <3>3, <3>4 DEF Fresh, NewRow
    <3> QED
      BY <1>3, <2>1, <3>1, <3>2, <3>3, <3>5
  <2>2. CASE End(s, "raised") /\ UNCHANGED rows
    BY <1>2, <1>5, <2>2 DEF Reported
  <2> QED
    BY <1>23, <2>1, <2>2 DEF InsertJob
<1>24. CASE ClaimJob(s)
  <2>0. a.pc = "claim" /\ a.job \in JobTypes /\ ClaimRows(s)
    BY <1>1, <1>24 DEF ClaimJob
  <2>1. RowStep(s)
    BY <2>0, OwnRowsOnly, ClaimKept DEF RowStep
  <2>2. jobs'[a.job].status # "completed"
    BY <1>1, <2>0 DEF ClaimRows, JobRow, Running
  <2>3. PICK pc \in {"reject", "work"}, st \in {"completed", "processing"} :
               Becomes(s, [a EXCEPT !.pc = pc, !.status = st])
    BY <1>24 DEF ClaimJob
  <2>4. PICK b : b = [a EXCEPT !.pc = pc, !.status = st]
    OBVIOUS
  <2>5. b.pc = pc /\ b.job = a.job
    BY <1>1, <2>4 DEF Attempt
  <2>6. Fresh(b)'
    BY <2>2, <2>5 DEF Fresh
  <2> QED
    BY <1>3, <2>1, <2>3, <2>4, <2>5, <2>6
<1>25. CASE ExtractMetadata(s)
  <2>1. PICK b : b = [a EXCEPT !.pc = "flush", !.height = original]
    OBVIOUS
  <2>2. b.pc = "flush" /\ b.job = a.job
    BY <1>1, <2>1 DEF Attempt
  <2> QED
    BY <1>6, <1>25, <2>1, <2>2 DEF ExtractMetadata, Running
<1>26. CASE UploadAsset(s)
  <2>1. PICK p : Becomes(s, [a EXCEPT !.produced = p])
    BY <1>26 DEF UploadAsset
  <2>2. PICK b : b = [a EXCEPT !.produced = p]
    OBVIOUS
  <2>3. b.pc = "work" /\ b.job = a.job
    BY <1>1, <1>26, <2>2 DEF Attempt, UploadAsset
  <2> QED
    BY <1>6, <1>26, <2>1, <2>2, <2>3 DEF UploadAsset, Running
<1>27. CASE FinishUploads(s)
  BY <1>7, <1>27 DEF FinishUploads, Running
<1>28. CASE ReadAssets(s)
  <2>1. PICK b : b = [a EXCEPT !.pc = "flush", !.fresh = a.produced \ assets]
    OBVIOUS
  <2>2. b.pc = "flush" /\ b.job = a.job
    BY <1>1, <2>1 DEF Attempt
  <2> QED
    BY <1>6, <1>28, <2>1, <2>2 DEF ReadAssets, Running
<1>29. CASE FlushAndCount(s)
  <2> DEFINE count == AllJobsCompleted(a.job)
  <2>0. a.pc = "flush" /\ UNCHANGED rows /\ RowStep(s)
    BY <1>2, <1>29 DEF FlushAndCount
  <2>1. CASE End(s, "raised")
    BY <1>5, <2>0, <2>1 DEF Reported
  <2>2. CASE Becomes(s, [a EXCEPT !.pc = "commit", !.allDone = count])
    <3>1. PICK b : b = [a EXCEPT !.pc = "commit", !.allDone = count]
      OBVIOUS
    <3>2. b.pc = "commit" /\ b.job = a.job /\ b.allDone = count
      BY <1>1, <3>1 DEF Attempt
    <3>3. jobs[a.job].status # "completed"
      BY <1>1, <2>0 DEF Running
    <3>4. Fresh(b)'
      BY <2>0, <3>2, <3>3 DEF Fresh, rows, AllJobsCompleted
    <3> QED
      BY <1>3, <2>0, <2>2, <3>1, <3>2, <3>4
  <2> QED
    BY <1>29, <2>1, <2>2 DEF FlushAndCount
<1>30. CASE CompleteJob(s)
  <2>1. RowStep(s)
    BY <1>1, <1>30, OwnRowsOnly, CountKept DEF RowStep, CompleteJob
  <2>2. PICK h : EndWith(s, "returned", h)
    BY <1>30 DEF CompleteJob
  <2> QED
    BY <1>4, <2>1, <2>2 DEF Reported
<1>31. CASE FailJob(s)
  <2>1. RowStep(s)
    BY <1>1, <1>31, OwnRowsOnly, CountKept DEF RowStep, FailJob
  <2> QED
    BY <1>5, <1>31, <2>1 DEF FailJob, Reported
<1>32. CASE WorkFails(s)
  BY <1>7, <1>32 DEF WorkFails, Running
<1>33. CASE DatabaseError(s)
  BY <1>2, <1>5, <1>33 DEF DatabaseError, Reported
<1>34. CASE LostAcknowledgement(s)
  <2>1. RowStep(s)
    BY <1>1, <1>34, OwnRowsOnly, CountKept, ClaimKept DEF RowStep, LostAcknowledgement
  <2> QED
    BY <1>5, <1>34, <2>1 DEF LostAcknowledgement, Reported
<1>35. CASE LoseAttempt(s)
  BY <1>2, <1>5, <1>35 DEF LoseAttempt
<1>36. CASE EndAttempt(s)
  <2>1. PICK b : b = Idle
    OBVIOUS
  <2>2. b.pc = "idle" /\ b.job = None
    BY <2>1 DEF Idle
  <2>3. Fresh(b)'
    BY <2>2 DEF Fresh, Running
  <2> QED
    BY <1>2, <1>3, <1>36, <2>1, <2>2, <2>3 DEF EndAttempt
<1>37. CASE LoneBegin(s)
  <2>1. PICK j \in JobTypes, h \in Heights \cup {None} : BeginAttempt(s, j, h) /\ ~Busy(j)
    BY <1>37 DEF LoneBegin
  <2>2. PICK b : b = [Idle EXCEPT !.job = j, !.pc = "load", !.sourceHeight = h]
    OBVIOUS
  <2>3. b.pc = "load" /\ b.job = j /\ ~Busy(j)
    BY <2>1, <2>2 DEF Idle
  <2>4. Fresh(b)'
    BY <2>3 DEF Fresh
  <2> QED
    BY <1>2, <1>3, <2>1, <2>2, <2>3, <2>4 DEF BeginAttempt
<1> QED
  BY <1>21, <1>22, <1>23, <1>24, <1>25, <1>26, <1>27, <1>28, <1>29, <1>30, <1>31, <1>32, <1>33,
     <1>34, <1>35, <1>36, <1>37 DEF LoneStep, Progress, Misfortune

\* Nothing runs at first, and no job has a row.
LEMMA AloneInit == JobsInit => AloneInv
BY NoneAssumption DEF JobsInit, AloneInv, Alone, Fresh, FinishedVideoHasFinishedJobs, Idle, NoRow,
       Running

\* A stuttering step changes nothing this invariant speaks of either.
LEMMA AloneStutter == AloneInv /\ UNCHANGED jobVars => AloneInv'
BY DEF AloneInv, Alone, Fresh, FinishedVideoHasFinishedJobs, jobVars

\* A step without overlap is a step of a slot.
LEMMA LoneIsAnyStep ==
    ASSUME NEW s, LoneStep(s)
    PROVE  AnyStep(s)
BY DEF LoneStep, LoneBegin, AnyStep, BeginAny

\* In JobsSpec attempts of a job overlap only by an overrun.
LEMMA NextIsLone ==
    ASSUME "overrun" \notin Faults, SafeInv, JobsNext
    PROVE  \E s \in Slots : LoneStep(s)
<1>1. video.height \in Heights \cup {None}
  BY DEF SafeInv, TypeInv, JobsTypeOK
<1>2. ASSUME NEW s \in Slots, NEW j \in JobTypes, StartAny(s, j)
      PROVE  LoneBegin(s)
  <2>1. CASE j = "transcode"
    BY <1>1, <1>2, <2>1 DEF StartAny, LoneBegin
  <2>2. CASE j # "transcode"
    BY <1>2, <2>2 DEF StartAny, LoneBegin
  <2> QED
    BY <2>1, <2>2
<1> QED
  BY <1>2 DEF JobsNext, LoneStep

\* A lone step keeps what is completed and counts a claim once.
LEMMA LoneStepIsFinal ==
    ASSUME TypeInv, AloneInv, NEW s \in Slots, LoneStep(s)
    PROVE  /\ \A j \in JobTypes : jobs[j].status = "completed" => jobs'[j].status = "completed"
           /\ video.status = "completed" => video'.status = "completed"
BY AloneStep DEF RowStep, OwnRows

\* What attempts is computed from is the row itself, so the claim adds one.
LEMMA LoneStepCounts ==
    ASSUME TypeInv, AloneInv, NEW s \in Slots, LoneStep(s), NEW j \in JobTypes
    PROVE  jobs'[j].attempts = jobs[j].attempts +
             (IF \E t \in Slots : At(t, "claim") /\ slot[t].job = j /\ ClaimRows(t)
              THEN 1 ELSE 0)
<1>1. jobs \in [JobTypes -> JobRow]
  BY DEF TypeInv, JobsTypeOK
<1>2. CASE \E t \in Slots : At(t, "claim") /\ slot[t].job = j /\ ClaimRows(t)
  <2>1. PICK t \in Slots : At(t, "claim") /\ slot[t].job = j /\ ClaimRows(t)
    BY <1>2
  <2>2. slot[t].row = jobs[j]
    BY <2>1 DEF AloneInv, Fresh, At
  <2>3. jobs'[j].attempts = jobs[j].attempts + 1
    BY <1>1, <2>1, <2>2 DEF ClaimRows
  <2> QED
    BY <1>2, <2>3
<1>3. CASE ~\E t \in Slots : At(t, "claim") /\ slot[t].job = j /\ ClaimRows(t)
  <2>1. jobs'[j].attempts = jobs[j].attempts
    BY <1>3, AloneStep DEF RowStep
  <2>2. jobs[j].attempts \in Nat
    BY <1>1 DEF JobRow
  <2> QED
    BY <1>3, <2>1, <2>2
<1> QED
  BY <1>2, <1>3

JobsInv == SafeInv /\ AloneInv

\* Without overruns both invariants hold: no two attempts of a job, so that what an
\* attempt has read of its job row is what the row still reads (claim_job).
THEOREM JobsAlone ==
    ASSUME "overrun" \notin Faults
    PROVE  JobsSpec => []JobsInv
<1>1. JobsInit => JobsInv
  BY SafeInit, AloneInit DEF JobsInv
<1>2. ASSUME JobsInv, [JobsNext]_jobVars PROVE JobsInv'
  <2>1. CASE JobsNext
    <3>1. PICK s \in Slots : LoneStep(s)
      BY <1>2, <2>1, NextIsLone DEF JobsInv
    <3>2. AloneInv'
      BY <1>2, <3>1, AloneStep DEF JobsInv, SafeInv
    <3> QED
      BY <1>2, <2>1, <3>2, NextIsSlotStep, SafeStep DEF JobsInv
  <2>2. CASE UNCHANGED jobVars
    BY <1>2, <2>2, SafeStutter, AloneStutter DEF JobsInv
  <2> QED
    BY <1>2, <2>1, <2>2
<1> QED
  BY <1>1, <1>2, PTL DEF JobsSpec

\* While attempts of one job do not overlap, a completed video has three completed
\* jobs: no order of failures and late claims leaves a verdict behind.
THEOREM FinishedVideosHaveFinishedJobs ==
    ASSUME "overrun" \notin Faults
    PROVE  JobsSpec => []FinishedVideoHasFinishedJobs
<1>1. JobsInv => FinishedVideoHasFinishedJobs
  BY DEF JobsInv, AloneInv
<1> QED
  BY <1>1, JobsAlone, PTL

\* ... and completion is final, for jobs and for the video (claim_job's early
\* return, its guard against regressing the video).
THEOREM CompletionIsFinal ==
    ASSUME "overrun" \notin Faults
    PROVE  JobsSpec => CompletedIsFinal
<1>1. ASSUME JobsInv, [JobsNext]_jobVars
      PROVE  [/\ \A j \in JobTypes :
                    jobs[j].status = "completed" => jobs'[j].status = "completed"
              /\ video.status = "completed" => video'.status = "completed"]_jobVars
  BY <1>1, NextIsLone, LoneStepIsFinal DEF JobsInv, SafeInv
<1> QED
  BY <1>1, JobsAlone, PTL DEF JobsSpec, CompletedIsFinal

\* ... and `attempts` counts every claim once, faults and retries included.
THEOREM ClaimsCounted ==
    ASSUME "overrun" \notin Faults
    PROVE  JobsSpec => ClaimsAreCounted
<1>1. ASSUME JobsInv, [JobsNext]_jobVars
      PROVE  [\A j \in JobTypes :
                 jobs'[j].attempts = jobs[j].attempts +
                 (IF \E s \in Slots : At(s, "claim") /\ slot[s].job = j /\ ClaimRows(s)
                  THEN 1 ELSE 0)]_jobVars
  BY <1>1, NextIsLone, LoneStepCounts DEF JobsInv, SafeInv
<1> QED
  BY <1>1, JobsAlone, PTL DEF JobsSpec, ClaimsAreCounted
===============================================================================
