------------------------------- MODULE VideoJobs -------------------------------
(***************************************************************************)
(* The three processing activities of one video (worker/activities.py) and *)
(* the database operations they claim and finish their jobs with           *)
(* (worker/jobs.py).                                                       *)
(*                                                                         *)
(* An attempt of an activity occupies one slot of a worker from its start  *)
(* to its report.  It owns a database session, so what it has loaded stays *)
(* as it was read (expire_on_commit=False) while other attempts commit,    *)
(* and its UPDATE names only the attributes it changed from that copy.     *)
(* Every await on the database or on S3 ends a step.  A statement sees     *)
(* what is committed when it runs (READ COMMITTED); row locks are left out *)
(* because each order they forbid has the outcome of one they allow, but   *)
(* for the unique index that an INSERT waits on, which is modelled.        *)
(*                                                                         *)
(* Who starts attempts is left open here: JobsSpec is the environment      *)
(* that may redeliver anything, VideoWorkflow is the one Temporal provides.*)
(***************************************************************************)
EXTENDS Naturals, FiniteSets, Renditions

CONSTANTS
    Slots,      \* activity slots of all workers (worker_concurrency of each)
    Heights,    \* frame heights an original can have
    None,       \* "no value": a NULL column, an attribute not loaded
    Faults,     \* the faults that may strike, a subset of FaultKinds
    MaxClaims   \* bound: JobsSpec starts no attempt after this many claims

JobTypes == {"metadata", "thumbnail", "transcode"}

\* "lost_attempt"  a worker dies or shuts down, or a timeout cuts the attempt:
\*                 it writes nothing more and the server times it out
\* "db_error"      a database statement fails
\* "lost_ack"      a commit is applied but its acknowledgement is lost
\* "overrun"       the server gives up on an attempt that is still running, or
\*                 runs one twice: two attempts of a job overlap
FaultKinds == {"lost_attempt", "db_error", "lost_ack", "overrun"}

ASSUME SlotsAssumption   == IsFiniteSet(Slots)
ASSUME NoneAssumption    == None \notin Nat \cup JobTypes
ASSUME HeightsAssumption == Heights \subseteq Nat
ASSUME FaultsAssumption  == Faults \subseteq FaultKinds
ASSUME BoundAssumption   == MaxClaims \in Nat

VARIABLES
    video,      \* the row of videos: its status and its height column
    jobs,       \* the rows of processing_jobs, one per job type
    assets,     \* the asset types with a row in generated_assets
    objects,    \* the asset types with an object in the bucket
    original,   \* the frame height of the uploaded file
    slot        \* the attempt in each slot, with its session's copies

rows == <<video, jobs, assets>>
jobVars == <<video, jobs, assets, objects, original, slot>>

VideoStatuses == {"absent", "pending_upload", "processing", "completed", "failed"}

\* JobStatus, with "absent" for a row that was never inserted.
JobStatuses == {"absent", "pending", "processing", "completed", "failed"}

JobRow == [status : JobStatuses, attempts : Nat]

NoRow == [status |-> "absent", attempts |-> 0]

\* Where an attempt stands.
\*   load     about to read the video row
\*   read     claim_job: about to read the job row
\*   insert   claim_job: about to commit a new row
\*   claim    claim_job: about to commit status, attempts and video status
\*   work     downloading, running ffmpeg, uploading
\*   upsert   complete_*: about to look its assets up
\*   flush    complete_*: about to flush and count the completed jobs
\*   commit   complete_*: flushed, about to commit
\*   fail     fail_job, then the exception is re-raised
\*   reject   fail_job, then a non-retryable error
\*   returned, raised, refused   ended; refused is the non-retryable end
\*   lost     cut short, nothing is reported
Running == {"load", "read", "insert", "claim", "work", "upsert", "flush",
            "commit", "fail", "reject"}
Reported == {"returned", "raised", "refused"}

Attempt ==
    [job : JobTypes \cup {None},
     pc : Running \cup Reported \cup {"idle", "lost"},
     sourceHeight : Heights \cup {None},  \* transcode_activity's argument
     status : VideoStatuses,              \* the session's copy of video.status
     height : Heights \cup {None},        \* ... of video.height; then the result
     row : JobRow,                        \* ... of the job row
     produced : SUBSET AssetTypes,        \* what has been encoded and uploaded
     fresh : SUBSET AssetTypes,           \* the asset rows it will INSERT
     allDone : BOOLEAN]                   \* what _all_jobs_completed returned

Idle == [job |-> None, pc |-> "idle", sourceHeight |-> None, status |-> "absent",
         height |-> None, row |-> NoRow, produced |-> {}, fresh |-> {},
         allDone |-> FALSE]

\* Mutant of AssetsOf: every rendition is encoded, whatever the source's height.
AssetsOfFullLadder(j, h) ==
    CASE j = "metadata"  -> {}
      [] j = "thumbnail" -> {"thumbnail"}
      [] j = "transcode" -> Previews

\* The assets a job leaves behind for an original of height h.
AssetsOf(j, h) ==
    CASE j = "metadata"  -> {}
      [] j = "thumbnail" -> {"thumbnail"}
      [] j = "transcode" -> RenditionsFor(h)

-------------------------------------------------------------------------------
At(s, pc) == slot[s].pc = pc

\* The attempt in slot s goes on as a.
Becomes(s, a) == slot' = [slot EXCEPT ![s] = a]

Goto(s, pc) == Becomes(s, [slot[s] EXCEPT !.pc = pc])

\* The activity's function returns or raises: its session is closed.
EndWith(s, outcome, height) ==
    Becomes(s, [Idle EXCEPT !.job = slot[s].job, !.pc = outcome, !.height = height])

End(s, outcome) == EndWith(s, outcome, None)

\* The worker polls an activity task and calls the activity.
BeginAttempt(s, j, h) ==
    /\ At(s, "idle")
    /\ Becomes(s, [Idle EXCEPT !.job = j, !.pc = "load", !.sourceHeight = h])
    /\ UNCHANGED <<rows, objects, original>>

\* _load_video: a missing row is a permanent failure.
LoadVideo(s) ==
    /\ At(s, "load")
    /\ \/ /\ video.status = "absent"
          /\ End(s, "refused")
       \/ /\ video.status # "absent"
          /\ Becomes(s, [slot[s] EXCEPT !.pc = "read", !.status = video.status,
                                        !.height = video.height])
    /\ UNCHANGED <<rows, objects, original>>

\* Mutant of ReadJob: a finished metadata job is answered by probing the file again.
ReadJobProbesAgain(s) ==
    LET row == jobs[slot[s].job] IN
    /\ At(s, "read")
    /\ \/ /\ row.status = "absent"
          /\ Goto(s, "insert")
       \/ /\ row.status \notin {"absent", "completed"}
          /\ Becomes(s, [slot[s] EXCEPT !.pc = "claim", !.row = row])
       \/ /\ row.status = "completed"
          /\ EndWith(s, "returned", IF slot[s].job = "metadata" THEN original ELSE None)
    /\ UNCHANGED <<rows, objects, original>>

\* claim_job's SELECT.  A completed job ends the attempt: the metadata activity
\* answers from the video it loaded before (_stored_metadata), the others
\* return nothing.
ReadJob(s) ==
    LET row == jobs[slot[s].job] IN
    /\ At(s, "read")
    /\ \/ /\ row.status = "absent"
          /\ Goto(s, "insert")
       \/ /\ row.status \notin {"absent", "completed"}
          /\ Becomes(s, [slot[s] EXCEPT !.pc = "claim", !.row = row])
       \/ /\ row.status = "completed"
          /\ slot[s].job = "metadata"
          /\ slot[s].height = None
          /\ End(s, "refused")
       \/ /\ row.status = "completed"
          /\ slot[s].job = "metadata"
          /\ slot[s].height # None
          /\ EndWith(s, "returned", slot[s].height)
       \/ /\ row.status = "completed"
          /\ slot[s].job # "metadata"
          /\ End(s, "returned")
    /\ UNCHANGED <<rows, objects, original>>

\* Mutants of NewRow: attempts without its default; the insert counted as a claim.
NewRowWithoutDefault == [status |-> "pending", attempts |-> None]
NewRowCounted == [status |-> "pending", attempts |-> 1]

\* claim_job's first commit: the column defaults of a new row.
NewRow == [status |-> "pending", attempts |-> 0]

InsertRow(s) ==
    /\ jobs[slot[s].job].status = "absent"
    /\ jobs' = [jobs EXCEPT ![slot[s].job] = NewRow]
    /\ UNCHANGED <<video, assets>>

\* The unique constraint decides a race of two inserts.  The loser rolls back,
\* which expires the video it holds, and the lookup that should fetch the
\* winner's row raises on video.id: outside a try, so nothing is marked.
InsertJob(s) ==
    /\ At(s, "insert")
    /\ \/ /\ InsertRow(s)
          /\ Becomes(s, [slot[s] EXCEPT !.pc = "claim",
                                        !.row = NewRow])
       \/ /\ jobs[slot[s].job].status # "absent"
          /\ End(s, "raised")
          /\ UNCHANGED rows
    /\ UNCHANGED <<objects, original>>

\* claim_job's last commit.  attempts is computed from the copy; a status that
\* already reads "processing" in the copy is not part of the UPDATE.
ClaimRows(s) ==
    LET a == slot[s] IN
    /\ jobs' = [jobs EXCEPT ![a.job] =
                   [status |-> IF a.row.status = "processing" THEN @.status ELSE "processing",
                    attempts |-> a.row.attempts + 1]]
    /\ video' = IF a.status \in {"completed", "processing"}
                   THEN video
                   ELSE [video EXCEPT !.status = "processing"]
    /\ UNCHANGED assets

\* transcode_activity validates its source height after claiming.
ClaimJob(s) ==
    LET a == slot[s] IN
    /\ At(s, "claim")
    /\ ClaimRows(s)
    /\ Becomes(s, [a EXCEPT
         !.pc = IF a.job = "transcode" /\ a.sourceHeight = 0 THEN "reject" ELSE "work",
         !.status = IF a.status = "completed" THEN "completed" ELSE "processing"])
    /\ UNCHANGED <<objects, original>>

\* ffprobe on the downloaded original; complete_metadata_job sets the columns.
ExtractMetadata(s) ==
    /\ At(s, "work")
    /\ slot[s].job = "metadata"
    /\ Becomes(s, [slot[s] EXCEPT !.pc = "flush", !.height = original])
    /\ UNCHANGED <<rows, objects, original>>

\* One rendition encoded and uploaded (or the thumbnail, the only asset of its
\* job): the loop takes the tallest one that is left.
UploadAsset(s) ==
    LET todo == AssetsOf(slot[s].job, slot[s].sourceHeight) \ slot[s].produced
        asset == IF slot[s].job = "thumbnail" THEN "thumbnail" ELSE Tallest(todo)
    IN
    /\ At(s, "work")
    /\ slot[s].job # "metadata"
    /\ todo # {}
    /\ objects' = objects \cup {asset}
    /\ Becomes(s, [slot[s] EXCEPT !.produced = @ \cup {asset}])
    /\ UNCHANGED <<rows, original>>

\* The loop has run to its end; complete_thumbnail_job or complete_transcode_job
\* is called.
FinishUploads(s) ==
    /\ At(s, "work")
    /\ slot[s].job # "metadata"
    /\ AssetsOf(slot[s].job, slot[s].sourceHeight) \subseteq slot[s].produced
    /\ Goto(s, "upsert")
    /\ UNCHANGED <<rows, objects, original>>

\* _upsert_asset, for every asset produced: an existing row is updated with the
\* same key, which emits nothing; the others will be inserted.
ReadAssets(s) ==
    /\ At(s, "upsert")
    /\ Becomes(s, [slot[s] EXCEPT !.pc = "flush", !.fresh = slot[s].produced \ assets])
    /\ UNCHANGED <<rows, objects, original>>

\* Mutants of AllJobsCompleted: failed jobs are counted as done; the count is taken
\* without the flush, so that it misses the caller's own job.
AllJobsSettled(j) ==
    \A i \in JobTypes \ {j} : jobs[i].status \in {"completed", "failed"}
AllJobsCommitted(j) == \A i \in JobTypes : jobs[i].status = "completed"

\* _all_jobs_completed, called for job j: count_completed_for_video flushes first, so
\* it counts this job and what others have committed.
AllJobsCompleted(j) == \A i \in JobTypes \ {j} : jobs[i].status = "completed"

\* The flush.  An INSERT waits for a conflicting one still uncommitted; one
\* that finds the row raises, and as the failed flush leaves the session unusable
\* until a rollback nobody calls, fail_job's own commit raises as well.
FlushAndCount(s) ==
    LET a == slot[s] IN
    /\ At(s, "flush")
    /\ \A t \in Slots : At(t, "commit") => slot[t].fresh \cap a.fresh = {}
    /\ \/ /\ a.fresh \cap assets # {}
          /\ End(s, "raised")
       \/ /\ a.fresh \cap assets = {}
          /\ Becomes(s, [a EXCEPT !.pc = "commit", !.allDone = AllJobsCompleted(a.job)])
    /\ UNCHANGED <<rows, objects, original>>

\* Mutant of CompleteRows: the asset rows are left out of the transaction.
CompleteRowsWithoutAssets(s) ==
    LET a == slot[s] IN
    /\ jobs' = [jobs EXCEPT ![a.job].status = "completed"]
    /\ video' = [video EXCEPT
         !.height = IF a.job = "metadata" THEN a.height ELSE @,
         !.status = IF a.allDone /\ a.status # "completed" THEN "completed" ELSE @]
    /\ UNCHANGED assets

\* Mutant of CompleteRows: the metadata columns are left to a later commit.
CompleteRowsWithoutMetadata(s) ==
    LET a == slot[s] IN
    /\ jobs' = [jobs EXCEPT ![a.job].status = "completed"]
    /\ assets' = assets \cup a.fresh
    /\ video' = [video EXCEPT
         !.status = IF a.allDone /\ a.status # "completed" THEN "completed" ELSE @]

\* The commit of complete_metadata_job, complete_thumbnail_job and
\* complete_transcode_job.
CompleteRows(s) ==
    LET a == slot[s] IN
    /\ jobs' = [jobs EXCEPT ![a.job].status = "completed"]
    /\ assets' = assets \cup a.fresh
    /\ video' = [video EXCEPT
         !.height = IF a.job = "metadata" THEN a.height ELSE @,
         !.status = IF a.allDone /\ a.status # "completed" THEN "completed" ELSE @]

\* The metadata activity returns what it extracted.
CompleteJob(s) ==
    LET a == slot[s] IN
    /\ At(s, "commit")
    /\ CompleteRows(s)
    /\ EndWith(s, "returned", IF a.job = "metadata" THEN a.height ELSE None)
    /\ UNCHANGED <<objects, original>>

\* Mutant of WorkFails: the error is swallowed, the assets recorded as if uploaded.
WorkFailsSwallowed(s) ==
    /\ At(s, "work")
    /\ slot[s].job # "metadata"
    /\ Becomes(s, [slot[s] EXCEPT !.pc = "upsert",
                                  !.produced = AssetsOf(slot[s].job, slot[s].sourceHeight)])
    /\ UNCHANGED <<rows, objects, original>>

\* S3 or ffmpeg fails, or no connection comes free for the first statement of
\* complete_*: the handler calls fail_job.
WorkFails(s) ==
    /\ slot[s].pc \in {"work", "upsert"}
    /\ Goto(s, "fail")
    /\ UNCHANGED <<rows, objects, original>>

\* fail_job's commit.
FailRows(s) ==
    /\ jobs' = [jobs EXCEPT ![slot[s].job].status = "failed"]
    /\ video' = [video EXCEPT !.status = "failed"]
    /\ UNCHANGED assets

FailJob(s) ==
    /\ slot[s].pc \in {"fail", "reject"}
    /\ FailRows(s)
    /\ End(s, IF At(s, "fail") THEN "raised" ELSE "refused")
    /\ UNCHANGED <<objects, original>>

-------------------------------------------------------------------------------
\* A statement fails.  Outside the try, or in a session whose transaction is
\* broken so that fail_job raises too: nothing is written, nothing is marked.
DatabaseError(s) ==
    /\ "db_error" \in Faults
    /\ slot[s].pc \in Running \ {"work"}
    /\ End(s, "raised")
    /\ UNCHANGED <<rows, objects, original>>

\* Mutant of LostAcknowledgement: the session is rolled back, fail_job goes through.
LostAcknowledgementIsFailed(s) ==
    /\ "lost_ack" \in Faults
    /\ At(s, "commit")
    /\ CompleteRows(s)
    /\ Goto(s, "fail")
    /\ UNCHANGED <<objects, original>>

\* The commit is applied, the connection breaks before the attempt knows.  The
\* session is unusable again, so fail_job cannot take the commit back.
LostAcknowledgement(s) ==
    /\ "lost_ack" \in Faults
    /\ \/ At(s, "insert") /\ InsertRow(s)
       \/ At(s, "claim") /\ ClaimRows(s)
       \/ At(s, "commit") /\ CompleteRows(s)
       \/ slot[s].pc \in {"fail", "reject"} /\ FailRows(s)
    /\ End(s, "raised")
    /\ UNCHANGED <<objects, original>>

\* The worker process is killed, or its shutdown or a timeout cancels the
\* attempt: CancelledError passes every handler, which catch Exception only.
\* A report that never reaches the server is lost the same way.
LoseAttempt(s) ==
    /\ "lost_attempt" \in Faults
    /\ slot[s].pc \in Running \cup Reported
    /\ End(s, "lost")
    /\ UNCHANGED <<rows, objects, original>>

\* The slot is free again.
EndAttempt(s) ==
    /\ slot[s].pc \in Reported \cup {"lost"}
    /\ Becomes(s, Idle)
    /\ UNCHANGED <<rows, objects, original>>

\* What an attempt does by itself, faults aside.
Progress(s) ==
    \/ LoadVideo(s)      \/ ReadJob(s)       \/ InsertJob(s)     \/ ClaimJob(s)
    \/ ExtractMetadata(s) \/ UploadAsset(s)  \/ FinishUploads(s) \/ ReadAssets(s)
    \/ FlushAndCount(s)  \/ CompleteJob(s)   \/ FailJob(s)

\* What may go wrong in it.
Misfortune(s) ==
    \/ WorkFails(s) \/ DatabaseError(s) \/ LostAcknowledgement(s) \/ LoseAttempt(s)

-------------------------------------------------------------------------------
Busy(j) == \E s \in Slots : slot[s].job = j

Claims ==
    jobs["metadata"].attempts + jobs["thumbnail"].attempts + jobs["transcode"].attempts

\* The environment of JobsSpec: any activity at any time, again and again, the
\* transcode with the height metadata has stored.  Attempts of one job overlap
\* only if the server may overrun.
StartAny(s, j) ==
    /\ Claims < MaxClaims
    /\ Busy(j) => "overrun" \in Faults
    /\ j = "transcode" => video.height # None
    /\ BeginAttempt(s, j, IF j = "transcode" THEN video.height ELSE None)

JobsInit ==
    /\ video \in [status : {"absent", "pending_upload"}, height : {None}]
    /\ jobs = [j \in JobTypes |-> NoRow]
    /\ assets = {}
    /\ objects = {}
    /\ original \in Heights
    /\ slot = [s \in Slots |-> Idle]

JobsNext ==
    \E s \in Slots :
        \/ Progress(s)
        \/ Misfortune(s)
        \/ EndAttempt(s)
        \/ \E j \in JobTypes : StartAny(s, j)

JobsSpec == JobsInit /\ [][JobsNext]_jobVars

-------------------------------------------------------------------------------
\* Every variable keeps its type: no attempt computes with a missing value.
JobsTypeOK ==
    /\ video \in [status : VideoStatuses, height : Heights \cup {None}]
    /\ jobs \in [JobTypes -> JobRow]
    /\ assets \in SUBSET AssetTypes
    /\ objects \in SUBSET AssetTypes
    /\ original \in Heights
    /\ slot \in [Slots -> Attempt]

\* What the job should leave in the database is there.
ResultStored(j) ==
    /\ j = "metadata" => video.height = original
    /\ AssetsOf(j, original) \subseteq assets

\* A job row reads "completed" only while everything the job produces is stored:
\* the completion and its results are one commit, and no later attempt, overlapping,
\* retried or cut short, takes the results back (complete_*_job, _upsert_asset).
CompletedJobHasResults ==
    \A j \in JobTypes : jobs[j].status = "completed" => ResultStored(j)

\* A video reads "completed" only when every result of every job is stored, though
\* the count was taken before the commit and other attempts may have failed or
\* reclaimed their jobs since (_all_jobs_completed).
FinishedVideoIsWhole ==
    video.status = "completed" => \A j \in JobTypes : ResultStored(j)

\* An asset row never names an object that is not in the bucket: a download link
\* always leads somewhere, whatever attempt wrote the row (upload before upsert).
AssetRowsHaveObjects == assets \subseteq objects

\* No rendition is recorded that the original is not tall enough for, whichever
\* attempt supplied the height (_stored_metadata, renditions_for_source_height).
NoSurplusAssets ==
    assets \subseteq {"thumbnail"} \cup RenditionsFor(original)

\* The video reads "completed" only while every job does: an attempt of one job
\* that fails or starts late never leaves another's verdict standing.  Attempts of
\* one job that overlap break this.
FinishedVideoHasFinishedJobs ==
    video.status = "completed" => \A j \in JobTypes : jobs[j].status = "completed"

\* A completed job is never claimed or failed again (claim_job returns None for
\* it), and a completed video never leaves that status ("Don't regress an
\* already-completed video").
CompletedIsFinal ==
    [][/\ \A j \in JobTypes : jobs[j].status = "completed" => jobs'[j].status = "completed"
       /\ video.status = "completed" => video'.status = "completed"]_jobVars

\* attempts counts every claim exactly once, though it is computed from a copy
\* read a step earlier, and nothing else changes it ("`attempts` keeps
\* incrementing").
ClaimsAreCounted ==
    [][\A j \in JobTypes :
          jobs'[j].attempts = jobs[j].attempts +
             (IF \E s \in Slots : At(s, "claim") /\ slot[s].job = j /\ ClaimRows(s)
              THEN 1 ELSE 0)]_jobVars
===============================================================================
