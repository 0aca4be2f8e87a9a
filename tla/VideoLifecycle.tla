----------------------------- MODULE VideoLifecycle -----------------------------
(***************************************************************************)
(* What the platform promises of one video, without workers, sessions or   *)
(* messages: its status, the job types whose results are stored and the    *)
(* state of its workflow.  VideoWorkflow implements it as long as attempts *)
(* of one activity do not overlap; ApiServer takes it for the worker side  *)
(* of the rows it serves.                                                  *)
(***************************************************************************)
CONSTANT JobTypes

ASSUME TranscodeAssumption == "transcode" \in JobTypes

VARIABLES
    status,     \* videos.status
    finished,   \* the job types with a completed row
    execution   \* the workflow execution of the video

lifecycle == <<status, finished, execution>>

-------------------------------------------------------------------------------
\* The API inserts the row.
Create ==
    /\ status = "absent"
    /\ status' = "pending_upload"
    /\ UNCHANGED <<finished, execution>>

\* ALLOW_DUPLICATE_FAILED_ONLY: only a failed execution is followed by another.
Start ==
    /\ execution \in {"none", "failed"}
    /\ execution' = "running"
    /\ UNCHANGED <<status, finished>>

\* claim_job of a job that is not completed.
Claim ==
    /\ execution = "running"
    /\ status # "absent"
    /\ finished # JobTypes
    /\ status' = "processing"
    /\ UNCHANGED <<finished, execution>>

\* complete_*_job: the transcode is scheduled behind the others, so it is the one
\* that completes the video.
Finish(j) ==
    /\ execution = "running"
    /\ status # "absent"
    /\ j \notin finished
    /\ j = "transcode" => finished = JobTypes \ {j}
    /\ finished' = finished \cup {j}
    /\ status' = IF finished' = JobTypes THEN "completed" ELSE status
    /\ UNCHANGED execution

\* fail_job of a job that is not completed.
Fail ==
    /\ execution = "running"
    /\ status # "absent"
    /\ finished # JobTypes
    /\ status' = "failed"
    /\ UNCHANGED <<finished, execution>>

\* The workflow returns, or raises with whatever its activities have left.
Close ==
    /\ execution = "running"
    /\ \/ /\ finished = JobTypes
          /\ execution' = "completed"
       \/ execution' = "failed"
    /\ UNCHANGED <<status, finished>>

\* retry_video: published, then committed over whatever the status is by now.
Retry ==
    /\ status # "absent"
    /\ status' = "processing"
    /\ UNCHANGED <<finished, execution>>

WorkerNext == Claim \/ (\E j \in JobTypes : Finish(j)) \/ Fail \/ Close

LifecycleInit ==
    /\ status \in {"absent", "pending_upload"}
    /\ finished = {}
    /\ execution = "none"

LifecycleNext == Create \/ Start \/ WorkerNext

LifecycleSpec == LifecycleInit /\ [][LifecycleNext]_lifecycle

RetriedSpec == LifecycleInit /\ [][LifecycleNext \/ Retry]_lifecycle

-------------------------------------------------------------------------------
\* A delivered video has everything, under retries too: the status may be taken back,
\* the results never.
CompletedIsFinished ==
    (status = "completed" \/ execution = "completed") => finished = JobTypes
===============================================================================
