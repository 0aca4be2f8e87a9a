----------------------------- MODULE VideoPipeline -----------------------------
(***************************************************************************)
(* The whole path of one video: the API that creates its row and retries   *)
(* it (api/services/video_service.py), the upload, the queue and the shim  *)
(* of SqsShim, and the workflow of VideoWorkflow that the shim starts.     *)
(*                                                                         *)
(* The shim's view of Temporal is the state of VideoWorkflow's execution.  *)
(***************************************************************************)
EXTENDS VideoWorkflow, Sequences

CONSTANTS
    Requests,           \* retry requests the API may be serving at once
    Messages,           \* bound: messages ever sent, uploads and retries
    MaxReceiveCount,
    QueueFaults

ASSUME MessagesAssumption == IsFiniteSet(Messages)
ASSUME ReceiveCountAssumption == MaxReceiveCount \in Nat \ {0}

VARIABLES
    upload,     \* "none", "granted" (the URL was handed out) or "stored"
    request,    \* per retry request: where it is, and what it found
    queue, body, shim, handler  \* as in SqsShim

ThisVideo == "video"

Shim == INSTANCE SqsShim WITH
    Videos <- {ThisVideo},
    Stray <- "stray",
    Garbage <- "garbage",
    Bodies <- {<<ThisVideo>>},
    BatchSize <- 10,
    executions <- [v \in {ThisVideo} |-> execution]

apiVars == <<upload, request>>
queueVars == <<queue, body, shim, handler>>
pipelineVars == <<vars, apiVars, queueVars>>

\* send     found the video failed, about to publish
\* commit   published, about to set the status
\* done     answered with success
\* message is what it published; runs and open tell of the execution it found.
NoRequest == [pc |-> "idle", message |-> None, runs |-> 0, open |-> FALSE]

-------------------------------------------------------------------------------
\* create_video: the row is committed after the URL is signed, so a failure leaves
\* at most a row whose URL nobody holds.
CreateVideo ==
    /\ video.status = "absent"
    /\ video' = [video EXCEPT !.status = "pending_upload"]
    /\ upload' \in {"none", "granted"}
    /\ UNCHANGED <<jobs, assets, objects, original, slot, flow, request, queueVars>>

\* The client puts the file; S3 notifies the queue.  More notifications of the
\* same upload are NotifyAgain.
StoreUpload(m) ==
    /\ upload = "granted"
    /\ upload' = "stored"
    /\ UNCHANGED <<vars, request>>
    /\ Shim!Publish(m, <<ThisVideo>>)

NotifyAgain(m) ==
    /\ upload = "stored"
    /\ UNCHANGED <<vars, apiVars>>
    /\ Shim!Publish(m, <<ThisVideo>>)

\* The URL stays valid for UPLOAD_URL_EXPIRES_SECONDS: whoever holds it can put
\* another file, of any height, at any point of the processing.
ReplaceUpload(h, m) ==
    /\ upload = "stored"
    /\ original' = h
    /\ UNCHANGED <<video, jobs, assets, objects, slot, flow, apiVars>>
    /\ Shim!Publish(m, <<ThisVideo>>)

\* retry_video: the guard is evaluated on the row as it is read.
RetryRead(r) ==
    /\ request[r].pc = "idle"
    /\ video.status = "failed"
    /\ request' = [request EXCEPT ![r] =
          [pc |-> "send", message |-> None, runs |-> runs, open |-> execution = "running"]]
    /\ UNCHANGED <<vars, upload, queueVars>>

RetrySend(r, m) ==
    /\ request[r].pc = "send"
    /\ request' = [request EXCEPT ![r].pc = "commit", ![r].message = m]
    /\ UNCHANGED <<vars, upload>>
    /\ Shim!Publish(m, <<ThisVideo>>)

\* Mutant of RetryCommit: the jobs are reset along with the video.
RetryCommitResetsJobs(r) ==
    /\ request[r].pc = "commit"
    /\ video' = [video EXCEPT !.status = "processing"]
    /\ jobs' = [j \in JobTypes |-> [jobs[j] EXCEPT !.status =
                   IF @ = "absent" THEN @ ELSE "pending"]]
    /\ request' = [request EXCEPT ![r].pc = "done"]
    /\ UNCHANGED <<assets, objects, original, slot, flow, upload, queueVars>>

\* The UPDATE sets the status of the row whatever it is by now.
RetryCommit(r) ==
    /\ request[r].pc = "commit"
    /\ video' = [video EXCEPT !.status = "processing"]
    /\ request' = [request EXCEPT ![r].pc = "done"]
    /\ UNCHANGED <<jobs, assets, objects, original, slot, flow, upload, queueVars>>

\* send_message or the commit fails: the client sees a server error.
RetryFails(r) ==
    /\ request[r].pc \in {"send", "commit"}
    /\ request' = [request EXCEPT ![r] = NoRequest]
    /\ UNCHANGED <<vars, upload, queueVars>>

-------------------------------------------------------------------------------
\* A handler's step; where it starts the workflow, Temporal runs it.
HandleMessage(m) ==
    /\ StartWorkflow \/ UNCHANGED vars
    /\ UNCHANGED apiVars
    /\ Shim!Handle(m)

StartWorkflowFails(m) ==
    /\ StartWorkflow \/ UNCHANGED vars
    /\ UNCHANGED apiVars
    /\ Shim!StartFails(m)

QueueMoves(m) == UNCHANGED <<vars, apiVars>> /\ Shim!QueueStep(m)

ShimLoops == UNCHANGED <<vars, apiVars>> /\ (Shim!Poll \/ Shim!EndBatch \/ Shim!Restart)

ShimFails ==
    /\ UNCHANGED <<vars, apiVars>>
    /\ \/ Shim!Crash
       \/ \E m \in Messages : Shim!LookupFails(m) \/ Shim!DeleteFails(m)

PipelineInit ==
    /\ WorkflowInit
    /\ video.status = "absent"
    /\ upload = "none"
    /\ request = [r \in Requests |-> NoRequest]
    /\ queue = [m \in Messages |-> [state |-> "unsent", receives |-> 0]]
    /\ body = [m \in Messages |-> <<>>]
    /\ shim = "polling"
    /\ handler = [m \in Messages |-> Shim!NoTask]

PipelineNext ==
    \/ CreateVideo
    \/ \E m \in Messages :
          \/ StoreUpload(m)
          \/ NotifyAgain(m)
          \/ \E h \in Heights : ReplaceUpload(h, m)
          \/ HandleMessage(m)
          \/ StartWorkflowFails(m)
          \/ QueueMoves(m)
    \/ \E r \in Requests :
          \/ RetryRead(r)
          \/ \E m \in Messages : RetrySend(r, m)
          \/ RetryCommit(r)
          \/ RetryFails(r)
    \/ ShimLoops
    \/ ShimFails
    \/ ExecutionNext /\ UNCHANGED <<apiVars, queueVars>>

PipelineSafety == PipelineInit /\ [][PipelineNext]_pipelineVars

\* The fairness of the parts.  The client need not upload, nobody need retry.
PipelineSpec ==
    /\ PipelineSafety
    /\ ExecutionFairness
    /\ WF_pipelineVars(ShimLoops)
    /\ \A m \in Messages :
          WF_pipelineVars(HandleMessage(m)) /\ WF_pipelineVars(QueueMoves(m))

\* A completed job is left alone by everything that follows it: duplicates of the
\* notification, redeliveries, retries of the video and the executions they start
\* re-run only the incomplete jobs (claim_job, the reuse policy of the shim).
OnlyIncompleteJobsRerun ==
    [][\A j \in JobTypes : jobs[j].status = "completed" => jobs'[j] = jobs[j]]_pipelineVars

\* A delivered video is never processed again, by whichever message: its execution
\* stays the last one and no attempt starts.
DeliveredIsNotReprocessed ==
    [][execution = "completed" =>
          /\ execution' = "completed"
          /\ UNCHANGED <<slot, assets, objects>>]_pipelineVars

\* A retry of a video whose execution has closed gets an execution of its own or
\* shares one started since: its message is acknowledged for no less.
RetryOfClosedRestarts ==
    \A r \in Requests :
        /\ request[r].pc \in {"commit", "done"}
        /\ ~request[r].open
        /\ queue[request[r].message].state = "deleted"
        => runs > request[r].runs

\* The renditions recorded are those of the height recorded, and a video that reads
\* completed has all of them and its thumbnail, though the client may put another file at
\* any time, between the metadata and the transcode or between an execution and its
\* retry: a finished metadata job is answered from the row, not from the file
\* (_stored_metadata).
RenditionsMatchRecord ==
    /\ \A r \in assets \cap Previews :
          video.height # None /\ RenditionHeight[r] < video.height
    /\ video.status = "completed" => assets = {"thumbnail"} \cup RenditionsFor(video.height)

\* Under retries, redeliveries and replaced uploads the video still goes through the
\* life VideoLifecycle describes, but for the status that retry_video writes at any
\* time: this is the worker side that ApiServer takes for granted.
ImplementsRetriedLifecycle == Lifecycle!RetriedSpec

\* An upload is processed to an end: the notification, the shim and the workflow
\* lose nothing on the way when the queue works.
UploadIsProcessed == upload = "stored" ~> execution \in {"completed", "failed"}
===============================================================================
