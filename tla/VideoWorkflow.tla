----------------------------- MODULE VideoWorkflow -----------------------------
(***************************************************************************)
(* The workflow of one video (worker/workflows.py) on the Temporal server: *)
(* what it schedules, how its activities are retried and how it closes.    *)
(* The attempts themselves are those of VideoJobs.                         *)
(*                                                                         *)
(* Backoff and timeouts have no clock here: a retry is dispatched at any   *)
(* later moment, a lost attempt is timed out at any later moment.          *)
(***************************************************************************)
EXTENDS VideoJobs

CONSTANTS
    MaximumAttempts,    \* _RETRY_POLICY.maximum_attempts
    MaxRuns             \* bound: how often the workflow is started

ASSUME MaximumAttemptsAssumption == MaximumAttempts \in Nat \ {0}

VARIABLES
    execution,  \* the latest execution of this workflow ID
    runs,       \* how many executions there have been
    activity,   \* where the server stands with each activity of the execution
    result,     \* the height metadata has returned to the workflow
    stale       \* slots whose attempt the server has given up on

flow == <<execution, runs, activity, result, stale>>
vars == <<jobVars, flow>>

Unscheduled == [state |-> "unscheduled", attempt |-> 0]
Scheduled   == [state |-> "scheduled", attempt |-> 0]

Settled(j) == activity[j].state \in {"succeeded", "failed"}

\* The server accepts no report for an attempt it has given up on.
Heard(s) == s \notin stale

-------------------------------------------------------------------------------
\* start_workflow with ALLOW_DUPLICATE_FAILED_ONLY and conflict policy FAIL: an open
\* or a completed execution refuses, a failed one is followed by a fresh one, whose
\* gather schedules two activities.
StartWorkflow ==
    /\ execution \in {"none", "failed"}
    /\ runs < MaxRuns
    /\ execution' = "running"
    /\ runs' = runs + 1
    /\ activity' = [j \in JobTypes |-> IF j = "transcode" THEN Unscheduled ELSE Scheduled]
    /\ result' = None
    /\ UNCHANGED <<jobVars, stale>>

\* A worker with a free slot polls the task.
Dispatch(s, j) ==
    /\ activity[j].state = "scheduled"
    /\ BeginAttempt(s, j, IF j = "transcode" THEN result ELSE None)
    /\ activity' = [activity EXCEPT ![j] = [state |-> "started", attempt |-> @.attempt + 1]]
    /\ UNCHANGED <<execution, runs, result, stale>>

\* Mutant of Retry: the first attempt is not counted.
RetryOnceMore(j, retryable) ==
    activity' = [activity EXCEPT ![j].state =
                   IF retryable /\ activity[j].attempt =< MaximumAttempts
                   THEN "scheduled" ELSE "failed"]

\* The retry policy, applied to a failed attempt.
Retry(j, retryable) ==
    activity' = [activity EXCEPT ![j].state =
                   IF retryable /\ activity[j].attempt < MaximumAttempts
                   THEN "scheduled" ELSE "failed"]

ReportSuccess(s) ==
    LET j == slot[s].job IN
    /\ At(s, "returned")
    /\ Heard(s)
    /\ activity' = [activity EXCEPT ![j].state = "succeeded"]
    /\ result' = IF j = "metadata" THEN slot[s].height ELSE result
    /\ EndAttempt(s)
    /\ UNCHANGED <<execution, runs, stale>>

\* Mutant of ReportFailure: no timeout, so a lost attempt is never noticed.
ReportFailureWithoutTimeout(s) ==
    /\ slot[s].pc \in {"raised", "refused"}
    /\ Heard(s)
    /\ Retry(slot[s].job, ~At(s, "refused"))
    /\ EndAttempt(s)
    /\ UNCHANGED <<execution, runs, result, stale>>

\* ApplicationError(non_retryable=True) skips the budget, any other exception and
\* a timeout or cancellation use it up.
ReportFailure(s) ==
    /\ slot[s].pc \in {"raised", "refused", "lost"}
    /\ Heard(s)
    /\ Retry(slot[s].job, ~At(s, "refused"))
    /\ EndAttempt(s)
    /\ UNCHANGED <<execution, runs, result, stale>>

\* start_to_close_timeout passes while the attempt still runs, in a worker that
\* has not noticed: the server retries it beside the old one.
Overrun(s) ==
    /\ "overrun" \in Faults
    /\ slot[s].pc \in Running \cup Reported
    /\ Heard(s)
    /\ stale' = stale \cup {s}
    /\ Retry(slot[s].job, TRUE)
    /\ UNCHANGED <<jobVars, execution, runs, result>>

\* The report of an attempt given up on is ignored.
IgnoreReport(s) ==
    /\ ~Heard(s)
    /\ EndAttempt(s)
    /\ stale' = stale \ {s}
    /\ UNCHANGED <<execution, runs, activity, result>>

\* Mutant of ScheduleTranscode: the thumbnail's result is not looked at.
ScheduleBesideFailure ==
    /\ execution = "running"
    /\ activity["metadata"].state = "succeeded"
    /\ Settled("thumbnail")
    /\ activity["transcode"].state = "unscheduled"
    /\ activity' = [activity EXCEPT !["transcode"] = Scheduled]
    /\ UNCHANGED <<jobVars, execution, runs, result, stale>>

\* Both results of the gather are in and neither is an exception.
ScheduleTranscode ==
    /\ execution = "running"
    /\ activity["metadata"].state = "succeeded"
    /\ activity["thumbnail"].state = "succeeded"
    /\ activity["transcode"].state = "unscheduled"
    /\ activity' = [activity EXCEPT !["transcode"] = Scheduled]
    /\ UNCHANGED <<jobVars, execution, runs, result, stale>>

\* Mutant of CloseFailed: gather without return_exceptions.
CloseOnFirstFailure ==
    /\ execution = "running"
    /\ \E j \in JobTypes : activity[j].state = "failed"
    /\ execution' = "failed"
    /\ UNCHANGED <<jobVars, runs, activity, result, stale>>

\* return_exceptions=True: both activities settle before either's error is raised.
CloseFailed ==
    /\ execution = "running"
    /\ Settled("metadata")
    /\ Settled("thumbnail")
    /\ \E j \in JobTypes : activity[j].state = "failed"
    /\ execution' = "failed"
    /\ UNCHANGED <<jobVars, runs, activity, result, stale>>

\* Mutant of CloseCompleted: the transcode is started but not awaited.
CloseWithoutTranscode ==
    /\ execution = "running"
    /\ activity["transcode"].state = "started"
    /\ execution' = "completed"
    /\ UNCHANGED <<jobVars, runs, activity, result, stale>>

\* The transcode's result is in.
CloseCompleted ==
    /\ execution = "running"
    /\ activity["transcode"].state = "succeeded"
    /\ execution' = "completed"
    /\ UNCHANGED <<jobVars, runs, activity, result, stale>>

-------------------------------------------------------------------------------
\* Whatever a slot does without the server.
WorkerStep(s) == Progress(s) /\ UNCHANGED flow

Report(s) == ReportSuccess(s) \/ ReportFailure(s) \/ IgnoreReport(s)

WorkflowTask == ScheduleTranscode \/ CloseFailed \/ CloseCompleted

WorkflowInit ==
    /\ JobsInit
    /\ execution = "none"
    /\ runs = 0
    /\ activity = [j \in JobTypes |-> Unscheduled]
    /\ result = None
    /\ stale = {}

\* What becomes of an execution once it is started.
ExecutionNext ==
    \/ WorkflowTask
    \/ \E s \in Slots :
          \/ WorkerStep(s)
          \/ Misfortune(s) /\ UNCHANGED flow
          \/ Report(s)
          \/ Overrun(s)
          \/ \E j \in JobTypes : Dispatch(s, j)

WorkflowNext == StartWorkflow \/ ExecutionNext

WorkflowSafety == WorkflowInit /\ [][WorkflowNext]_vars

\* A worker that runs an attempt goes on with it, the server learns of its end or
\* times it out, workers poll, and the server hands out workflow tasks.  Nothing
\* promises that a workflow is started, nor that anything goes wrong.
ExecutionFairness ==
    /\ \A s \in Slots : WF_vars(WorkerStep(s)) /\ WF_vars(Report(s))
    /\ \A j \in JobTypes : WF_vars(\E s \in Slots : Dispatch(s, j))
    /\ WF_vars(WorkflowTask)

WorkflowSpec == WorkflowSafety /\ ExecutionFairness

-------------------------------------------------------------------------------
ActivityStates == {"unscheduled", "scheduled", "started", "succeeded", "failed"}

\* Every variable keeps its type, and no activity is tried more often than its
\* policy allows.
WorkflowTypeOK ==
    /\ JobsTypeOK
    /\ execution \in {"none", "running", "completed", "failed"}
    /\ runs \in Nat
    /\ activity \in [JobTypes -> [state : ActivityStates, attempt : 0 .. MaximumAttempts]]
    /\ result \in Heights \cup {None}
    /\ stale \in SUBSET Slots

\* The transcode runs only beside two finished siblings, with the height of the
\* original, after any number of retries and restarts.
TranscodeComesLast ==
    \A s \in Slots : slot[s].job = "transcode" =>
        /\ slot[s].sourceHeight \in {original, None}
        /\ jobs["metadata"].status = "completed"
        /\ jobs["thumbnail"].status = "completed"

\* A closed execution has left no attempt behind that still writes: the next one
\* starts alone.
ClosedExecutionIsQuiet ==
    execution # "running" => \A s \in Slots : At(s, "idle")

\* No job is claimed more often than the budgets of its executions allow.
ClaimsStayInBudget ==
    \A j \in JobTypes : jobs[j].attempts =< runs * MaximumAttempts

\* A completed metadata job has its columns set, so a retry whose report was lost is
\* answered from the row and never refused for good (_stored_metadata): as long as
\* attempts do not overlap, only a missing row refuses.
MetadataIsAnswered ==
    \A s \in Slots :
        At(s, "refused") /\ slot[s].job = "metadata" => video.status = "absent"

Lifecycle == INSTANCE VideoLifecycle WITH
    status <- video.status,
    finished <- {j \in JobTypes : jobs[j].status = "completed"}

\* Whatever is retried, lost or fails, a video goes through the life VideoLifecycle
\* describes: no completed job is undone, the status completes with the last one, and
\* neither changes outside a running execution.
ImplementsLifecycle == Lifecycle!LifecycleSpec

\* What the documents say of a failed execution: `video.status` still flips to
\* "failed".
FailedExecutionShows ==
    execution = "failed" /\ video.status # "absent" => video.status = "failed"
===============================================================================
