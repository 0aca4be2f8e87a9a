----------------------------- MODULE TemporalWorker -----------------------------
(***************************************************************************)
(* The process that runs the activities (worker/temporal_worker.py): its   *)
(* slots, its connection pool, the ffmpeg processes it starts and its end. *)
(*                                                                         *)
(* What attempts do to the rows is VideoJobs; here an attempt is what it   *)
(* occupies while it does so.  VideoJobs' LoseAttempt is Cancel, Kill and  *)
(* Stop of this module seen from the database.                             *)
(***************************************************************************)
EXTENDS ConnectionPool

CONSTANT Slots      \* max_concurrent_activities of them

\* Every attempt opens a session of its own.
ASSUME SlotsAssumption == Slots \subseteq Sessions

VARIABLES
    process,    \* "up", "stopping" (signalled), "expired" (grace is over), "down"
    attempt,    \* what each slot is at
    children    \* the slots with an ffmpeg or ffprobe process

workerVars == <<process, attempt, children, holding>>

\* load     waits for a connection to load the video
\* loading  ... has it, and may claim the job with it
\* claim    waits for one again, having committed a new job row
\* claiming ... has it
\* work     S3 transfers and ffmpeg, the claim is committed
\* save     waits for a connection to complete the job
\* saving   ... has it
\* mark     waits for a connection to fail the job
\* marking  ... has it
\* reap     cancelled, has killed its child and waits for it
\* end      returned or raised, its session not yet closed
Phases == {"idle", "load", "loading", "claim", "claiming", "work", "save", "saving",
           "mark", "marking", "reap", "end"}

\* error: it met an error of its own; cancelled: CancelledError was raised in it;
\* marked: it has set the job to "failed".
Attempts == [phase : Phases, error : BOOLEAN, cancelled : BOOLEAN, marked : BOOLEAN]

NoAttempt == [phase |-> "idle", error |-> FALSE, cancelled |-> FALSE, marked |-> FALSE]

-------------------------------------------------------------------------------
At(s, phase) == attempt[s].phase = phase

Goto(s, phase) == attempt' = [attempt EXCEPT ![s].phase = phase]

Raise(s, phase) == attempt' = [attempt EXCEPT ![s].phase = phase, ![s].error = TRUE]

\* A worker polls until it is told to stop.
Poll(s) ==
    /\ process = "up"
    /\ At(s, "idle")
    /\ Goto(s, "load")
    /\ UNCHANGED <<process, children, holding>>

Waits == [load |-> "loading", claim |-> "claiming", save |-> "saving", mark |-> "marking"]

Connect(s) ==
    /\ attempt[s].phase \in DOMAIN Waits
    /\ CheckOut(s)
    /\ Goto(s, Waits[attempt[s].phase])
    /\ UNCHANGED <<process, children>>

\* Outside the try the error ends the attempt; in it the job is marked first, which
\* needs a connection as well, unless it was a flush that met the timeout.
ConnectTimesOut(s) ==
    /\ attempt[s].phase \in DOMAIN Waits
    /\ PoolTimeout(s)
    /\ Raise(s, "end") \/ (At(s, "save") /\ Raise(s, "mark"))
    /\ UNCHANGED <<process, children>>

\* claim_job commits a new row before it claims it.
Insert(s) ==
    /\ At(s, "loading")
    /\ Goto(s, "claim")
    /\ Return(s)
    /\ UNCHANGED <<process, children>>

\* Mutant of Claim: the transaction stays open behind the encode.
ClaimHoldingConnection(s) ==
    /\ attempt[s].phase \in {"loading", "claiming"}
    /\ Goto(s, "work") \/ Goto(s, "end") \/ Raise(s, "end")
    /\ UNCHANGED <<process, children, holding>>

\* claim_job ends with a commit: the connection is back in the pool before the
\* download, or before the unusable height is marked.  A completed job, a missing row
\* or an error ends the attempt here.
Claim(s) ==
    /\ attempt[s].phase \in {"loading", "claiming"}
    /\ \/ /\ Goto(s, "work") \/ Raise(s, "mark")
          /\ Return(s)
       \/ /\ Goto(s, "end") \/ Raise(s, "end")
          /\ UNCHANGED holding
    /\ UNCHANGED <<process, children>>

\* create_subprocess_exec.
Spawn(s) ==
    /\ At(s, "work")
    /\ s \notin children
    /\ children' = children \cup {s}
    /\ UNCHANGED <<process, attempt, holding>>

\* communicate returns: the next rendition, the results, or RuntimeError.
ChildExits(s) ==
    /\ At(s, "work")
    /\ s \in children
    /\ children' = children \ {s}
    /\ UNCHANGED attempt \/ Goto(s, "save") \/ Raise(s, "mark")
    /\ UNCHANGED <<process, holding>>

\* A transfer fails, or there is nothing to encode.
TransferEnds(s) ==
    /\ At(s, "work")
    /\ s \notin children
    /\ Goto(s, "save") \/ Raise(s, "mark")
    /\ UNCHANGED <<process, children, holding>>

\* complete_*_job's statements and commit.  After a failed one fail_job raises in the
\* same session before it asks for a connection.
Save(s) ==
    /\ At(s, "saving")
    /\ Goto(s, "end") \/ Raise(s, "end")
    /\ UNCHANGED <<process, children, holding>>

\* fail_job's commit, which may fail.
Mark(s) ==
    /\ At(s, "marking")
    /\ \E done \in BOOLEAN :
          attempt' = [attempt EXCEPT ![s].phase = "end", ![s].marked = done]
    /\ UNCHANGED <<process, children, holding>>

\* The session is closed (shielded from cancellation) and the slot reported.
EndAttempt(s) ==
    /\ At(s, "end")
    /\ attempt' = [attempt EXCEPT ![s] = NoAttempt]
    /\ Return(s)
    /\ UNCHANGED <<process, children>>

-------------------------------------------------------------------------------
\* SIGTERM or SIGINT sets the event; the worker stops polling.
Signal ==
    /\ process = "up"
    /\ process' = "stopping"
    /\ UNCHANGED <<attempt, children, holding>>

\* Mutant of GraceExpires: the worker waits for its attempts without a limit.
GraceIsEndless ==
    /\ FALSE
    /\ UNCHANGED workerVars

\* graceful_shutdown_timeout passes with attempts still running.
GraceExpires ==
    /\ process = "stopping"
    /\ \E s \in Slots : ~At(s, "idle")
    /\ process' = "expired"
    /\ UNCHANGED <<attempt, children, holding>>

Cancellable(s) ==
    /\ process = "expired"
    /\ ~attempt[s].cancelled
    /\ attempt[s].phase \notin {"idle", "end"}

\* Mutants of Cancel: the child is left to itself; the handlers catch BaseException.
CancelWithoutKill(s) ==
    /\ Cancellable(s)
    /\ attempt' = [attempt EXCEPT ![s].phase = "end", ![s].cancelled = TRUE]
    /\ UNCHANGED <<process, children, holding>>

CancelCaughtByHandler(s) ==
    /\ Cancellable(s)
    /\ attempt' = [attempt EXCEPT ![s].cancelled = TRUE,
          ![s].phase = IF s \in children THEN "reap"
                       ELSE IF @ \in {"work", "save"} THEN "mark" ELSE "end"]
    /\ UNCHANGED <<process, children, holding>>

\* CancelledError passes `except Exception`; where a child runs it is killed and
\* waited for first.
Cancel(s) ==
    /\ Cancellable(s)
    /\ attempt' = [attempt EXCEPT ![s].cancelled = TRUE,
                                  ![s].phase = IF s \in children THEN "reap" ELSE "end"]
    /\ UNCHANGED <<process, children, holding>>

\* process.wait returns.
Reap(s) ==
    /\ At(s, "reap")
    /\ children' = children \ {s}
    /\ Goto(s, "end")
    /\ UNCHANGED <<process, holding>>

\* `async with Worker` is left once every attempt has ended.
Exit ==
    /\ process \in {"stopping", "expired"}
    /\ \A s \in Slots : At(s, "idle")
    /\ process' = "down"
    /\ UNCHANGED <<attempt, children, holding>>

\* The container is killed: by Docker ten seconds after the signal, which is before
\* the grace period ends, or by the kernel at any time.  Its processes go with it.
Kill ==
    /\ process # "down"
    /\ process' = "down"
    /\ attempt' = [s \in Slots |-> NoAttempt]
    /\ children' = {}
    /\ holding' = {}

\* `restart: on-failure`, or the next `docker compose up`.
Restart ==
    /\ process = "down"
    /\ process' = "up"
    /\ UNCHANGED <<attempt, children, holding>>

-------------------------------------------------------------------------------
\* What the event loop does for an attempt.  ffmpeg is no part of it: it may hang.
Step(s) ==
    \/ Connect(s) \/ ConnectTimesOut(s) \/ Insert(s) \/ Claim(s) \/ Save(s) \/ Mark(s)
    \/ EndAttempt(s) \/ Reap(s)

WorkerInit ==
    /\ process = "up"
    /\ attempt = [s \in Slots |-> NoAttempt]
    /\ children = {}
    /\ PoolInit

WorkerNext ==
    \/ \E s \in Slots :
          Step(s) \/ Cancel(s) \/ Poll(s) \/ Spawn(s) \/ ChildExits(s) \/ TransferEnds(s)
    \/ Signal \/ GraceExpires \/ Exit \/ Kill \/ Restart

\* The loop runs on and the clock passes.  Nothing promises that a child exits, that
\* the process is signalled, killed or started.
WorkerSpec ==
    /\ WorkerInit
    /\ [][WorkerNext]_workerVars
    /\ \A s \in Slots : WF_workerVars(Step(s)) /\ WF_workerVars(Cancel(s))
    /\ WF_workerVars(GraceExpires)
    /\ WF_workerVars(Exit)

-------------------------------------------------------------------------------
\* Every variable keeps its type, and the pool stays within its size.
WorkerTypeOK ==
    /\ process \in {"up", "stopping", "expired", "down"}
    /\ attempt \in [Slots -> Attempts]
    /\ children \in SUBSET Slots
    /\ WithinCapacity

\* A connection is held through statements only, never through a transfer, an encode
\* or a wait for another connection: whatever the ratio of slots to connections, the
\* attempts cannot wait for each other.  The comments that size the pool (settings.py,
\* docker-compose.yaml) claim the opposite, that an activity holds a connection for its
\* full duration; that is the mutant ClaimHoldingConnection.
NoWaitWithConnection ==
    \A s \in holding :
        attempt[s].phase \in {"loading", "claiming", "saving", "marking", "end"}

\* No child outlives the attempt that started it ("must not leave the child behind").
NoOrphans ==
    \A s \in children : attempt[s].phase \in {"work", "reap"}

\* A job is marked failed only by an attempt that failed: one that a shutdown cut short
\* is "a job still due to run".
CancelledIsNotFailed ==
    \A s \in Slots : attempt[s].marked => attempt[s].error

\* A worker told to stop stops, though a child may hang: the grace period ends, the
\* child is killed.
ShutdownEnds == process = "stopping" ~> process = "down"
===============================================================================
