-------------------------------- MODULE SqsShim --------------------------------
(***************************************************************************)
(* The processing queue and its one consumer, worker/sqs_shim.py: each     *)
(* message names the videos whose workflow is to be started.               *)
(*                                                                         *)
(* The queue delivers at least once: a received message is hidden for the  *)
(* visibility timeout, comes back unless it was deleted, and goes to the   *)
(* dead-letter queue once it has been received max_receive_count times     *)
(* (platform_stack.py).  The shim takes a batch, runs one handler per      *)
(* message, interleaved by asyncio.gather, and polls again when all have   *)
(* ended.  Temporal is reduced to the state of each video's latest         *)
(* execution; VideoPipeline puts the real one in its place.                *)
(***************************************************************************)
EXTENDS Naturals, Sequences, FiniteSets

CONSTANTS
    Videos,         \* videos with a row, whose key an event can name
    Stray,          \* a key that names no video, or not by its upload key
    Garbage,        \* a body that does not parse
    Messages,       \* bound: the messages ever sent
    Bodies,         \* what a message can hold: sequences of the above
    BatchSize,      \* MaxNumberOfMessages
    MaxReceiveCount,
    QueueFaults     \* the faults that may strike, a subset of QueueFaultKinds

\* "db_error"      the lookup of the video fails
\* "rpc_error"     start_workflow fails, whether or not it took effect
\* "delete_error"  delete_message fails, whether or not it took effect
\* "crash"         the shim's process dies
QueueFaultKinds == {"db_error", "rpc_error", "delete_error", "crash"}

ASSUME QueueFaultsAssumption == QueueFaults \subseteq QueueFaultKinds
ASSUME KeysAssumption == Stray \notin Videos
ASSUME BodiesAssumption == Bodies \subseteq Seq(Videos \cup {Stray, Garbage})
ASSUME ReceiveAssumption == MaxReceiveCount \in Nat \ {0} /\ BatchSize \in Nat \ {0}

VARIABLES
    queue,      \* per message: where it is, and how often it was received
    body,       \* per message: what it holds
    shim,       \* "polling", "handling" a batch, or "down"
    handler,    \* per message: its task in the batch, and the record it is at
    executions  \* per video: its latest workflow execution

queueVars == <<queue, body>>
shimVars == <<queue, body, shim, handler, executions>>

NoTask == [pc |-> "none", record |-> 0]

\* resolve   about to look at its next record
\* start     about to call start_workflow
\* delete    about to delete the message
\* done      returned: deleted, or kept for redelivery
TaskStates == {"none", "resolve", "start", "delete", "done"}

Unfinished(m) == handler[m].pc \in {"resolve", "start", "delete"}

\* The record the handler of m is at, and the key it names.
Key(m) == body[m][handler[m].record]

MoreRecords(m) == handler[m].record =< Len(body[m])

-------------------------------------------------------------------------------
\* A message arrives: an S3 notification, or one retry_video sends.
Publish(m, b) ==
    /\ queue[m].state = "unsent"
    /\ queue' = [queue EXCEPT ![m].state = "visible"]
    /\ body' = [body EXCEPT ![m] = b]
    /\ UNCHANGED <<shim, handler, executions>>

\* Mutant of Receivable: one receive too many.
ReceivableOnceMore(m) == queue[m].state = "visible" /\ queue[m].receives =< MaxReceiveCount

\* What SQS may hand out; the rest is for the redrive policy.
Receivable(m) == queue[m].state = "visible" /\ queue[m].receives < MaxReceiveCount

\* receive_message: up to ten visible messages, each hidden from now on.
Receive(batch) ==
    /\ shim = "polling"
    /\ batch # {}
    /\ Cardinality(batch) =< BatchSize
    /\ \A m \in batch : Receivable(m)
    /\ shim' = "handling"
    /\ queue' = [m \in Messages |->
          IF m \in batch THEN [state |-> "hidden", receives |-> queue[m].receives + 1]
                         ELSE queue[m]]
    /\ handler' = [m \in Messages |->
          IF m \in batch THEN [pc |-> "resolve", record |-> 1] ELSE NoTask]
    /\ UNCHANGED <<body, executions>>

\* The visibility timeout of a received message passes, its handler done or not.
Redeliver(m) ==
    /\ queue[m].state = "hidden"
    /\ queue' = [queue EXCEPT ![m].state = "visible"]
    /\ UNCHANGED <<body, shim, handler, executions>>

\* Mutant of DeadLetter: a receive count that is never reached.
DeadLetterTooLate(m) ==
    /\ queue[m].state = "visible"
    /\ queue[m].receives > MaxReceiveCount
    /\ queue' = [queue EXCEPT ![m].state = "dead"]
    /\ UNCHANGED <<body, shim, handler, executions>>

\* The redrive policy.
DeadLetter(m) ==
    /\ queue[m].state = "visible"
    /\ queue[m].receives >= MaxReceiveCount
    /\ queue' = [queue EXCEPT ![m].state = "dead"]
    /\ UNCHANGED <<body, shim, handler, executions>>

Step(m, pc) == handler' = [handler EXCEPT ![m].pc = pc]

NextRecord(m) ==
    handler' = [handler EXCEPT ![m] = [pc |-> "resolve", record |-> @.record + 1]]

\* parse_object_created_events and _resolve_video_id.  A record that can never be
\* valid is skipped; a body that does not parse raises, and the message is kept.
Resolve(m) ==
    /\ handler[m].pc = "resolve"
    /\ \/ /\ ~MoreRecords(m)
          /\ Step(m, "delete")
       \/ /\ MoreRecords(m)
          /\ Key(m) \in Videos
          /\ Step(m, "start")
       \/ /\ MoreRecords(m)
          /\ Key(m) = Stray
          /\ NextRecord(m)
       \/ /\ MoreRecords(m)
          /\ Key(m) = Garbage
          /\ Step(m, "done")
    /\ UNCHANGED <<queueVars, shim, executions>>

\* Mutant of Startable: a failed execution is final.
StartableOnce == {"none"}

\* ALLOW_DUPLICATE_FAILED_ONLY for closed executions, FAIL for open ones.
Startable == {"none", "failed"}

\* start_workflow takes effect.
Accepted(v) ==
    /\ executions[v] \in Startable
    /\ executions' = [executions EXCEPT ![v] = "running"]

\* WorkflowAlreadyStartedError is a duplicate, and no error.
Start(m) ==
    /\ handler[m].pc = "start"
    /\ \/ Accepted(Key(m))
       \/ executions[Key(m)] \notin Startable /\ UNCHANGED executions
    /\ NextRecord(m)
    /\ UNCHANGED <<queueVars, shim>>

\* delete_message, also for a message that has become visible meanwhile.
Delete(m) ==
    /\ handler[m].pc = "delete"
    /\ queue' = [queue EXCEPT ![m].state = "deleted"]
    /\ Step(m, "done")
    /\ UNCHANGED <<body, shim, executions>>

\* Mutant of EndBatch: the loop polls on without awaiting the gather.
EndBatchUnawaited ==
    /\ shim = "handling"
    /\ shim' = "polling"
    /\ UNCHANGED <<queueVars, handler, executions>>

\* The gather returns, the loop polls again.
EndBatch ==
    /\ shim = "handling"
    /\ \A m \in Messages : ~Unfinished(m)
    /\ shim' = "polling"
    /\ handler' = [m \in Messages |-> NoTask]
    /\ UNCHANGED <<queueVars, executions>>

-------------------------------------------------------------------------------
\* Mutant of LookupFails: a record that fails is passed over.
LookupFailsIsSkipped(m) ==
    /\ "db_error" \in QueueFaults
    /\ handler[m].pc = "resolve"
    /\ MoreRecords(m)
    /\ Key(m) \in Videos \cup {Stray}
    /\ NextRecord(m)
    /\ UNCHANGED <<queueVars, shim, executions>>

\* An exception inside process_message: logged, the message kept.
LookupFails(m) ==
    /\ "db_error" \in QueueFaults
    /\ handler[m].pc = "resolve"
    /\ MoreRecords(m)
    /\ Key(m) \in Videos \cup {Stray}
    /\ Step(m, "done")
    /\ UNCHANGED <<queueVars, shim, executions>>

StartFails(m) ==
    /\ "rpc_error" \in QueueFaults
    /\ handler[m].pc = "start"
    /\ Accepted(Key(m)) \/ UNCHANGED executions
    /\ Step(m, "done")
    /\ UNCHANGED <<queueVars, shim>>

\* The process is gone, and every handler with it.
Down ==
    /\ shim' = "down"
    /\ handler' = [m \in Messages |-> NoTask]

\* delete_message is outside the handler's try: its exception leaves the gather
\* and run(), and asyncio.run cancels the other handlers of the batch.
DeleteFails(m) ==
    /\ "delete_error" \in QueueFaults
    /\ handler[m].pc = "delete"
    /\ queue' \in {queue, [queue EXCEPT ![m].state = "deleted"]}
    /\ Down
    /\ UNCHANGED <<body, executions>>

\* The process dies.  Between two batches that loses nothing.
Crash ==
    /\ "crash" \in QueueFaults
    /\ shim = "handling"
    /\ Down
    /\ UNCHANGED <<queueVars, executions>>

\* restart: on-failure.
Restart ==
    /\ shim = "down"
    /\ shim' = "polling"
    /\ UNCHANGED <<queueVars, handler, executions>>

\* The workflow of v closes.
Close(v, outcome) ==
    /\ executions[v] = "running"
    /\ executions' = [executions EXCEPT ![v] = outcome]
    /\ UNCHANGED <<queueVars, shim, handler>>

-------------------------------------------------------------------------------
Handle(m) == Resolve(m) \/ Start(m) \/ Delete(m)

QueueStep(m) == Redeliver(m) \/ DeadLetter(m)

Poll == \E batch \in SUBSET Messages : Receive(batch)

Fault == Crash \/ \E m \in Messages : LookupFails(m) \/ StartFails(m) \/ DeleteFails(m)

ShimInit ==
    /\ queue = [m \in Messages |-> [state |-> "unsent", receives |-> 0]]
    /\ body = [m \in Messages |-> <<>>]
    /\ shim = "polling"
    /\ handler = [m \in Messages |-> NoTask]
    /\ executions = [v \in Videos |-> "none"]

ShimNext ==
    \/ Poll
    \/ EndBatch
    \/ Restart
    \/ Fault
    \/ \E m \in Messages :
          \/ Handle(m)
          \/ QueueStep(m)
          \/ \E b \in Bodies : Publish(m, b)
    \/ \E v \in Videos, outcome \in {"completed", "failed"} : Close(v, outcome)

ShimSafety == ShimInit /\ [][ShimNext]_shimVars

\* The event loop runs every handler, the shim polls and is restarted, SQS makes a
\* message visible again or gives it up.  Nothing promises that messages come, that
\* workflows close, or that a fault strikes.
ShimSpec ==
    /\ ShimSafety
    /\ WF_shimVars(Poll)
    /\ WF_shimVars(EndBatch)
    /\ WF_shimVars(Restart)
    /\ \A m \in Messages : WF_shimVars(Handle(m)) /\ WF_shimVars(QueueStep(m))

-------------------------------------------------------------------------------
MessageStates == {"unsent", "visible", "hidden", "deleted", "dead"}

\* Every variable keeps its type, and no message is received more often than the
\* redrive policy allows.
ShimTypeOK ==
    /\ queue \in [Messages -> [state : MessageStates, receives : 0 .. MaxReceiveCount]]
    /\ body \in [Messages -> Bodies \cup {<<>>}]
    /\ shim \in {"polling", "handling", "down"}
    /\ handler \in [Messages -> [pc : TaskStates, record : Nat]]
    /\ executions \in [Videos -> {"none", "running", "completed", "failed"}]

NamedIn(m) == {body[m][i] : i \in DOMAIN body[m]} \cap Videos

\* A message is deleted only when every video it names has had its workflow started:
\* whatever fails half-way through its records, the whole message comes back.
DeletedMeansStarted ==
    \A m \in Messages : queue[m].state = "deleted" =>
        \A v \in NamedIn(m) : executions[v] # "none"

\* A message is in one batch at a time: it is not received again while its handler
\* runs, however long that takes, because there is one shim and it polls only
\* between batches.
OneHandlerPerMessage ==
    [][\A m \in Messages : queue'[m].receives > queue[m].receives => ~Unfinished(m)]_shimVars

\* Every message that is sent is settled: deleted, or given up after its receives.
\* No failure of a handler or of the process leaves one pending for ever.
MessagesSettle ==
    \A m \in Messages : queue[m].state = "visible" ~> queue[m].state \in {"deleted", "dead"}
===============================================================================
