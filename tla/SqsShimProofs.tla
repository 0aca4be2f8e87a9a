----------------------------- MODULE SqsShimProofs -----------------------------
(***************************************************************************)
(* Proofs about SqsShim: its types, and that no message is deleted before  *)
(* the workflow of every video it names has been started.                  *)
(***************************************************************************)
EXTENDS SqsShim, TLAPS

\* A key asks for nothing more: it names no video, or one whose workflow exists.
Begun(key) == key \in Videos => executions[key] # "none"

\* ... and so do the first n records of m.
BegunUpTo(m, n) == \A i \in 1 .. Len(body[m]) : i =< n => Begun(body[m][i])

\* A handler has dealt with every record before the one it is at, and deletes only
\* after the last; a deleted message has none left.
HandlerOK(m) ==
    /\ Unfinished(m) =>
          /\ queue[m].state # "unsent"
          /\ handler[m].record >= 1
          /\ BegunUpTo(m, handler[m].record - 1)
    /\ handler[m].pc = "start" => handler[m].record \in 1 .. Len(body[m]) /\ Key(m) \in Videos
    /\ handler[m].pc = "delete" => handler[m].record > Len(body[m])

DeletedOK(m) == queue[m].state = "deleted" => BegunUpTo(m, Len(body[m]))

ShimInv ==
    /\ ShimTypeOK
    /\ \A m \in Messages : HandlerOK(m) /\ DeletedOK(m)

-------------------------------------------------------------------------------
\* A body is a sequence.
LEMMA BodyIsSequence ==
    ASSUME ShimTypeOK, NEW m \in Messages
    PROVE  /\ Len(body[m]) \in Nat
           /\ DOMAIN body[m] = 1 .. Len(body[m])
<1>1. <<>> \in Seq(Videos \cup {Stray, Garbage})
  OBVIOUS
<1>2. body[m] \in Seq(Videos \cup {Stray, Garbage})
  <2>1. body[m] \in Bodies \cup {<<>>}
    BY DEF ShimTypeOK
  <2> QED
    BY <1>1, <2>1, BodiesAssumption
<1> QED
  BY <1>2

\* Nothing is sent and nothing handled at first.
LEMMA ShimInitOK == ShimInit => ShimInv
<1> SUFFICES ASSUME ShimInit PROVE ShimInv
  OBVIOUS
<1>1. ShimTypeOK
  BY ReceiveAssumption DEF ShimInit, ShimTypeOK, MessageStates, TaskStates, NoTask
<1>2. \A m \in Messages : HandlerOK(m) /\ DeletedOK(m)
  BY DEF ShimInit, HandlerOK, DeletedOK, Unfinished, NoTask
<1> QED
  BY <1>1, <1>2 DEF ShimInv

QueueType == [Messages -> [state : MessageStates, receives : 0 .. MaxReceiveCount]]

HandlerType == [Messages -> [pc : TaskStates, record : Nat]]

\* One message moves to another place.
LEMMA QueueMove ==
    ASSUME queue \in QueueType, NEW m \in Messages, NEW state \in MessageStates
    PROVE  [queue EXCEPT ![m].state = state] \in QueueType
BY DEF QueueType

\* One handler goes on with its record, or with the next.
LEMMA HandlerMove ==
    ASSUME handler \in HandlerType, NEW m \in Messages,
           NextRecord(m) \/ \E pc \in TaskStates : Step(m, pc)
    PROVE  handler' \in HandlerType
<1>1. CASE NextRecord(m)
  <2>1. handler[m].record + 1 \in Nat
    BY DEF HandlerType
  <2>2. [pc |-> "resolve", record |-> handler[m].record + 1] \in [pc : TaskStates, record : Nat]
    BY <2>1 DEF TaskStates
  <2> QED
    BY <1>1, <2>2 DEF NextRecord, HandlerType
<1>2. ASSUME NEW pc \in TaskStates, Step(m, pc) PROVE handler' \in HandlerType
  BY <1>2 DEF Step, HandlerType
<1> QED
  BY <1>1, <1>2

\* The types are kept by every step: one case per action.
LEMMA ShimTypeStep ==
    ASSUME ShimTypeOK, [ShimNext]_shimVars
    PROVE  ShimTypeOK'
<1> DEFINE Executions == {"none", "running", "completed", "failed"}
<1>0. /\ queue \in QueueType
      /\ body \in [Messages -> Bodies \cup {<<>>}]
      /\ shim \in {"polling", "handling", "down"}
      /\ handler \in HandlerType
      /\ executions \in [Videos -> Executions]
  BY DEF ShimTypeOK, QueueType, HandlerType
<1> SUFFICES /\ queue' \in QueueType
             /\ body' \in [Messages -> Bodies \cup {<<>>}]
             /\ shim' \in {"polling", "handling", "down"}
             /\ handler' \in HandlerType
             /\ executions' \in [Videos -> Executions]
  BY DEF ShimTypeOK, QueueType, HandlerType
<1> DEFINE Goal == /\ queue' \in QueueType
                   /\ body' \in [Messages -> Bodies \cup {<<>>}]
                   /\ shim' \in {"polling", "handling", "down"}
                   /\ handler' \in HandlerType
                   /\ executions' \in [Videos -> Executions]
<1>a. [m \in Messages |-> NoTask] \in HandlerType
  BY DEF HandlerType, NoTask, TaskStates
<1>b. /\ {"visible", "dead", "deleted"} \subseteq MessageStates
      /\ {"resolve", "start", "delete", "done"} \subseteq TaskStates
  BY DEF MessageStates, TaskStates
<1>1. ASSUME NEW m \in Messages, NEW b \in Bodies, Publish(m, b) PROVE Goal
  BY <1>0, <1>1, <1>b, QueueMove DEF Publish
<1>2. ASSUME NEW batch \in SUBSET Messages, Receive(batch) PROVE Goal
  <2>1. \A m \in batch : queue[m].receives + 1 \in 0 .. MaxReceiveCount
    BY <1>0, <1>2, ReceiveAssumption DEF Receive, Receivable, QueueType
  <2>2. queue' \in QueueType
    BY <1>0, <1>2, <2>1 DEF Receive, QueueType, MessageStates
  <2>3. handler' \in HandlerType
    BY <1>2 DEF Receive, NoTask, HandlerType, TaskStates
  <2> QED
    BY <1>0, <1>2, <2>2, <2>3 DEF Receive
<1>3. ASSUME NEW m \in Messages, QueueStep(m) PROVE Goal
  BY <1>0, <1>3, <1>b, QueueMove DEF QueueStep, Redeliver, DeadLetter
<1>4. ASSUME NEW m \in Messages, Resolve(m) PROVE Goal
  BY <1>0, <1>4, <1>b, HandlerMove DEF Resolve, queueVars
<1>5. ASSUME NEW m \in Messages, Start(m) \/ StartFails(m) PROVE Goal
  <2>1. executions' \in [Videos -> Executions]
    BY <1>0, <1>5 DEF Start, StartFails, Accepted
  <2>2. handler' \in HandlerType
    BY <1>0, <1>5, <1>b, HandlerMove DEF Start, StartFails
  <2> QED
    BY <1>0, <1>5, <2>1, <2>2 DEF Start, StartFails, queueVars
<1>6. ASSUME NEW m \in Messages, Delete(m) PROVE Goal
  BY <1>0, <1>6, <1>b, HandlerMove, QueueMove DEF Delete
<1>7. ASSUME NEW m \in Messages, LookupFails(m) PROVE Goal
  BY <1>0, <1>7, <1>b, HandlerMove DEF LookupFails, queueVars
<1>8. ASSUME NEW m \in Messages, DeleteFails(m) PROVE Goal
  BY <1>0, <1>8, <1>a, <1>b, QueueMove DEF DeleteFails, Down
<1>9. CASE EndBatch \/ Crash \/ Restart
  BY <1>0, <1>9, <1>a DEF EndBatch, Crash, Restart, Down, queueVars
<1>10. ASSUME NEW v \in Videos, NEW o \in {"completed", "failed"}, Close(v, o) PROVE Goal
  BY <1>0, <1>10 DEF Close, queueVars
<1>11. CASE UNCHANGED shimVars
  BY <1>0, <1>11 DEF shimVars
<1> QED
  BY <1>1, <1>2, <1>3, <1>4, <1>5, <1>6, <1>7, <1>8, <1>9, <1>10, <1>11
     DEF ShimNext, Poll, Fault, Handle

\* No step takes an execution back to "none".
Persist == \A v \in Videos : executions[v] # "none" => executions'[v] # "none"

\* What was begun stays begun while the body stays.
LEMMA BegunPersists ==
    ASSUME Persist, NEW m \in Messages, NEW n, body'[m] = body[m], BegunUpTo(m, n)
    PROVE  BegunUpTo(m, n)'
BY DEF Persist, BegunUpTo, Begun

\* Starting only adds executions, and closing one does not remove it.
LEMMA PersistStep ==
    ASSUME ShimTypeOK, [ShimNext]_shimVars
    PROVE  Persist
<1>0. executions \in [Videos -> {"none", "running", "completed", "failed"}]
  BY DEF ShimTypeOK
<1>1. ASSUME NEW v, executions' = [executions EXCEPT ![v] = "running"] PROVE Persist
  BY <1>0, <1>1 DEF Persist
<1>2. ASSUME NEW v \in Videos, NEW o \in {"completed", "failed"}, Close(v, o) PROVE Persist
  BY <1>0, <1>2 DEF Close, Persist
<1>3. CASE UNCHANGED executions
  BY <1>3 DEF Persist
<1>4. ASSUME NEW m \in Messages, Start(m) \/ StartFails(m) PROVE Persist
  BY <1>1, <1>3, <1>4 DEF Start, StartFails, Accepted
<1> QED
  BY <1>2, <1>3, <1>4 DEF ShimNext, Poll, Fault, Handle, shimVars, Receive, EndBatch,
     Restart, Crash, LookupFails, DeleteFails, Resolve, Delete, QueueStep, Redeliver,
     DeadLetter, Publish

\* A message whose handler a step leaves alone stays in order, wherever SQS puts it.
LEMMA OtherMessage ==
    ASSUME Persist, NEW m \in Messages, HandlerOK(m), DeletedOK(m),
           body'[m] = body[m], handler'[m] = handler[m],
           queue'[m].state \in {queue[m].state, "visible", "dead"}
    PROVE  (HandlerOK(m) /\ DeletedOK(m))'
<1>1. \A n : BegunUpTo(m, n) => BegunUpTo(m, n)'
  BY BegunPersists
<1>2. (Unfinished(m) <=> Unfinished(m)') /\ Key(m)' = Key(m)
  BY DEF Unfinished, Key
<1> QED
  BY <1>1, <1>2 DEF HandlerOK, DeletedOK

\* ... and so does one whose handler is gone, or has returned without deleting it.
LEMMA IdleMessage ==
    ASSUME Persist, NEW m \in Messages, DeletedOK(m), body'[m] = body[m],
           handler'[m].pc \in {"none", "done"}, queue'[m].state = queue[m].state
    PROVE  (HandlerOK(m) /\ DeletedOK(m))'
<1>1. BegunUpTo(m, Len(body[m])) => BegunUpTo(m, Len(body[m]))'
  BY BegunPersists
<1> QED
  BY <1>1 DEF HandlerOK, DeletedOK, Unfinished

\* What a handler has dealt with when it is past its last record is everything.
LEMMA AllBegun ==
    ASSUME ShimTypeOK, NEW m \in Messages, HandlerOK(m), handler[m].pc = "delete"
    PROVE  BegunUpTo(m, Len(body[m]))
<1>1. Len(body[m]) \in Nat /\ handler[m].record \in Nat
  BY BodyIsSequence DEF ShimTypeOK
<1>2. BegunUpTo(m, handler[m].record - 1) /\ handler[m].record > Len(body[m])
  BY DEF HandlerOK, Unfinished
<1> QED
  BY <1>1, <1>2 DEF BegunUpTo

\* A record is passed once its key asks for nothing more.
LEMMA RecordPassed ==
    ASSUME ShimInv, Persist, NEW m \in Messages, Unfinished(m), NextRecord(m),
           UNCHANGED queueVars,
           MoreRecords(m), Key(m) \in Videos => executions'[Key(m)] # "none"
    PROVE  (HandlerOK(m) /\ DeletedOK(m))'
<1>1. Len(body[m]) \in Nat /\ handler[m].record \in Nat /\ handler \in HandlerType
  BY BodyIsSequence DEF ShimInv, ShimTypeOK, HandlerType
<1>2. HandlerOK(m) /\ DeletedOK(m)
  BY DEF ShimInv
<1>3. handler'[m] = [pc |-> "resolve", record |-> handler[m].record + 1]
  BY <1>1 DEF NextRecord, HandlerType
<1>4. body'[m] = body[m] /\ queue'[m] = queue[m]
  BY DEF queueVars
<1>5. PICK r \in Nat : r = handler[m].record
  BY <1>1
<1>6. BegunUpTo(m, r - 1)'
  BY <1>2, <1>4, <1>5, BegunPersists DEF HandlerOK
<1>7. \A i \in 1 .. Len(body[m]) : i =< r => (body[m][i] \in Videos => executions'[body[m][i]] # "none")
  BY <1>1, <1>4, <1>5, <1>6 DEF BegunUpTo, Begun, Key
<1>8. BegunUpTo(m, r)'
  BY <1>4, <1>7 DEF BegunUpTo, Begun
<1>9. BegunUpTo(m, Len(body[m])) => BegunUpTo(m, Len(body[m]))'
  BY <1>4, BegunPersists
<1>10. HandlerOK(m)'
  BY <1>1, <1>2, <1>3, <1>4, <1>5, <1>8 DEF HandlerOK, Unfinished
<1> QED
  BY <1>2, <1>4, <1>9, <1>10 DEF DeletedOK

\* The handlers and the deleted messages stay in order: one case per action.
LEMMA OrderStep ==
    ASSUME ShimInv, [ShimNext]_shimVars
    PROVE  (\A k \in Messages : HandlerOK(k) /\ DeletedOK(k))'
<1> SUFFICES ASSUME NEW k \in Messages PROVE (HandlerOK(k) /\ DeletedOK(k))'
  OBVIOUS
<1> DEFINE Good == (HandlerOK(k) /\ DeletedOK(k))'
<1>0. /\ queue \in QueueType
      /\ body \in [Messages -> Bodies \cup {<<>>}]
      /\ handler \in HandlerType
      /\ Persist
      /\ HandlerOK(k) /\ DeletedOK(k)
      /\ ShimTypeOK
  BY PersistStep DEF ShimInv, ShimTypeOK, QueueType, HandlerType
<1>a. ASSUME body'[k] = body[k], handler'[k] = handler[k],
             queue'[k].state \in {queue[k].state, "visible", "dead"}
      PROVE  Good
  BY <1>0, <1>a, OtherMessage
<1>b. ASSUME body'[k] = body[k], handler'[k].pc \in {"none", "done"},
             queue'[k].state = queue[k].state
      PROVE  Good
  BY <1>0, <1>b, IdleMessage
<1>1. ASSUME NEW m \in Messages, NEW b \in Bodies, Publish(m, b) PROVE Good
  <2>1. CASE k = m
    <3>1. queue'[k].state = "visible" /\ handler' = handler
      BY <1>0, <1>1, <2>1 DEF Publish, QueueType
    <3>2. ~Unfinished(k)
      BY <1>0, <1>1, <2>1 DEF Publish, HandlerOK
    <3> QED
      BY <3>1, <3>2 DEF HandlerOK, DeletedOK, Unfinished
  <2>2. CASE k # m
    BY <1>0, <1>1, <1>a, <2>2 DEF Publish, QueueType
  <2> QED
    BY <2>1, <2>2
<1>2. ASSUME NEW batch \in SUBSET Messages, Receive(batch) PROVE Good
  <2>1. CASE k \in batch
    <3>1. handler'[k] = [pc |-> "resolve", record |-> 1] /\ queue'[k].state = "hidden"
      BY <1>2, <2>1 DEF Receive
    <3> QED
      BY <3>1 DEF HandlerOK, DeletedOK, Unfinished, BegunUpTo
  <2>2. CASE k \notin batch
    BY <1>2, <1>b, <2>2 DEF Receive, NoTask
  <2> QED
    BY <2>1, <2>2
<1>3. ASSUME NEW m \in Messages, QueueStep(m) PROVE Good
  BY <1>0, <1>3, <1>a DEF QueueStep, Redeliver, DeadLetter, QueueType
<1>4. ASSUME NEW m \in Messages, Resolve(m) PROVE Good
  <2>1. CASE k # m
    BY <1>0, <1>4, <1>a, <2>1 DEF Resolve, Step, NextRecord, queueVars, HandlerType
  <2>2. CASE k = m /\ NextRecord(k) /\ MoreRecords(k) /\ Key(k) = Stray
    BY <1>0, <1>4, <2>2, RecordPassed, KeysAssumption DEF Resolve, Unfinished
  <2>3. CASE k = m /\ Step(k, "done")
    BY <1>0, <1>4, <1>b, <2>3 DEF Resolve, Step, queueVars, HandlerType
  <2>4. CASE k = m /\ \/ ~MoreRecords(k) /\ Step(k, "delete")
                      \/ MoreRecords(k) /\ Key(k) \in Videos /\ Step(k, "start")
    <3>1. Len(body[k]) \in Nat /\ handler[k].record \in Nat
      BY <1>0, BodyIsSequence DEF HandlerType
    <3>2. /\ handler'[k].record = handler[k].record
          /\ body' = body /\ queue' = queue
          /\ handler'[k].pc \in {"delete", "start"}
          /\ handler'[k].pc = "delete" => ~MoreRecords(k)
          /\ handler'[k].pc = "start" => MoreRecords(k) /\ Key(k) \in Videos
      BY <1>0, <1>4, <2>4 DEF Resolve, Step, queueVars, HandlerType
    <3>3. \A n : BegunUpTo(k, n) => BegunUpTo(k, n)'
      BY <1>0, <3>2, BegunPersists
    <3>4. Unfinished(k)
      BY <1>4, <2>4 DEF Resolve, Unfinished
    <3>5. Key(k)' = Key(k)
      BY <3>2 DEF Key
    <3> QED
      BY <1>0, <3>1, <3>2, <3>3, <3>4, <3>5 DEF HandlerOK, DeletedOK, MoreRecords
  <2> QED
    BY <1>4, <2>1, <2>2, <2>3, <2>4 DEF Resolve
<1>5. ASSUME NEW m \in Messages, Start(m) PROVE Good
  <2>1. CASE k # m
    BY <1>0, <1>5, <1>a, <2>1 DEF Start, NextRecord, queueVars, HandlerType
  <2>2. CASE k = m
    <3>1. MoreRecords(k) /\ Unfinished(k)
      BY <1>0, <1>5, <2>2, BodyIsSequence DEF Start, HandlerOK, Unfinished, MoreRecords
    <3>2. Key(k) \in Videos => executions'[Key(k)] # "none"
      BY <1>0, <1>5, <2>2 DEF Start, Accepted, Startable, ShimTypeOK
    <3> QED
      BY <1>0, <1>5, <2>2, <3>1, <3>2, RecordPassed DEF Start
  <2> QED
    BY <2>1, <2>2
<1>6. ASSUME NEW m \in Messages, StartFails(m) \/ LookupFails(m) PROVE Good
  <2>1. /\ queue' = queue /\ body' = body
        /\ handler' = [handler EXCEPT ![m].pc = "done"]
    BY <1>6 DEF StartFails, LookupFails, Step, queueVars
  <2>2. CASE k # m
    BY <1>0, <1>a, <2>1, <2>2 DEF HandlerType
  <2>3. CASE k = m
    BY <1>0, <1>b, <2>1, <2>3 DEF HandlerType
  <2> QED
    BY <2>2, <2>3
<1>7. ASSUME NEW m \in Messages, handler[m].pc = "delete",
             queue' \in {queue, [queue EXCEPT ![m].state = "deleted"]}, body' = body,
             k # m => handler'[k] = handler[k] \/ handler'[k].pc = "none",
             k = m => handler'[k].pc \in {"none", "done"}
      PROVE  Good
  <2>1. CASE k # m
    BY <1>0, <1>7, <1>a, <1>b, <2>1 DEF QueueType
  <2>2. CASE k = m
    <3>1. BegunUpTo(k, Len(body[k]))'
      BY <1>0, <1>7, <2>2, AllBegun, BegunPersists
    <3> QED
      BY <1>7, <2>2, <3>1 DEF HandlerOK, DeletedOK, Unfinished
  <2> QED
    BY <2>1, <2>2
<1>8. ASSUME NEW m \in Messages, Delete(m) PROVE Good
  BY <1>0, <1>7, <1>8 DEF Delete, Step, HandlerType
<1>9. ASSUME NEW m \in Messages, DeleteFails(m) PROVE Good
  BY <1>0, <1>7, <1>9 DEF DeleteFails, Down, NoTask
<1>10. CASE EndBatch \/ Crash
  BY <1>b, <1>10 DEF EndBatch, Crash, Down, NoTask, queueVars
<1>11. CASE UNCHANGED <<queue, body, handler>>
  BY <1>a, <1>11
<1> QED
  BY <1>1, <1>2, <1>3, <1>4, <1>5, <1>6, <1>8, <1>9, <1>10, <1>11
     DEF ShimNext, Poll, Fault, Handle, Restart, Close, queueVars, shimVars

\* Every behaviour of the shim keeps the invariant, with any messages, bodies, batch
\* size and faults.
LEMMA ShimInvariant == ShimSafety => []ShimInv
<1>1. ASSUME ShimInv, [ShimNext]_shimVars PROVE ShimInv'
  BY <1>1, ShimTypeStep, OrderStep DEF ShimInv
<1> QED
  BY <1>1, ShimInitOK, PTL DEF ShimSafety

\* Every variable keeps its type, and no message is received more often than the
\* redrive policy allows (platform_stack.py, run).
THEOREM ShimTypeCorrect == ShimSafety => []ShimTypeOK
<1>1. ShimInv => ShimTypeOK
  BY DEF ShimInv
<1> QED
  BY <1>1, ShimInvariant, PTL

\* A message is deleted only after the workflow of every video it names has been
\* started, whatever faults strike between its records (process_message, _handle).
THEOREM NothingDeletedUnstarted == ShimSafety => []DeletedMeansStarted
<1>1. ShimInv => DeletedMeansStarted
  <2> SUFFICES ASSUME ShimInv, NEW m \in Messages, queue[m].state = "deleted",
                      NEW v \in NamedIn(m)
               PROVE  executions[v] # "none"
    BY DEF DeletedMeansStarted
  <2>1. PICK i \in 1 .. Len(body[m]) : v = body[m][i] /\ v \in Videos
    BY BodyIsSequence DEF NamedIn, ShimInv
  <2>2. BegunUpTo(m, Len(body[m])) /\ i =< Len(body[m])
    BY BodyIsSequence DEF ShimInv, DeletedOK
  <2> QED
    BY <2>1, <2>2 DEF BegunUpTo, Begun
<1> QED
  BY <1>1, ShimInvariant, PTL

-------------------------------------------------------------------------------
\* Outside a batch there is no handler.
BatchInv == shim # "handling" => \A m \in Messages : handler[m] = NoTask

\* Only a poll starts handlers, and the shim polls or goes down only without any.
LEMMA BatchStep ==
    ASSUME ShimTypeOK, BatchInv, [ShimNext]_shimVars
    PROVE  BatchInv'
<1>1. ASSUME NEW m \in Messages, Unfinished(m), UNCHANGED shim
      PROVE  BatchInv'
  BY <1>1 DEF BatchInv, Unfinished, NoTask
<1>2. ASSUME NEW m \in Messages, Handle(m) \/ LookupFails(m) \/ StartFails(m)
      PROVE  BatchInv'
  BY <1>1, <1>2 DEF Handle, Resolve, Start, Delete, LookupFails, StartFails, Unfinished
<1>3. ASSUME UNCHANGED <<shim, handler>>
      PROVE  BatchInv'
  BY <1>3 DEF BatchInv
<1>4. CASE \E m \in Messages : QueueStep(m) \/ \E b \in Bodies : Publish(m, b)
  BY <1>3, <1>4 DEF QueueStep, Redeliver, DeadLetter, Publish
<1>5. CASE \E v \in Videos, outcome \in {"completed", "failed"} : Close(v, outcome)
  BY <1>3, <1>5 DEF Close
<1>6. CASE Poll
  BY <1>6 DEF Poll, Receive, BatchInv
<1>7. CASE EndBatch \/ Crash \/ \E m \in Messages : DeleteFails(m)
  BY <1>7 DEF EndBatch, Crash, DeleteFails, Down, BatchInv
<1>8. CASE Restart
  BY <1>8 DEF Restart, BatchInv
<1>9. CASE UNCHANGED shimVars
  BY <1>3, <1>9 DEF shimVars
<1> QED
  BY <1>2, <1>4, <1>5, <1>6, <1>7, <1>8, <1>9 DEF ShimNext, Fault

\* A receive is the only step that counts one.
LEMMA OnlyPollReceives ==
    ASSUME ShimTypeOK, [ShimNext]_shimVars, ~Poll, NEW m \in Messages
    PROVE  queue'[m].receives = queue[m].receives
<1>0. queue \in QueueType
  BY DEF ShimTypeOK, QueueType
<1>1. ASSUME NEW k \in Messages, NEW state, queue' = [queue EXCEPT ![k].state = state]
      PROVE  queue'[m].receives = queue[m].receives
  <2>1. CASE k = m
    <3>1. queue'[m] = [queue[m] EXCEPT !.state = state]
      BY <1>0, <1>1, <2>1 DEF QueueType
    <3> QED
      BY <1>0, <3>1 DEF QueueType
  <2>2. CASE k # m
    BY <1>0, <1>1, <2>2 DEF QueueType
  <2> QED
    BY <2>1, <2>2
<1>2. UNCHANGED queue \/ \E k \in Messages : \E state : queue' = [queue EXCEPT ![k].state = state]
  BY DEF ShimNext, shimVars, queueVars, Fault, EndBatch, Restart, Crash, LookupFails, StartFails,
         DeleteFails, Handle, Resolve, Start, Delete, QueueStep, Redeliver, DeadLetter, Publish,
         Close
<1> QED
  BY <1>1, <1>2

\* No message is handled by two handlers: the next receive of it comes after its
\* handler has ended, however often its visibility timeout has passed (run polls only
\* when the gather of its batch has returned).
THEOREM MessagesHaveOneHandler == ShimSafety => OneHandlerPerMessage
<1>1. ShimInit => BatchInv
  BY DEF ShimInit, BatchInv
<1>2. ShimInv /\ BatchInv /\ [ShimNext]_shimVars => BatchInv'
  BY BatchStep DEF ShimInv
<1>3. ASSUME ShimInv, BatchInv, [ShimNext]_shimVars
      PROVE  [\A m \in Messages :
                 queue'[m].receives > queue[m].receives => ~Unfinished(m)]_shimVars
  <2> SUFFICES ASSUME NEW m \in Messages, queue'[m].receives > queue[m].receives
               PROVE  ~Unfinished(m)
    OBVIOUS
  <2>1. queue[m].receives \in Nat
    BY <1>3, ReceiveAssumption DEF ShimInv, ShimTypeOK
  <2>2. Poll
    BY <1>3, <2>1, OnlyPollReceives DEF ShimInv
  <2> QED
    BY <1>3, <2>2 DEF Poll, Receive, BatchInv, Unfinished, NoTask
<1> QED
  BY <1>1, <1>2, <1>3, ShimInvariant, PTL DEF ShimSafety, OneHandlerPerMessage
===============================================================================
