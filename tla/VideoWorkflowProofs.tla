-------------------------- MODULE VideoWorkflowProofs --------------------------
(***************************************************************************)
(* Theorems about VideoWorkflow, for every set of slots, heights and       *)
(* faults, every retry budget and any number of executions.                *)
(***************************************************************************)
EXTENDS VideoWorkflow, VideoJobsProofs, FiniteSetTheorems

-------------------------------------------------------------------------------
\* What a step may make of an attempt: b is the attempt that slot s holds after it.
\* One operator per kind of step, those of a fault beside those they cut short.

Cuts(b) ==
    /\ b.pc \in {"raised", "lost"}
    /\ UNCHANGED rows

Loads(s, b) ==
    /\ At(s, "load")
    /\ \/ b.pc = "refused" /\ video.status = "absent"
       \/ /\ b.pc = "read"
          /\ video.status # "absent"
          /\ b.status = video.status
          /\ b.height = video.height
    /\ UNCHANGED rows

Reads(s, b) ==
    LET a == slot[s] row == jobs[slot[s].job] IN
    /\ At(s, "read")
    /\ \/ /\ b.pc \in {"insert", "claim"}
          /\ b.pc = "claim" => b.row = row
          /\ b.status = a.status
          /\ row.status # "completed"
       \/ /\ b.pc = "refused"
          /\ row.status = "completed" /\ a.job = "metadata" /\ a.height = None
       \/ /\ b.pc = "returned"
          /\ row.status = "completed"
          /\ a.job = "metadata" => a.height # None /\ b.height = a.height
    /\ UNCHANGED rows

Inserts(s, b) ==
    /\ At(s, "insert")
    /\ b.pc = "raised" \/ (b.pc = "claim" /\ b.row = NewRow /\ b.status = slot[s].status)
    /\ InsertRow(s)

\* A copy of the video's status that reads "completed" did so before the claim.
ClaimsJob(s, b) ==
    /\ At(s, "claim")
    /\ \/ b.pc = "raised"
       \/ /\ b.pc = "work" \/ (b.pc = "reject" /\ slot[s].job = "transcode")
          /\ b.status = "completed" => slot[s].status = "completed"
    /\ ClaimRows(s)

Works(s, b) ==
    LET a == slot[s] IN
    /\ \/ At(s, "work") /\ a.job = "metadata" /\ b.pc = "flush" /\ b.height = original
       \/ At(s, "work") /\ a.job # "metadata" /\ b.pc \in {"work", "upsert"}
       \/ At(s, "upsert") /\ b.pc = "flush"
       \/ a.pc \in {"work", "upsert"} /\ b.pc = "fail"
    /\ b.status = a.status
    /\ UNCHANGED rows

Counts(s, b) ==
    /\ At(s, "flush")
    /\ b.pc = "commit"
    /\ b.status = slot[s].status
    /\ b.height = slot[s].height
    /\ b.allDone = AllJobsCompleted(slot[s].job)
    /\ UNCHANGED rows

Completes(s, b) ==
    /\ At(s, "commit")
    /\ \/ b.pc = "raised"
       \/ b.pc = "returned" /\ (slot[s].job = "metadata" => b.height = slot[s].height)
    /\ CompleteRows(s)

FailsJob(s, b) ==
    /\ slot[s].pc \in {"fail", "reject"}
    /\ b.pc = "raised" \/ (b.pc = "refused" /\ At(s, "reject"))
    /\ FailRows(s)

Moves(s, b) ==
    \/ Cuts(b)      \/ Loads(s, b)   \/ Reads(s, b)     \/ Inserts(s, b) \/ ClaimsJob(s, b)
    \/ Works(s, b)  \/ Counts(s, b)  \/ Completes(s, b) \/ FailsJob(s, b)

\* What it hands on: its job, its argument, assets of its job.
HandsOn(s, b) ==
    LET a == slot[s] IN
    /\ a.pc \notin {"idle", "lost"} /\ b.pc # "idle"
    /\ b.job = a.job
    /\ b.sourceHeight \in {a.sourceHeight, None}
    /\ b.pc \in Running => b.sourceHeight = a.sourceHeight
    /\ b.produced \subseteq a.produced \cup AssetsOf(a.job, a.sourceHeight)
    /\ b.fresh \subseteq a.fresh \cup a.produced

\* Every step of a running attempt is one of these: one case per action.
LEMMA AttemptMoves ==
    ASSUME TypeInv, NEW s \in Slots, Progress(s) \/ Misfortune(s)
    PROVE  /\ original' = original
           /\ \E b : Becomes(s, b) /\ HandsOn(s, b) /\ Moves(s, b)
<1> DEFINE a == slot[s]
           Goal == /\ original' = original
                   /\ \E b : Becomes(s, b) /\ HandsOn(s, b) /\ Moves(s, b)
<1>1. a \in Attempt /\ (a.pc # "idle" => a.job \in JobTypes)
  BY DEF TypeInv, JobsTypeOK, HasJob
<1>2. ASSUME NEW b, Becomes(s, b), HandsOn(s, b), Moves(s, b), UNCHANGED original
      PROVE  Goal
  BY <1>2
\* An attempt that ends hands on its job only.
<1>3. ASSUME NEW pc \in Reported \cup {"lost"}, NEW h, EndWith(s, pc, h), UNCHANGED original,
             a.pc \notin {"idle", "lost"},
             \A b : b.pc = pc /\ b.height = h /\ b.job = a.job => Moves(s, b)
      PROVE  Goal
  <2>1. PICK b : b = [Idle EXCEPT !.job = a.job, !.pc = pc, !.height = h]
    OBVIOUS
  <2>2. /\ b.pc = pc /\ b.height = h /\ b.job = a.job /\ b.sourceHeight = None
        /\ b.produced = {} /\ b.fresh = {}
    BY <2>1 DEF Idle
  <2>3. HandsOn(s, b)
    BY <1>3, <2>2 DEF HandsOn, Reported, Running
  <2>4. Becomes(s, b)
    BY <1>3, <2>1 DEF EndWith
  <2> QED
    BY <1>2, <1>3, <2>2, <2>3, <2>4
<1>4. ASSUME NEW pc \in Reported \cup {"lost"}, End(s, pc), UNCHANGED original,
             a.pc \notin {"idle", "lost"},
             \A b : b.pc = pc /\ b.height = None /\ b.job = a.job => Moves(s, b)
      PROVE  Goal
  BY <1>3, <1>4 DEF End
<1>5. ASSUME NEW pc \in Running, Goto(s, pc), UNCHANGED original, a.pc \notin {"idle", "lost"},
             \A b : b.pc = pc /\ b.status = a.status => Moves(s, b)
      PROVE  Goal
  <2>1. PICK b : b = [a EXCEPT !.pc = pc]
    OBVIOUS
  <2>2. /\ b.pc = pc /\ b.job = a.job /\ b.sourceHeight = a.sourceHeight
        /\ b.produced = a.produced /\ b.fresh = a.fresh /\ b.status = a.status
    BY <1>1, <2>1 DEF Attempt
  <2>3. HandsOn(s, b)
    BY <1>5, <2>2 DEF HandsOn, Running
  <2> QED
    BY <1>2, <1>5, <2>1, <2>2, <2>3 DEF Goto
<1> USE DEF At
<1>6. CASE LoadVideo(s)
  <2>1. CASE video.status = "absent" /\ End(s, "refused")
    BY <1>4, <1>6, <2>1 DEF LoadVideo, Moves, Loads, Reported
  <2>2. CASE /\ video.status # "absent"
             /\ Becomes(s, [a EXCEPT !.pc = "read", !.status = video.status,
                                     !.height = video.height])
    <3>1. PICK b : b = [a EXCEPT !.pc = "read", !.status = video.status, !.height = video.height]
      OBVIOUS
    <3>2. /\ b.pc = "read" /\ b.job = a.job /\ b.sourceHeight = a.sourceHeight
          /\ b.produced = a.produced /\ b.fresh = a.fresh
          /\ b.status = video.status /\ b.height = video.height
      BY <1>1, <3>1 DEF Attempt
    <3>3. HandsOn(s, b)
      BY <1>6, <3>2 DEF HandsOn, LoadVideo
    <3>4. Moves(s, b)
      BY <1>6, <2>2, <3>2 DEF LoadVideo, Moves, Loads
    <3> QED
      BY <1>2, <1>6, <2>2, <3>1, <3>3, <3>4 DEF LoadVideo
  <2> QED
    BY <1>6, <2>1, <2>2 DEF LoadVideo
<1>7. CASE ReadJob(s)
  <2>0. At(s, "read") /\ UNCHANGED rows /\ UNCHANGED original
    BY <1>7 DEF ReadJob
  <2>1. CASE jobs[a.job].status = "absent" /\ Goto(s, "insert")
    BY <1>5, <2>0, <2>1 DEF Moves, Reads, Running
  <2>2. CASE /\ jobs[a.job].status \notin {"absent", "completed"}
             /\ Becomes(s, [a EXCEPT !.pc = "claim", !.row = jobs[a.job]])
    <3>1. PICK b : b = [a EXCEPT !.pc = "claim", !.row = jobs[a.job]]
      OBVIOUS
    <3>2. /\ b.pc = "claim" /\ b.job = a.job /\ b.sourceHeight = a.sourceHeight
          /\ b.produced = a.produced /\ b.fresh = a.fresh
          /\ b.status = a.status /\ b.row = jobs[a.job]
      BY <1>1, <3>1 DEF Attempt
    <3>3. HandsOn(s, b)
      BY <2>0, <3>2 DEF HandsOn
    <3>4. Moves(s, b)
      BY <2>0, <2>2, <3>2 DEF Moves, Reads
    <3> QED
      BY <1>2, <2>0, <2>2, <3>1, <3>3, <3>4
  <2>3. CASE /\ jobs[a.job].status = "completed" /\ a.job = "metadata" /\ a.height = None
             /\ End(s, "refused")
    BY <1>4, <2>0, <2>3 DEF Moves, Reads, Reported
  <2>4. CASE /\ jobs[a.job].status = "completed" /\ a.job = "metadata" /\ a.height # None
             /\ EndWith(s, "returned", a.height)
    BY <1>3, <2>0, <2>4 DEF Moves, Reads, Reported
  <2>5. CASE /\ jobs[a.job].status = "completed" /\ a.job # "metadata" /\ End(s, "returned")
    BY <1>4, <2>0, <2>5 DEF Moves, Reads, Reported
  <2> QED
    BY <1>7, <2>1, <2>2, <2>3, <2>4, <2>5 DEF ReadJob
<1>8. CASE InsertJob(s)
  <2>1. CASE InsertRow(s) /\ Becomes(s, [a EXCEPT !.pc = "claim", !.row = NewRow])
    <3>1. PICK b : b = [a EXCEPT !.pc = "claim", !.row = NewRow]
      OBVIOUS
    <3>2. /\ b.pc = "claim" /\ b.job = a.job /\ b.sourceHeight = a.sourceHeight
          /\ b.produced = a.produced /\ b.fresh = a.fresh
          /\ b.status = a.status /\ b.row = NewRow
      BY <1>1, <3>1 DEF Attempt
    <3>3. HandsOn(s, b)
      BY <1>8, <3>2 DEF HandsOn, InsertJob
    <3>4. Moves(s, b)
      BY <1>8, <2>1, <3>2 DEF Moves, Inserts, InsertJob
    <3> QED
      BY <1>2, <1>8, <2>1, <3>1, <3>3, <3>4 DEF InsertJob
  <2>2. CASE End(s, "raised") /\ UNCHANGED rows
    BY <1>4, <1>8, <2>2 DEF InsertJob, Moves, Cuts, Reported
  <2> QED
    BY <1>8, <2>1, <2>2 DEF InsertJob
<1>9. CASE ClaimJob(s)
  <2> DEFINE pc == IF a.job = "transcode" /\ a.sourceHeight = 0 THEN "reject" ELSE "work"
             st == IF a.status = "completed" THEN "completed" ELSE "processing"
  <2>1. PICK b : b = [a EXCEPT !.pc = pc, !.status = st]
    OBVIOUS
  <2>2. /\ b.pc = pc /\ b.job = a.job /\ b.sourceHeight = a.sourceHeight
        /\ b.produced = a.produced /\ b.fresh = a.fresh /\ b.status = st
    BY <1>1, <2>1 DEF Attempt
  <2>3. HandsOn(s, b)
    BY <1>9, <2>2 DEF HandsOn, ClaimJob
  <2>4. Moves(s, b)
    BY <1>9, <2>2 DEF Moves, ClaimsJob, ClaimJob
  <2> QED
    BY <1>2, <1>9, <2>1, <2>3, <2>4 DEF ClaimJob
<1>10. CASE ExtractMetadata(s)
  <2>1. PICK b : b = [a EXCEPT !.pc = "flush", !.height = original]
    OBVIOUS
  <2>2. /\ b.pc = "flush" /\ b.job = a.job /\ b.sourceHeight = a.sourceHeight
        /\ b.produced = a.produced /\ b.fresh = a.fresh
        /\ b.status = a.status /\ b.height = original
    BY <1>1, <2>1 DEF Attempt
  <2>3. HandsOn(s, b)
    BY <1>10, <2>2 DEF HandsOn, ExtractMetadata
  <2>4. Moves(s, b)
    BY <1>10, <2>2 DEF Moves, Works, ExtractMetadata
  <2> QED
    BY <1>2, <1>10, <2>1, <2>3, <2>4 DEF ExtractMetadata
<1>11. CASE UploadAsset(s)
  <2> DEFINE todo == AssetsOf(a.job, a.sourceHeight) \ a.produced
             asset == IF a.job = "thumbnail" THEN "thumbnail" ELSE Tallest(todo)
  <2>0. a.pc = "work" /\ a.job \in JobTypes \ {"metadata"} /\ todo # {}
    BY <1>1, <1>11 DEF UploadAsset
  <2>1. asset \in AssetsOf(a.job, a.sourceHeight)
    BY <2>0, UploadedAsset
  <2>2. PICK b : b = [a EXCEPT !.produced = a.produced \cup {asset}]
    OBVIOUS
  <2>3. Becomes(s, b) /\ UNCHANGED <<rows, original>>
    BY <1>11, <2>2 DEF UploadAsset
  <2> HIDE DEF asset
  <2>4. /\ b.pc = "work" /\ b.job = a.job /\ b.sourceHeight = a.sourceHeight
        /\ b.produced = a.produced \cup {asset} /\ b.fresh = a.fresh /\ b.status = a.status
    BY <1>1, <2>0, <2>2 DEF Attempt
  <2>5. HandsOn(s, b)
    BY <2>0, <2>1, <2>4 DEF HandsOn
  <2>6. Moves(s, b)
    BY <2>0, <2>3, <2>4 DEF Moves, Works
  <2> QED
    BY <1>2, <2>3, <2>5, <2>6
<1>12. CASE FinishUploads(s)
  BY <1>5, <1>12 DEF FinishUploads, Moves, Works, Running
<1>13. CASE ReadAssets(s)
  <2>1. PICK b : b = [a EXCEPT !.pc = "flush", !.fresh = a.produced \ assets]
    OBVIOUS
  <2>2. /\ b.pc = "flush" /\ b.job = a.job /\ b.sourceHeight = a.sourceHeight
        /\ b.produced = a.produced /\ b.fresh \subseteq a.produced /\ b.status = a.status
    BY <1>1, <2>1 DEF Attempt
  <2>3. HandsOn(s, b)
    BY <1>13, <2>2 DEF HandsOn, ReadAssets
  <2>4. Moves(s, b)
    BY <1>13, <2>2 DEF Moves, Works, ReadAssets
  <2> QED
    BY <1>2, <1>13, <2>1, <2>3, <2>4 DEF ReadAssets
<1>14. CASE FlushAndCount(s)
  <2>1. CASE End(s, "raised")
    BY <1>4, <1>14, <2>1 DEF FlushAndCount, Moves, Cuts, Reported
  <2>2. CASE Becomes(s, [a EXCEPT !.pc = "commit", !.allDone = AllJobsCompleted(a.job)])
    <3> DEFINE count == AllJobsCompleted(a.job)
    <3> HIDE DEF count
    <3>1. PICK b : b = [a EXCEPT !.pc = "commit", !.allDone = count]
      OBVIOUS
    <3>2. /\ b.pc = "commit" /\ b.job = a.job /\ b.sourceHeight = a.sourceHeight
          /\ b.produced = a.produced /\ b.fresh = a.fresh
          /\ b.status = a.status /\ b.height = a.height /\ b.allDone = count
      BY <1>1, <3>1 DEF Attempt
    <3>3. HandsOn(s, b)
      BY <1>14, <3>2 DEF HandsOn, FlushAndCount
    <3>4. Moves(s, b)
      BY <1>14, <3>2 DEF Moves, Counts, FlushAndCount, count
    <3> QED
      BY <1>2, <1>14, <2>2, <3>1, <3>3, <3>4 DEF FlushAndCount, count
  <2> QED
    BY <1>14, <2>1, <2>2 DEF FlushAndCount
<1>15. CASE CompleteJob(s)
  BY <1>3, <1>15 DEF CompleteJob, Moves, Completes, Reported
<1>16. CASE FailJob(s)
  BY <1>4, <1>16 DEF FailJob, Moves, FailsJob, Reported
<1>17. CASE WorkFails(s)
  BY <1>5, <1>17 DEF WorkFails, Moves, Works, Running
<1>18. CASE DatabaseError(s)
  BY <1>4, <1>18 DEF DatabaseError, Moves, Cuts, Reported, Running
<1>19. CASE LostAcknowledgement(s)
  BY <1>4, <1>19 DEF LostAcknowledgement, Moves, Inserts, ClaimsJob, Completes, FailsJob, Reported
<1>20. CASE LoseAttempt(s)
  BY <1>4, <1>20 DEF LoseAttempt, Moves, Cuts, Running, Reported
<1> QED
  BY <1>6, <1>7, <1>8, <1>9, <1>10, <1>11, <1>12, <1>13, <1>14, <1>15, <1>16, <1>17, <1>18, <1>19,
     <1>20 DEF Progress, Misfortune

\* The slot a step belongs to holds b, the others keep their attempts.
LEMMA OnlySlot ==
    ASSUME TypeInv, NEW s \in Slots, NEW b, Becomes(s, b)
    PROVE  slot'[s] = b /\ \A t \in Slots \ {s} : slot'[t] = slot[t]
BY DEF TypeInv, JobsTypeOK, Becomes

-------------------------------------------------------------------------------
\* What the server knows and the attempts it waits for.

ActivityRow == [state : ActivityStates, attempt : 0 .. MaximumAttempts]

FlowTypeOK ==
    /\ execution \in {"none", "running", "completed", "failed"}
    /\ runs \in Nat
    /\ activity \in [JobTypes -> ActivityRow]
    /\ result \in Heights \cup {None}
    /\ stale \in SUBSET Slots

\* The attempt the server waits for.
Awaited(s) == ~At(s, "idle") /\ Heard(s)

\* A free slot is nobody's; each awaited attempt is the one attempt of a started
\* activity.
SlotsOK ==
    /\ \A s \in Slots : At(s, "idle") => slot[s].job = None /\ Heard(s)
    /\ \A s \in Slots : Awaited(s) => activity[slot[s].job].state = "started"
    /\ \A s, t \in Slots :
          s # t /\ Awaited(s) /\ Awaited(t) => slot[s].job # slot[t].job

\* The order in which the workflow schedules, and the budget that is left to a retry.
OrderOK ==
    /\ \A j \in JobTypes : activity[j].state = "scheduled" => activity[j].attempt < MaximumAttempts
    /\ \A j \in JobTypes : activity[j].state = "unscheduled" => activity[j].attempt = 0
    /\ activity["transcode"].state # "unscheduled" =>
          activity["metadata"].state = "succeeded" /\ activity["thumbnail"].state = "succeeded"
    /\ execution # "running" =>
          \A j \in JobTypes : activity[j].state \notin {"scheduled", "started"}

\* No metadata attempt ends well without a height, so the transcode gets one.
HeightOK ==
    /\ \A s \in Slots : slot[s].job = "metadata" =>
          /\ ~At(s, "upsert")
          /\ slot[s].pc \in {"flush", "commit", "returned"} => slot[s].height # None
    /\ activity["metadata"].state = "succeeded" => result # None

ServerInv == FlowTypeOK /\ SlotsOK /\ OrderOK /\ HeightOK

\* No activity is scheduled and no slot taken at first.
LEMMA ServerInit == WorkflowInit => ServerInv
BY MaximumAttemptsAssumption, NoneAssumption
   DEF WorkflowInit, JobsInit, ServerInv, FlowTypeOK, SlotsOK, OrderOK, HeightOK, Awaited, At,
       Heard, Idle, Unscheduled, ActivityRow, ActivityStates, JobTypes

\* What an attempt does by itself is nothing to the server.
LEMMA ServerKeepsAttempt ==
    ASSUME TypeInv, ServerInv, NEW s \in Slots, Progress(s) \/ Misfortune(s), UNCHANGED flow
    PROVE  ServerInv'
<1>1. PICK b : Becomes(s, b) /\ HandsOn(s, b) /\ Moves(s, b)
  BY AttemptMoves
<1>2. slot'[s] = b /\ \A t \in Slots \ {s} : slot'[t] = slot[t]
  BY <1>1, OnlySlot
<1>3. b.pc # "idle" /\ slot[s].pc # "idle" /\ b.job = slot[s].job
  BY <1>1 DEF HandsOn
<1>4. FlowTypeOK' /\ OrderOK'
  BY DEF ServerInv, FlowTypeOK, OrderOK, flow
<1>5. SlotsOK'
  BY <1>2, <1>3 DEF ServerInv, SlotsOK, Awaited, At, Heard, flow
<1>6. b.job = "metadata" =>
        /\ b.pc # "upsert"
        /\ b.pc \in {"flush", "commit", "returned"} => b.height # None
  <2>1. slot[s].job = "metadata" =>
          /\ slot[s].pc # "upsert"
          /\ slot[s].pc \in {"flush", "commit", "returned"} => slot[s].height # None
    BY DEF ServerInv, HeightOK, At
  <2>2. original # None
    BY NoneAssumption, HeightsAssumption DEF TypeInv, JobsTypeOK
  <2> QED
    BY <1>1, <1>3, <2>1, <2>2 DEF Moves, Cuts, Loads, Reads, Inserts, ClaimsJob, Works, Counts,
       Completes, FailsJob, At
<1>7. HeightOK'
  BY <1>2, <1>6 DEF ServerInv, HeightOK, At, flow
<1> QED
  BY <1>4, <1>5, <1>7 DEF ServerInv

\* One activity changes its state, as the retry policy or a success has it.
LEMMA OneActivity ==
    ASSUME FlowTypeOK, NEW j \in JobTypes, NEW st \in ActivityStates,
           activity' = [activity EXCEPT ![j].state = st]
    PROVE  /\ activity' \in [JobTypes -> ActivityRow]
           /\ activity'[j].state = st
           /\ activity'[j].attempt = activity[j].attempt
           /\ \A k \in JobTypes \ {j} : activity'[k] = activity[k]
<1>1. activity \in [JobTypes -> ActivityRow]
  BY DEF FlowTypeOK
<1>2. [activity[j] EXCEPT !.state = st] \in ActivityRow
  BY <1>1 DEF ActivityRow
<1>3. activity' = [activity EXCEPT ![j] = [activity[j] EXCEPT !.state = st]]
  OBVIOUS
<1>4. [activity[j] EXCEPT !.state = st].attempt = activity[j].attempt
        /\ [activity[j] EXCEPT !.state = st].state = st
  BY <1>1 DEF ActivityRow
<1> QED
  BY <1>1, <1>2, <1>3, <1>4

\* An awaited attempt leaves its slot or its turn, and its activity is settled, or
\* scheduled again within the budget.
LEMMA ActivityDone ==
    ASSUME TypeInv, ServerInv, NEW s \in Slots, Awaited(s),
           NEW st \in {"succeeded", "failed", "scheduled"},
           st = "scheduled" => activity[slot[s].job].attempt < MaximumAttempts,
           activity' = [activity EXCEPT ![slot[s].job].state = st],
           UNCHANGED <<execution, runs>>,
           FlowTypeOK', SlotsOK', HeightOK'
    PROVE  ServerInv'
<1>1. slot[s].job \in JobTypes /\ activity[slot[s].job].state = "started"
  BY DEF TypeInv, HasJob, Awaited, At, ServerInv, SlotsOK
<1>2. st \in ActivityStates
  BY DEF ActivityStates
<1>3. /\ activity'[slot[s].job].state = st
      /\ activity'[slot[s].job].attempt = activity[slot[s].job].attempt
      /\ \A k \in JobTypes \ {slot[s].job} : activity'[k] = activity[k]
  BY <1>1, <1>2, OneActivity DEF ServerInv
<1>4. OrderOK'
  BY <1>1, <1>3 DEF ServerInv, OrderOK, JobTypes
<1> QED
  BY <1>4 DEF ServerInv

\* Every step of the workflow, its server and its workers keeps this: one case per
\* action.
LEMMA ServerStep ==
    ASSUME TypeInv, ServerInv, [WorkflowNext]_vars
    PROVE  ServerInv'
<1> USE DEF ActivityRow, ActivityStates
<1>0. /\ activity \in [JobTypes -> ActivityRow]
      /\ MaximumAttempts \in Nat \ {0}
  BY MaximumAttemptsAssumption DEF ServerInv, FlowTypeOK
<1>1. CASE StartWorkflow
  <2>1. \A s \in Slots : ~Awaited(s)
    BY <1>1 DEF StartWorkflow, ServerInv, SlotsOK, OrderOK, TypeInv, HasJob, Awaited, At
  <2>2. /\ slot' = slot /\ stale' = stale
        /\ activity' = [j \in JobTypes |-> IF j = "transcode" THEN Unscheduled ELSE Scheduled]
    BY <1>1 DEF StartWorkflow, jobVars
  <2>3. FlowTypeOK'
    BY <1>0, <1>1, <2>2 DEF StartWorkflow, ServerInv, FlowTypeOK, Unscheduled, Scheduled
  <2>4. SlotsOK'
    BY <2>1, <2>2 DEF ServerInv, SlotsOK, Awaited, Heard, At
  <2>5. OrderOK' /\ HeightOK'
    BY <1>0, <1>1, <2>2 DEF StartWorkflow, ServerInv, OrderOK, HeightOK, Unscheduled, Scheduled, At,
       JobTypes
  <2> QED
    BY <2>3, <2>4, <2>5 DEF ServerInv
<1>2. ASSUME NEW s \in Slots, NEW j \in JobTypes, Dispatch(s, j)
      PROVE  ServerInv'
  <2>1. /\ activity[j].state = "scheduled" /\ At(s, "idle")
        /\ UNCHANGED <<execution, runs, result, stale>>
    BY <1>2 DEF Dispatch, BeginAttempt
  <2>2. PICK b : b = [Idle EXCEPT !.job = j, !.pc = "load",
                                  !.sourceHeight = IF j = "transcode" THEN result ELSE None]
    OBVIOUS
  <2>3. b.job = j /\ b.pc = "load"
    BY <2>2 DEF Idle
  <2>4. slot'[s] = b /\ \A t \in Slots \ {s} : slot'[t] = slot[t]
    BY <1>2, <2>2, OnlySlot DEF Dispatch, BeginAttempt
  <2>5. /\ activity' = [activity EXCEPT ![j] =
                           [state |-> "started", attempt |-> activity[j].attempt + 1]]
        /\ activity[j].attempt + 1 \in 0 .. MaximumAttempts
    BY <1>0, <1>2, <2>1 DEF Dispatch, ServerInv, OrderOK
  <2>6. FlowTypeOK'
    BY <1>0, <2>1, <2>5 DEF ServerInv, FlowTypeOK
  <2>7. \A t \in Slots : Awaited(t) => slot[t].job # j
    BY <2>1 DEF ServerInv, SlotsOK
  <2>8. SlotsOK'
    BY <1>0, <2>1, <2>3, <2>4, <2>5, <2>7 DEF ServerInv, SlotsOK, Awaited, Heard, At, TypeInv, HasJob
  <2>9. OrderOK'
    BY <1>0, <2>1, <2>5 DEF ServerInv, OrderOK
  <2>10. HeightOK'
    BY <1>0, <2>1, <2>3, <2>4, <2>5 DEF ServerInv, HeightOK, At
  <2> QED
    BY <2>6, <2>8, <2>9, <2>10 DEF ServerInv
<1>3. ASSUME NEW s \in Slots, WorkerStep(s) \/ (Misfortune(s) /\ UNCHANGED flow)
      PROVE  ServerInv'
  BY <1>3, ServerKeepsAttempt DEF WorkerStep
\* A slot is given up.
<1>4. ASSUME NEW s \in Slots, EndAttempt(s), stale' = stale \ {s} \/ (stale' = stale /\ Heard(s)),
             \A t \in Slots \ {s} : Awaited(t) => activity'[slot[t].job] = activity[slot[t].job]
      PROVE  SlotsOK' /\ \A t \in Slots : slot'[t].job = "metadata" => t # s /\ slot'[t] = slot[t]
  <2>1. slot'[s] = Idle /\ \A t \in Slots \ {s} : slot'[t] = slot[t]
    BY <1>4, OnlySlot DEF EndAttempt
  <2>2. slot'[s].pc = "idle" /\ slot'[s].job = None
    BY <2>1 DEF Idle
  <2>3. SlotsOK'
    BY <1>4, <2>1, <2>2 DEF ServerInv, SlotsOK, Awaited, Heard, At
  <2> QED
    BY <2>1, <2>2, <2>3, NoneAssumption DEF JobTypes
<1>5. ASSUME NEW s \in Slots, ReportSuccess(s)
      PROVE  ServerInv'
  <2>1. /\ Awaited(s) /\ EndAttempt(s) /\ At(s, "returned")
        /\ activity' = [activity EXCEPT ![slot[s].job].state = "succeeded"]
        /\ result' = IF slot[s].job = "metadata" THEN slot[s].height ELSE result
        /\ UNCHANGED <<execution, runs, stale>>
    BY <1>5 DEF ReportSuccess, Awaited, At
  <2>2. slot[s].job \in JobTypes /\ slot[s] \in Attempt
    BY <2>1 DEF TypeInv, JobsTypeOK, HasJob, Awaited, At
  <2>3. /\ activity' \in [JobTypes -> ActivityRow]
        /\ \A k \in JobTypes \ {slot[s].job} : activity'[k] = activity[k]
    BY <2>1, <2>2, OneActivity DEF ServerInv
  <2>4. FlowTypeOK'
    BY <2>1, <2>2, <2>3 DEF ServerInv, FlowTypeOK, Attempt
  <2>5. SlotsOK' /\ \A t \in Slots : slot'[t].job = "metadata" => t # s /\ slot'[t] = slot[t]
    BY <1>4, <2>1, <2>3 DEF ServerInv, SlotsOK, Awaited, TypeInv, HasJob, At
  <2>6. slot[s].job = "metadata" => slot[s].height # None
    BY <2>1 DEF ServerInv, HeightOK, At
  <2>7. HeightOK'
    BY <2>1, <2>3, <2>5, <2>6 DEF ServerInv, HeightOK, At, JobTypes
  <2> QED
    BY <2>1, <2>4, <2>5, <2>7, ActivityDone
<1>6. ASSUME NEW s \in Slots, NEW retryable \in BOOLEAN, Awaited(s), Retry(slot[s].job, retryable)
      PROVE  \E st \in {"scheduled", "failed"} :
                /\ activity' = [activity EXCEPT ![slot[s].job].state = st]
                /\ st = "scheduled" => activity[slot[s].job].attempt < MaximumAttempts
  BY <1>6 DEF Retry
<1>7. ASSUME NEW s \in Slots, NEW retryable \in BOOLEAN, Awaited(s), Retry(slot[s].job, retryable),
             UNCHANGED <<execution, runs, result>>, stale' \in SUBSET Slots,
             \/ EndAttempt(s) /\ UNCHANGED stale
             \/ UNCHANGED slot /\ stale' = stale \cup {s}
      PROVE  ServerInv'
  <2>1. PICK st \in {"scheduled", "failed"} :
                /\ activity' = [activity EXCEPT ![slot[s].job].state = st]
                /\ st = "scheduled" => activity[slot[s].job].attempt < MaximumAttempts
    BY <1>6, <1>7
  <2>2. slot[s].job \in JobTypes
    BY <1>7 DEF TypeInv, HasJob, Awaited, At
  <2>3. /\ activity' \in [JobTypes -> ActivityRow]
        /\ activity'[slot[s].job].state = st
        /\ \A k \in JobTypes \ {slot[s].job} : activity'[k] = activity[k]
    BY <2>1, <2>2, OneActivity DEF ServerInv
  <2>4. FlowTypeOK'
    BY <1>7, <2>3 DEF ServerInv, FlowTypeOK
  <2>5. \A t \in Slots \ {s} : Awaited(t) => activity'[slot[t].job] = activity[slot[t].job]
    BY <1>7, <2>3 DEF ServerInv, SlotsOK, Awaited, TypeInv, HasJob, At
  <2>6. SlotsOK' /\ \A t \in Slots : slot'[t].job = "metadata" => slot'[t] = slot[t]
    <3>1. CASE EndAttempt(s) /\ UNCHANGED stale
      BY <1>4, <1>7, <2>5, <3>1 DEF Awaited
    <3>2. CASE UNCHANGED slot /\ stale' = stale \cup {s}
      BY <1>7, <2>5, <3>2 DEF ServerInv, SlotsOK, Awaited, Heard, At
    <3> QED
      BY <1>7, <3>1, <3>2
  <2>7. HeightOK'
    BY <1>7, <2>3, <2>6 DEF ServerInv, HeightOK, At, JobTypes
  <2> QED
    BY <1>7, <2>1, <2>4, <2>6, <2>7, ActivityDone
<1>8. ASSUME NEW s \in Slots, ReportFailure(s)
      PROVE  ServerInv'
  <2>1. stale' \in SUBSET Slots
    BY <1>8 DEF ReportFailure, ServerInv, FlowTypeOK
  <2> QED
    BY <1>7, <1>8, <2>1 DEF ReportFailure, Awaited, At, Reported
<1>9. ASSUME NEW s \in Slots, Overrun(s)
      PROVE  ServerInv'
  <2>1. stale' \in SUBSET Slots /\ slot' = slot
    BY <1>9 DEF Overrun, ServerInv, FlowTypeOK, jobVars
  <2> QED
    BY <1>7, <1>9, <2>1 DEF Overrun, Awaited, At, Running, Reported
<1>10. ASSUME NEW s \in Slots, IgnoreReport(s)
       PROVE  ServerInv'
  <2>1. SlotsOK' /\ \A t \in Slots : slot'[t].job = "metadata" => slot'[t] = slot[t]
    BY <1>4, <1>10 DEF IgnoreReport
  <2> QED
    BY <1>10, <2>1 DEF IgnoreReport, ServerInv, FlowTypeOK, OrderOK, HeightOK, At
<1>11. CASE ScheduleTranscode
  <2>1. /\ slot' = slot /\ UNCHANGED <<execution, runs, result, stale>>
        /\ activity' = [activity EXCEPT !["transcode"] = Scheduled]
        /\ activity["transcode"].state = "unscheduled"
    BY <1>11 DEF ScheduleTranscode, jobVars
  <2>2. FlowTypeOK'
    <3>1. Scheduled \in ActivityRow /\ "transcode" \in JobTypes
      BY <1>0 DEF Scheduled, JobTypes
    <3>2. activity' \in [JobTypes -> ActivityRow]
      BY <1>0, <2>1, <3>1
    <3> QED
      BY <2>1, <3>2 DEF ServerInv, FlowTypeOK
  <2>3. SlotsOK'
    BY <1>0, <2>1 DEF ServerInv, SlotsOK, Awaited, Heard, At, TypeInv, HasJob
  <2>4. OrderOK' /\ HeightOK'
    BY <1>0, <1>11, <2>1 DEF ScheduleTranscode, ServerInv, OrderOK, HeightOK, Scheduled, At, JobTypes
  <2> QED
    BY <2>2, <2>3, <2>4 DEF ServerInv
<1>12. CASE CloseFailed \/ CloseCompleted
  <2>1. /\ slot' = slot /\ UNCHANGED <<runs, activity, result, stale>>
        /\ execution' \in {"completed", "failed"}
    BY <1>12 DEF CloseFailed, CloseCompleted, jobVars
  <2>2. \A j \in JobTypes : activity[j].state \notin {"scheduled", "started"}
    BY <1>0, <1>12 DEF CloseFailed, CloseCompleted, Settled, ServerInv, OrderOK, JobTypes
  <2> QED
    BY <2>1, <2>2 DEF ServerInv, FlowTypeOK, SlotsOK, OrderOK, HeightOK, Awaited, Heard, At
<1>13. CASE UNCHANGED vars
  BY <1>13 DEF vars, flow, jobVars, ServerInv, FlowTypeOK, SlotsOK, OrderOK, HeightOK, Awaited,
     Heard, At
<1> QED
  BY <1>1, <1>2, <1>3, <1>5, <1>8, <1>9, <1>10, <1>11, <1>12, <1>13
     DEF WorkflowNext, ExecutionNext, WorkflowTask, Report

\* Each of these steps is one of a single slot, or leaves rows and slots alone.
LEMMA FlowIsAnyStep ==
    ASSUME ServerInv, [WorkflowNext]_vars
    PROVE  UNCHANGED jobVars \/ \E s \in Slots : AnyStep(s)
<1>1. ASSUME NEW s \in Slots, NEW j \in JobTypes, Dispatch(s, j)
      PROVE  BeginAny(s)
  <2>1. result \in Heights \cup {None}
    BY DEF ServerInv, FlowTypeOK
  <2> QED
    BY <1>1, <2>1 DEF Dispatch, BeginAny
<1>2. CASE UNCHANGED vars
  BY <1>2 DEF vars
<1>3. CASE StartWorkflow \/ WorkflowTask \/ \E s \in Slots : Overrun(s)
  BY <1>3 DEF StartWorkflow, WorkflowTask, ScheduleTranscode, CloseFailed, CloseCompleted, Overrun
<1>4. ASSUME NEW s \in Slots, Report(s)
      PROVE  EndAttempt(s)
  BY <1>4 DEF Report, ReportSuccess, ReportFailure, IgnoreReport
<1> QED
  BY <1>1, <1>2, <1>3, <1>4 DEF WorkflowNext, ExecutionNext, WorkerStep, AnyStep

\* So the types of rows and attempts hold whoever drives the attempts.
LEMMA FlowTypeStep ==
    ASSUME TypeInv, ServerInv, [WorkflowNext]_vars
    PROVE  TypeInv'
<1>1. CASE UNCHANGED jobVars
  BY <1>1 DEF TypeInv, JobsTypeOK, HasJob, jobVars
<1>2. CASE \E s \in Slots : AnyStep(s)
  BY <1>2, TypeStep
<1> QED
  BY <1>1, <1>2, FlowIsAnyStep

FlowInv == TypeInv /\ ServerInv

\* Types and bookkeeping hold under every fault, overruns included.
LEMMA FlowInvariant == WorkflowSafety => []FlowInv
<1>1. WorkflowInit => FlowInv
  BY TypeInit, ServerInit DEF WorkflowInit, FlowInv
<1>2. ASSUME FlowInv, [WorkflowNext]_vars PROVE FlowInv'
  BY <1>2, FlowTypeStep, ServerStep DEF FlowInv
<1> QED
  BY <1>1, <1>2, PTL DEF WorkflowSafety

\* Every reachable state is well typed: no activity is tried beyond its policy and no
\* transcode is dispatched without a height, whatever is retried, lost or run twice.
THEOREM WorkflowTypeCorrect == WorkflowSafety => []WorkflowTypeOK
<1>1. FlowInv => WorkflowTypeOK
  BY DEF FlowInv, TypeInv, ServerInv, FlowTypeOK, ActivityRow, WorkflowTypeOK
<1> QED
  BY <1>1, FlowInvariant, PTL

-------------------------------------------------------------------------------
\* The rows under this environment: what the workflow hands the transcode is the
\* height of the original, so the invariant of VideoJobs holds here too.

ResultOK == result \in {None, original}

SafeFlowInv == SafeInv /\ ServerInv /\ ResultOK

\* Each step is one VideoJobs allows, with the height of the original.
LEMMA FlowIsSlotStep ==
    ASSUME SafeFlowInv, [WorkflowNext]_vars
    PROVE  UNCHANGED jobVars \/ \E s \in Slots : SlotStep(s)
<1>1. ASSUME NEW s \in Slots, NEW j \in JobTypes, Dispatch(s, j)
      PROVE  Begin(s)
  <2>1. j = "transcode" => result # None
    BY <1>1 DEF SafeFlowInv, ServerInv, OrderOK, HeightOK, Dispatch
  <2> QED
    BY <1>1, <2>1 DEF Dispatch, Begin, SafeFlowInv, ResultOK
<1>2. CASE UNCHANGED vars
  BY <1>2 DEF vars
<1>3. CASE StartWorkflow \/ WorkflowTask \/ \E s \in Slots : Overrun(s)
  BY <1>3 DEF StartWorkflow, WorkflowTask, ScheduleTranscode, CloseFailed, CloseCompleted, Overrun
<1>4. ASSUME NEW s \in Slots, Report(s)
      PROVE  EndAttempt(s)
  BY <1>4 DEF Report, ReportSuccess, ReportFailure, IgnoreReport
<1> QED
  BY <1>1, <1>2, <1>3, <1>4 DEF WorkflowNext, ExecutionNext, WorkerStep, SlotStep

\* No step replaces the file, so what the workflow holds stays its height.
LEMMA ResultOKStep ==
    ASSUME SafeFlowInv, [WorkflowNext]_vars
    PROVE  ResultOK'
<1>1. original' = original
  <2>1. ASSUME NEW s \in Slots, SlotStep(s) PROVE original' = original
    BY <2>1, AttemptMoves
       DEF SafeFlowInv, SafeInv, SlotStep, EndAttempt, Begin, BeginAttempt
  <2> QED
    BY <2>1, FlowIsSlotStep DEF jobVars
<1>2. result' \in {result, None} \/ \E s \in Slots : result' = slot[s].height
  BY DEF WorkflowNext, ExecutionNext, WorkflowTask, Report, vars, flow, StartWorkflow,
     ScheduleTranscode, CloseFailed, CloseCompleted, WorkerStep, ReportSuccess, ReportFailure,
     IgnoreReport, Overrun, Dispatch
<1>3. \A s \in Slots : slot[s].height \in {None, original}
  BY DEF SafeFlowInv, SafeInv, ResultInv, AttemptOK
<1> QED
  BY <1>1, <1>2, <1>3 DEF SafeFlowInv, ResultOK

\* The whole invariant of the workflow under every fault.
LEMMA SafeFlowInvariant == WorkflowSafety => []SafeFlowInv
<1>1. WorkflowInit => SafeFlowInv
  BY SafeInit, ServerInit DEF WorkflowInit, SafeFlowInv, ResultOK
<1>2. ASSUME SafeFlowInv, [WorkflowNext]_vars PROVE SafeFlowInv'
  <2>1. SafeInv'
    BY <1>2, FlowIsSlotStep, SafeStep, SafeStutter DEF SafeFlowInv
  <2>2. ServerInv' /\ ResultOK'
    BY <1>2, ServerStep, ResultOKStep DEF SafeFlowInv, SafeInv
  <2> QED
    BY <2>1, <2>2 DEF SafeFlowInv
<1> QED
  BY <1>1, <1>2, PTL DEF WorkflowSafety

\* Under Temporal's retries and timeouts, overlapping attempts included, completed jobs
\* and completed videos have their results and asset rows their objects, as under the
\* open environment of VideoJobs.
THEOREM WorkflowResultsAreStored ==
    WorkflowSafety => [](CompletedJobHasResults /\ FinishedVideoIsWhole /\ AssetRowsHaveObjects)
<1>1. SafeFlowInv => CompletedJobHasResults /\ FinishedVideoIsWhole /\ AssetRowsHaveObjects
  BY DEF SafeFlowInv, SafeInv, ResultInv, RowsOK
<1> QED
  BY <1>1, SafeFlowInvariant, PTL

-------------------------------------------------------------------------------
\* The attempts of j that may still claim it, and the attempts its execution still
\* may dispatch.
Unclaimed(j) ==
    {s \in Slots : slot[s].job = j /\ slot[s].pc \in {"load", "read", "insert", "claim"}}

Spare(j) == IF execution = "none" THEN 0 ELSE MaximumAttempts - activity[j].attempt

\* n claims of j, with those to come, are within the budget.
Within(j, n) == n + Cardinality(Unclaimed(j)) + Spare(j) =< runs * MaximumAttempts

\* Attempts that overlap may write the counter from copies that are out of date, so it
\* is the copies that count as well.
BudgetInv ==
    \A j \in JobTypes :
        /\ Within(j, jobs[j].attempts)
        /\ \A s \in Unclaimed(j) : At(s, "claim") => Within(j, slot[s].row.attempts)

\* A number of slots is a number.
LEMMA SlotCount ==
    ASSUME NEW S \in SUBSET Slots
    PROVE  IsFiniteSet(S) /\ Cardinality(S) \in Nat
BY SlotsAssumption, FS_Subset, FS_CardinalityType

\* Nothing has been claimed at first.
LEMMA BudgetInit == WorkflowInit => BudgetInv
<1> SUFFICES ASSUME WorkflowInit PROVE BudgetInv
  OBVIOUS
<1>1. \A j \in JobTypes : Unclaimed(j) = {}
  BY DEF WorkflowInit, JobsInit, Unclaimed, Idle
<1>2. runs * MaximumAttempts = 0
  BY MaximumAttemptsAssumption DEF WorkflowInit
<1>3. Cardinality({}) = 0
  BY FS_EmptySet
<1> QED
  BY <1>1, <1>2, <1>3 DEF WorkflowInit, JobsInit, BudgetInv, Within, Spare, NoRow

\* The numbers that make up the budget of a job.
LEMMA BudgetNumbers ==
    ASSUME FlowInv, NEW j \in JobTypes
    PROVE  /\ Spare(j) \in Int /\ runs \in Nat /\ runs * MaximumAttempts \in Nat
           /\ Cardinality(Unclaimed(j)) \in Nat /\ Cardinality(Unclaimed(j))' \in Nat
<1>1. Unclaimed(j) \in SUBSET Slots /\ Unclaimed(j)' \in SUBSET Slots
  BY DEF Unclaimed
<1>2. activity[j].attempt \in Int /\ runs \in Nat
  BY DEF FlowInv, ServerInv, FlowTypeOK, ActivityRow
<1> QED
  BY <1>1, <1>2, SlotCount, MaximumAttemptsAssumption DEF Spare

\* While the server's side stays, a count stays within the budget, and the attempt that
\* claims pays for one more.
LEMMA WithinStays ==
    ASSUME FlowInv, NEW j \in JobTypes, NEW n \in Nat, Within(j, n), NEW m \in Nat,
           \/ m =< n /\ Cardinality(Unclaimed(j))' =< Cardinality(Unclaimed(j))
           \/ m =< n + 1 /\ Cardinality(Unclaimed(j))' + 1 =< Cardinality(Unclaimed(j)),
           runs' = runs, Spare(j)' = Spare(j)
    PROVE  Within(j, m)'
<1>1. /\ Spare(j) \in Int /\ runs * MaximumAttempts \in Nat
      /\ Cardinality(Unclaimed(j)) \in Nat /\ Cardinality(Unclaimed(j))' \in Nat
  BY BudgetNumbers
<1>2. (runs * MaximumAttempts)' = runs * MaximumAttempts
  OBVIOUS
<1> QED
  BY <1>1, <1>2 DEF Within

\* A claim is paid for by the attempt that makes it: no step of an attempt adds to
\* what is counted and to come.
LEMMA BudgetKeepsAttempt ==
    ASSUME FlowInv, BudgetInv, NEW s \in Slots, Progress(s) \/ Misfortune(s), UNCHANGED flow
    PROVE  BudgetInv'
<1> DEFINE a == slot[s]
<1>1. PICK b : Becomes(s, b) /\ HandsOn(s, b) /\ Moves(s, b)
  BY AttemptMoves DEF FlowInv
<1>2. slot'[s] = b /\ \A t \in Slots \ {s} : slot'[t] = slot[t]
  BY <1>1, OnlySlot DEF FlowInv
<1>3. /\ a \in Attempt /\ jobs \in [JobTypes -> JobRow]
      /\ a.job \in JobTypes /\ b.job = a.job
      /\ \A t \in Slots : slot[t].row.attempts \in Nat
  BY <1>1 DEF FlowInv, TypeInv, JobsTypeOK, HasJob, HandsOn, Attempt, JobRow
<1>4. \A j \in JobTypes : runs' = runs /\ Spare(j)' = Spare(j)
  BY DEF flow, Spare
<1>5. b.pc \in {"load", "read", "insert", "claim"} => a.pc \in {"load", "read", "insert", "claim"}
  BY <1>1 DEF Moves, Cuts, Loads, Reads, Inserts, ClaimsJob, Works, Counts, Completes, FailsJob, At
<1>6. \A j \in JobTypes : Unclaimed(j)' \subseteq Unclaimed(j)
  BY <1>2, <1>3, <1>5 DEF Unclaimed
<1>7. ASSUME NEW j \in JobTypes
      PROVE  Cardinality(Unclaimed(j))' =< Cardinality(Unclaimed(j))
  <2>1. IsFiniteSet(Unclaimed(j))
    BY SlotCount DEF Unclaimed
  <2>2. Cardinality(Unclaimed(j)') =< Cardinality(Unclaimed(j))
    BY <1>6, <2>1, FS_Subset
  <2> QED
    BY <2>2
<1>8. ASSUME NEW j \in JobTypes, j = a.job, At(s, "claim"),
             b.pc \notin {"load", "read", "insert", "claim"}
      PROVE  Cardinality(Unclaimed(j))' + 1 =< Cardinality(Unclaimed(j))
  <2>1. IsFiniteSet(Unclaimed(j)) /\ s \in Unclaimed(j)
    BY <1>8, SlotCount DEF Unclaimed, At
  <2>2. Unclaimed(j)' = Unclaimed(j) \ {s}
    BY <1>2, <1>3, <1>8 DEF Unclaimed
  <2>3. Cardinality(Unclaimed(j)') = Cardinality(Unclaimed(j)) - 1
    BY <2>1, <2>2, FS_RemoveElement
  <2>4. Cardinality(Unclaimed(j)) \in Nat
    BY BudgetNumbers
  <2> QED
    BY <2>3, <2>4
<1>9. ASSUME NEW j \in JobTypes, NEW m, m = jobs'[j].attempts
      PROVE  Within(j, m)'
  <2>0. PICK n \in Nat : n = jobs[j].attempts /\ Within(j, n)
    BY <1>3 DEF BudgetInv, JobRow
  <2>1. CASE m = n \/ m = 0
    BY <1>4, <1>7, <2>0, <2>1, WithinStays
  <2>2. CASE ClaimsJob(s, b) /\ j = a.job
    <3>1. PICK k \in Nat : k = a.row.attempts /\ Within(j, k)
      BY <1>3, <2>2 DEF BudgetInv, Unclaimed, ClaimsJob, At
    <3>2. m = k + 1
      BY <1>3, <1>9, <2>2, <3>1 DEF ClaimsJob, ClaimRows
    <3>3. Cardinality(Unclaimed(j))' + 1 =< Cardinality(Unclaimed(j))
      BY <1>8, <2>2 DEF ClaimsJob
    <3> QED
      BY <1>4, <3>1, <3>2, <3>3, WithinStays
  <2>3. CASE ClaimsJob(s, b) /\ j # a.job
    BY <1>3, <1>9, <2>0, <2>1, <2>3 DEF ClaimsJob, ClaimRows
  <2>4. CASE Inserts(s, b)
    BY <1>3, <1>9, <2>0, <2>1, <2>4 DEF Inserts, InsertRow, NewRow
  <2>5. CASE Completes(s, b)
    BY <1>3, <1>9, <2>0, <2>1, <2>5 DEF Completes, CompleteRows, JobRow
  <2>6. CASE FailsJob(s, b)
    BY <1>3, <1>9, <2>0, <2>1, <2>6 DEF FailsJob, FailRows, JobRow
  <2>7. CASE UNCHANGED rows
    BY <1>9, <2>0, <2>1, <2>7 DEF rows
  <2> QED
    BY <1>1, <2>2, <2>3, <2>4, <2>5, <2>6, <2>7 DEF Moves, Cuts, Loads, Reads, Works, Counts
<1>10. ASSUME NEW j \in JobTypes, NEW t \in Slots, (t \in Unclaimed(j))', At(t, "claim")',
              NEW m, m = slot'[t].row.attempts
       PROVE  Within(j, m)'
  <2>1. CASE t # s
    <3>1. slot'[t] = slot[t] /\ t \in Unclaimed(j) /\ At(t, "claim")
      BY <1>2, <1>10, <2>1 DEF Unclaimed, At
    <3>2. Within(j, m) /\ m \in Nat
      BY <1>3, <1>10, <3>1 DEF BudgetInv
    <3> QED
      BY <1>4, <1>7, <3>2, WithinStays
  <2>2. CASE t = s
    <3>1. b.pc = "claim" /\ j = a.job
      BY <1>2, <1>3, <1>10, <2>2 DEF Unclaimed, At
    <3>2. PICK n \in Nat : n = jobs[j].attempts /\ Within(j, n)
      BY <1>3 DEF BudgetInv, JobRow
    <3>3. m = n \/ m = 0
      BY <1>1, <1>2, <1>10, <2>2, <3>1, <3>2 DEF Moves, Cuts, Loads, Reads, Inserts, ClaimsJob,
         Works, Counts, Completes, FailsJob, NewRow
    <3> QED
      BY <1>4, <1>7, <3>2, <3>3, WithinStays
  <2> QED
    BY <2>1, <2>2
<1>11. ASSUME NEW j \in JobTypes
       PROVE  Within(j, jobs[j].attempts)'
  BY <1>9 DEF Within
<1>12. ASSUME NEW j \in JobTypes, NEW t \in Slots, (t \in Unclaimed(j))', At(t, "claim")'
       PROVE  Within(j, slot[t].row.attempts)'
  BY <1>10, <1>12 DEF Within
<1> QED
  BY <1>11, <1>12 DEF BudgetInv, Unclaimed

\* A step that leaves the counters and the attempts to come as they are, and raises the
\* budget by no less than what it adds to what may be dispatched.
LEMMA BudgetGrows ==
    ASSUME BudgetInv, UNCHANGED jobs,
           \A j \in JobTypes : Unclaimed(j)' = Unclaimed(j),
           \A s \in Slots : At(s, "claim") \/ At(s, "claim")' => slot'[s] = slot[s],
           \A j \in JobTypes, n \in Nat : Within(j, n) => Within(j, n)',
           TypeInv
    PROVE  BudgetInv'
<1>1. jobs \in [JobTypes -> JobRow] /\ \A s \in Slots : slot[s].row.attempts \in Nat
  BY DEF TypeInv, JobsTypeOK, Attempt, JobRow
<1>2. ASSUME NEW j \in JobTypes
      PROVE  Within(j, jobs[j].attempts)'
  <2>1. PICK n \in Nat : n = jobs[j].attempts /\ Within(j, n)
    BY <1>1 DEF BudgetInv, JobRow
  <2> QED
    BY <2>1 DEF Within
<1>3. ASSUME NEW j \in JobTypes, NEW s \in Slots, (s \in Unclaimed(j))', At(s, "claim")'
      PROVE  Within(j, slot[s].row.attempts)'
  <2>1. s \in Unclaimed(j) /\ At(s, "claim") /\ slot'[s] = slot[s]
    BY <1>3 DEF At
  <2>2. PICK n \in Nat : n = slot[s].row.attempts /\ Within(j, n)
    BY <1>1, <2>1 DEF BudgetInv
  <2> QED
    BY <2>1, <2>2 DEF Within
<1> QED
  BY <1>2, <1>3 DEF BudgetInv, Unclaimed

\* A dispatch is one attempt more to come and one less to dispatch.
LEMMA BudgetKeepsDispatch ==
    ASSUME FlowInv, BudgetInv, NEW s \in Slots, NEW i \in JobTypes, Dispatch(s, i)
    PROVE  BudgetInv'
<1>0. /\ activity \in [JobTypes -> ActivityRow] /\ execution = "running"
      /\ jobs' = jobs /\ UNCHANGED <<execution, runs>> /\ slot[s].pc = "idle"
      /\ \A t \in Slots : slot[t].row.attempts \in Nat
      /\ jobs \in [JobTypes -> JobRow]
  BY DEF FlowInv, ServerInv, FlowTypeOK, OrderOK, Dispatch, BeginAttempt, rows, At, TypeInv,
         JobsTypeOK, Attempt, JobRow
<1>1. PICK b : b = [Idle EXCEPT !.job = i, !.pc = "load",
                                !.sourceHeight = IF i = "transcode" THEN result ELSE None]
  OBVIOUS
<1>2. b.job = i /\ b.pc = "load"
  BY <1>1 DEF Idle
<1>3. slot'[s] = b /\ \A t \in Slots \ {s} : slot'[t] = slot[t]
  BY <1>1, OnlySlot DEF Dispatch, BeginAttempt, FlowInv
<1>4. ASSUME NEW j \in JobTypes, NEW n \in Nat, Within(j, n)
      PROVE  Within(j, n)'
  <2>0. /\ Spare(j) \in Int /\ runs * MaximumAttempts \in Nat /\ Cardinality(Unclaimed(j)) \in Nat
        /\ runs' * MaximumAttempts = runs * MaximumAttempts
    BY <1>0, BudgetNumbers
  <2>1. CASE j = i
    <3>1. Spare(j)' = Spare(j) - 1
      BY <1>0, <2>1, MaximumAttemptsAssumption DEF Dispatch, Spare, ActivityRow
    <3>2. s \notin Unclaimed(j) /\ Unclaimed(j)' = Unclaimed(j) \cup {s}
      BY <1>0, <1>2, <1>3, <2>1 DEF Unclaimed
    <3>3. Cardinality(Unclaimed(j)') = Cardinality(Unclaimed(j)) + 1
      BY <3>2, SlotCount, FS_AddElement DEF Unclaimed
    <3> HIDE DEF Spare
    <3> QED
      BY <1>4, <2>0, <3>1, <3>3 DEF Within
  <2>2. CASE j # i
    <3>1. Spare(j)' = Spare(j)
      BY <1>0, <2>2 DEF Dispatch, Spare
    <3>2. Unclaimed(j)' = Unclaimed(j)
      BY <1>0, <1>2, <1>3, <2>2 DEF Unclaimed
    <3> QED
      BY <1>4, <2>0, <3>1, <3>2 DEF Within
  <2> QED
    BY <2>1, <2>2
<1>5. ASSUME NEW j \in JobTypes
      PROVE  Within(j, jobs[j].attempts)'
  <2>1. PICK n \in Nat : n = jobs[j].attempts /\ Within(j, n)
    BY <1>0 DEF BudgetInv, JobRow
  <2> QED
    BY <1>0, <1>4, <2>1 DEF Within
<1>6. ASSUME NEW j \in JobTypes, NEW t \in Slots, (t \in Unclaimed(j))', At(t, "claim")'
      PROVE  Within(j, slot[t].row.attempts)'
  <2>1. t # s /\ slot'[t] = slot[t] /\ t \in Unclaimed(j) /\ At(t, "claim")
    BY <1>2, <1>3, <1>6 DEF Unclaimed, At
  <2>2. PICK n \in Nat : n = slot[t].row.attempts /\ Within(j, n)
    BY <1>0, <2>1 DEF BudgetInv
  <2> QED
    BY <1>4, <2>1, <2>2 DEF Within
<1> QED
  BY <1>5, <1>6 DEF BudgetInv, Unclaimed

\* Every step of the workflow stays within the budget: one case per action.
LEMMA BudgetStep ==
    ASSUME FlowInv, BudgetInv, [WorkflowNext]_vars
    PROVE  BudgetInv'
<1>0. /\ activity \in [JobTypes -> ActivityRow] /\ runs \in Nat /\ MaximumAttempts \in Nat \ {0}
      /\ TypeInv
  BY MaximumAttemptsAssumption DEF FlowInv, ServerInv, FlowTypeOK
\* The server's own steps.
<1>1. ASSUME UNCHANGED <<jobs, slot, runs>>, \A j \in JobTypes : Spare(j)' = Spare(j)
      PROVE  BudgetInv'
  <2>1. \A j \in JobTypes : Unclaimed(j)' = Unclaimed(j)
    BY <1>1 DEF Unclaimed
  <2> QED
    BY <1>0, <1>1, <2>1, BudgetGrows DEF Within
<1>2. CASE StartWorkflow
  <2>1. /\ UNCHANGED <<jobs, slot>> /\ runs' = runs + 1
        /\ \A j \in JobTypes : Unclaimed(j)' = Unclaimed(j)
    BY <1>2 DEF StartWorkflow, jobVars, Unclaimed
  <2>2. runs' * MaximumAttempts = runs * MaximumAttempts + MaximumAttempts
    BY <1>0, <2>1
  <2>3. ASSUME NEW j \in JobTypes, NEW n \in Nat, Within(j, n)
        PROVE  Within(j, n)'
    <3>1. Spare(j)' = MaximumAttempts
      BY <1>0, <1>2, <2>3 DEF StartWorkflow, Spare, Unscheduled, Scheduled
    <3>2. Spare(j) >= 0
      BY <1>0, <2>3 DEF Spare, ActivityRow
    <3>3. /\ Spare(j) \in Int /\ runs * MaximumAttempts \in Nat
          /\ Cardinality(Unclaimed(j)) \in Nat
      BY BudgetNumbers
    <3> HIDE DEF Spare
    <3> QED
      BY <1>0, <2>1, <2>2, <2>3, <3>1, <3>2, <3>3 DEF Within
  <2> QED
    BY <1>0, <2>1, <2>3, BudgetGrows
<1>3. ASSUME NEW s \in Slots, NEW j \in JobTypes, Dispatch(s, j)
      PROVE  BudgetInv'
  BY <1>3, BudgetKeepsDispatch
<1>4. ASSUME NEW s \in Slots, WorkerStep(s) \/ (Misfortune(s) /\ UNCHANGED flow)
      PROVE  BudgetInv'
  BY <1>4, BudgetKeepsAttempt DEF WorkerStep
\* A change of an activity's state changes no count.
<1>5. ASSUME NEW i \in JobTypes, NEW st \in ActivityStates,
             activity' = [activity EXCEPT ![i].state = st], UNCHANGED execution
      PROVE  \A j \in JobTypes : Spare(j)' = Spare(j)
  <2>1. \A j \in JobTypes : activity'[j].attempt = activity[j].attempt
    BY <1>0, <1>5, OneActivity DEF FlowInv, ServerInv
  <2> QED
    BY <1>5, <2>1 DEF Spare
<1>6. ASSUME NEW s \in Slots, NEW retryable \in BOOLEAN, ~At(s, "idle"), Retry(slot[s].job, retryable),
             UNCHANGED execution
      PROVE  \A j \in JobTypes : Spare(j)' = Spare(j)
  <2>1. slot[s].job \in JobTypes
    BY <1>0, <1>6 DEF TypeInv, HasJob, At
  <2> QED
    BY <1>5, <1>6, <2>1 DEF Retry, ActivityStates
<1>7. ASSUME NEW s \in Slots, EndAttempt(s), UNCHANGED runs, \A j \in JobTypes : Spare(j)' = Spare(j)
      PROVE  BudgetInv'
  <2>1. slot'[s] = Idle /\ \A t \in Slots \ {s} : slot'[t] = slot[t]
    BY <1>0, <1>7, OnlySlot DEF EndAttempt
  <2>2. Idle.pc = "idle"
    BY DEF Idle
  <2>3. slot[s].pc \notin {"load", "read", "insert", "claim"} /\ jobs' = jobs
    BY <1>7 DEF EndAttempt, Reported, rows
  <2>4. \A j \in JobTypes : Unclaimed(j)' = Unclaimed(j)
    BY <2>1, <2>2, <2>3 DEF Unclaimed
  <2>5. \A t \in Slots : At(t, "claim") \/ At(t, "claim")' => slot'[t] = slot[t]
    BY <2>1, <2>2, <2>3 DEF At
  <2>6. \A j \in JobTypes, n \in Nat : Within(j, n) => Within(j, n)'
    BY <1>7, <2>4 DEF Within
  <2> QED
    BY <1>0, <2>3, <2>4, <2>5, <2>6, BudgetGrows
<1>8. ASSUME NEW s \in Slots, ReportSuccess(s)
      PROVE  BudgetInv'
  <2>1. slot[s].job \in JobTypes
    BY <1>0, <1>8 DEF ReportSuccess, TypeInv, HasJob, At
  <2>2. \A j \in JobTypes : Spare(j)' = Spare(j)
    BY <1>5, <1>8, <2>1 DEF ReportSuccess, ActivityStates
  <2> QED
    BY <1>7, <1>8, <2>2 DEF ReportSuccess
<1>9. ASSUME NEW s \in Slots, ReportFailure(s)
      PROVE  BudgetInv'
  <2>1. \A j \in JobTypes : Spare(j)' = Spare(j)
    BY <1>6, <1>9 DEF ReportFailure, At
  <2> QED
    BY <1>7, <1>9, <2>1 DEF ReportFailure
<1>10. ASSUME NEW s \in Slots, Overrun(s)
       PROVE  BudgetInv'
  <2>1. \A j \in JobTypes : Spare(j)' = Spare(j)
    BY <1>6, <1>10 DEF Overrun, At, Running, Reported
  <2> QED
    BY <1>1, <1>10, <2>1 DEF Overrun, jobVars
<1>11. ASSUME NEW s \in Slots, IgnoreReport(s)
       PROVE  BudgetInv'
  BY <1>7, <1>11 DEF IgnoreReport, Spare
<1>12. CASE ScheduleTranscode
  <2>1. \A j \in JobTypes : activity'[j].attempt = activity[j].attempt
    BY <1>0, <1>12 DEF ScheduleTranscode, Scheduled, FlowInv, ServerInv, OrderOK
  <2> QED
    BY <1>1, <1>12, <2>1 DEF ScheduleTranscode, Spare, jobVars
<1>13. CASE CloseFailed \/ CloseCompleted
  BY <1>1, <1>13 DEF CloseFailed, CloseCompleted, Spare, jobVars
<1>14. CASE UNCHANGED vars
  BY <1>1, <1>14 DEF vars, flow, jobVars, Spare
<1> QED
  BY <1>2, <1>3, <1>4, <1>8, <1>9, <1>10, <1>11, <1>12, <1>13, <1>14
     DEF WorkflowNext, ExecutionNext, WorkflowTask, Report

\* Counted claims are within the budget.
LEMMA BudgetBounds ==
    ASSUME FlowInv, BudgetInv
    PROVE  ClaimsStayInBudget
<1>1. ASSUME NEW j \in JobTypes PROVE jobs[j].attempts =< runs * MaximumAttempts
  <2>1. jobs[j].attempts \in Nat /\ Within(j, jobs[j].attempts)
    BY DEF FlowInv, TypeInv, JobsTypeOK, JobRow, BudgetInv
  <2>2. Spare(j) \in Int /\ Spare(j) >= 0
    BY MaximumAttemptsAssumption DEF FlowInv, ServerInv, FlowTypeOK, ActivityRow, Spare
  <2>3. Cardinality(Unclaimed(j)) \in Nat /\ runs * MaximumAttempts \in Nat
    BY BudgetNumbers
  <2> HIDE DEF Spare
  <2> QED
    BY <2>1, <2>2, <2>3 DEF Within
<1> QED
  BY <1>1 DEF ClaimsStayInBudget

\* The retry budget bounds how often a job is claimed, though attempts overlap, claims
\* are counted from copies and an execution may be started again (_RETRY_POLICY,
\* claim_job's attempts).
THEOREM ClaimsAreWithinBudget == WorkflowSafety => []ClaimsStayInBudget
<1>1. FlowInv /\ BudgetInv => ClaimsStayInBudget
  BY BudgetBounds
<1>2. WorkflowInit => BudgetInv
  BY BudgetInit
<1>3. FlowInv /\ BudgetInv /\ [WorkflowNext]_vars => BudgetInv'
  BY BudgetStep
<1> QED
  BY <1>1, <1>2, <1>3, FlowInvariant, PTL DEF WorkflowSafety

-------------------------------------------------------------------------------
\* What more holds while the server gives up on no attempt that still runs.  Nothing
\* here depends on the uploaded file, which VideoPipeline lets the client replace.

\* What an attempt knows of the video.
SessionsOK ==
    /\ \A s \in Slots : slot[s].pc \in Running \ {"load"} => video.status # "absent"
    /\ \A s \in Slots : slot[s].pc \in Running /\ slot[s].status = "completed" =>
          \A j \in JobTypes : jobs[j].status = "completed"

\* An attempt that returns has its job completed, and so has a succeeded activity.
ReportsOK ==
    /\ \A s \in Slots : At(s, "returned") => jobs[slot[s].job].status = "completed"
    /\ \A j \in JobTypes : activity[j].state = "succeeded" => jobs[j].status = "completed"

\* The transcode comes behind its siblings, counts them and alone can be refused for
\* its source height.
TranscodeOK ==
    /\ jobs["transcode"].status = "completed" =>
          jobs["metadata"].status = "completed" /\ jobs["thumbnail"].status = "completed"
    /\ \A s \in Slots : At(s, "commit") /\ slot[s].job = "transcode" => slot[s].allDone
    /\ \A s \in Slots : At(s, "reject") => slot[s].job = "transcode"

QuietInv == stale = {} /\ SessionsOK /\ ReportsOK /\ TranscodeOK

LoneInv == FlowInv /\ AloneInv /\ QuietInv

\* Nothing has run or been stored at first.
LEMMA QuietInit == WorkflowInit => QuietInv
BY DEF WorkflowInit, JobsInit, QuietInv, SessionsOK, ReportsOK, TranscodeOK, Idle, NoRow,
       Unscheduled, At, Running, JobTypes

\* Each slot that is taken has the one attempt of a started activity.
LEMMA LoneAttempts ==
    ASSUME FlowInv, stale = {}, NEW s \in Slots
    PROVE  /\ Heard(s)
           /\ slot[s].pc # "idle" =>
                slot[s].job \in JobTypes /\ activity[slot[s].job].state = "started"
           /\ slot[s].pc = "idle" => slot[s].job = None
BY DEF FlowInv, TypeInv, HasJob, ServerInv, SlotsOK, Awaited, At, Heard

\* An attempt of the transcode has its siblings' jobs completed.
LEMMA SiblingsAreDone ==
    ASSUME LoneInv, NEW s \in Slots, slot[s].job = "transcode"
    PROVE  jobs["metadata"].status = "completed" /\ jobs["thumbnail"].status = "completed"
<1>1. slot[s].pc # "idle"
  BY LoneAttempts, NoneAssumption DEF LoneInv, QuietInv, JobTypes
<1>2. activity["transcode"].state = "started"
  BY <1>1, LoneAttempts DEF LoneInv, QuietInv
<1>3. activity["metadata"].state = "succeeded" /\ activity["thumbnail"].state = "succeeded"
  BY <1>2 DEF LoneInv, FlowInv, ServerInv, OrderOK
<1> QED
  BY <1>3 DEF LoneInv, QuietInv, ReportsOK, JobTypes

\* Without overruns attempts of a job never overlap: a dispatch finds the job idle.
LEMMA FlowIsLone ==
    ASSUME "overrun" \notin Faults, FlowInv, stale = {}, [WorkflowNext]_vars
    PROVE  UNCHANGED jobVars \/ \E s \in Slots : LoneStep(s)
<1>1. ASSUME NEW s \in Slots, NEW j \in JobTypes, Dispatch(s, j)
      PROVE  LoneBegin(s)
  <2>1. result \in Heights \cup {None} /\ activity[j].state = "scheduled"
    BY <1>1 DEF FlowInv, ServerInv, FlowTypeOK, Dispatch
  <2>2. ~Busy(j)
    BY <2>1, LoneAttempts, NoneAssumption DEF Busy
  <2> QED
    BY <1>1, <2>1, <2>2 DEF Dispatch, LoneBegin
<1>2. CASE UNCHANGED vars
  BY <1>2 DEF vars
<1>3. CASE StartWorkflow \/ WorkflowTask \/ \E s \in Slots : Overrun(s)
  BY <1>3 DEF StartWorkflow, WorkflowTask, ScheduleTranscode, CloseFailed, CloseCompleted, Overrun
<1>4. ASSUME NEW s \in Slots, Report(s)
      PROVE  EndAttempt(s)
  BY <1>4 DEF Report, ReportSuccess, ReportFailure, IgnoreReport
<1> QED
  BY <1>1, <1>2, <1>3, <1>4 DEF WorkflowNext, ExecutionNext, WorkerStep, LoneStep

\* No write brings a video row into being or away.
LEMMA VideoStaysPresent ==
    ASSUME TypeInv, NEW s \in Slots, NEW b, Moves(s, b)
    PROVE  /\ video'.status = video.status \/ video'.status # "absent"
           /\ b.pc \in Running \ {"load", "read"} => slot[s].pc \in Running \ {"load"}
           /\ slot[s].pc \notin Running \ {"load"} => UNCHANGED rows
<1>1. video \in [status : VideoStatuses, height : Heights \cup {None}]
  BY DEF TypeInv, JobsTypeOK
<1> QED
  BY <1>1 DEF Moves, Cuts, Loads, Reads, Inserts, InsertRow, ClaimsJob, ClaimRows, Works, Counts,
     Completes, CompleteRows, FailsJob, FailRows, Running, At, rows

\* What a step of an attempt keeps: its sessions, reports and the place of the transcode.
LEMMA QuietKeepsAttempt ==
    ASSUME LoneInv, NEW s \in Slots, Progress(s) \/ Misfortune(s), UNCHANGED flow
    PROVE  QuietInv'
<1> DEFINE a == slot[s]
<1>1. PICK b : Becomes(s, b) /\ HandsOn(s, b) /\ Moves(s, b)
  BY AttemptMoves DEF LoneInv, FlowInv
<1>2. slot'[s] = b /\ \A t \in Slots \ {s} : slot'[t] = slot[t]
  BY <1>1, OnlySlot DEF LoneInv, FlowInv
<1>3. /\ a.job \in JobTypes /\ b.job = a.job /\ a.pc # "idle"
      /\ jobs \in [JobTypes -> JobRow]
      /\ FinishedVideoHasFinishedJobs
      /\ a.pc \in Running \ {"load", "read"} => jobs[a.job].status # "completed"
  BY <1>1 DEF LoneInv, FlowInv, TypeInv, JobsTypeOK, HasJob, HandsOn, AloneInv, Fresh
<1>4. RowStep(s)
  BY AloneStep DEF LoneInv, FlowInv, LoneStep
<1>5. \A j \in JobTypes : jobs[j].status = "completed" => jobs'[j].status = "completed"
  BY <1>4 DEF RowStep, OwnRows
<1>6. SessionsOK'
  <2>1. b.pc \in Running \ {"load"} => video'.status # "absent"
    <3>1. CASE b.pc = "read"
      BY <1>1, <3>1 DEF Moves, Cuts, Loads, Reads, Inserts, ClaimsJob, Works, Counts, Completes,
         FailsJob, rows
    <3>2. CASE b.pc \in Running \ {"load", "read"}
      BY <1>1, <3>2, VideoStaysPresent DEF LoneInv, FlowInv, QuietInv, SessionsOK
    <3> QED
      BY <3>1, <3>2
  <2>2. b.pc \in Running /\ b.status = "completed" =>
          \A j \in JobTypes : jobs[j].status = "completed"
    <3>1. a.pc \in Running /\ a.status = "completed" =>
            \A j \in JobTypes : jobs[j].status = "completed"
      BY DEF LoneInv, QuietInv, SessionsOK
    <3> QED
      BY <1>1, <1>3, <3>1 DEF Moves, Cuts, Loads, Reads, Inserts, ClaimsJob, Works, Counts,
         Completes, FailsJob, Running, At, FinishedVideoHasFinishedJobs
  <2>3. video.status # "absent" => video'.status # "absent"
    BY <1>1, VideoStaysPresent DEF LoneInv, FlowInv
  <2> QED
    BY <1>2, <1>5, <2>1, <2>2, <2>3 DEF LoneInv, QuietInv, SessionsOK
<1>7. ReportsOK'
  <2>1. b.pc = "returned" => jobs'[a.job].status = "completed"
    BY <1>1, <1>3 DEF Moves, Cuts, Loads, Reads, Inserts, ClaimsJob, Works, Counts, Completes,
       CompleteRows, FailsJob, JobRow, rows
  <2>2. \A t \in Slots \ {s} : slot[t].pc = "returned" => slot[t].job \in JobTypes
    BY DEF LoneInv, FlowInv, TypeInv, HasJob
  <2> QED
    BY <1>2, <1>3, <1>5, <2>1, <2>2 DEF LoneInv, QuietInv, ReportsOK, At, flow
<1>8. TranscodeOK'
  <2>1. jobs'["transcode"].status = "completed" =>
          jobs'["metadata"].status = "completed" /\ jobs'["thumbnail"].status = "completed"
    <3>1. CASE a.job = "transcode"
      BY <1>5, <3>1, SiblingsAreDone DEF JobTypes
    <3>2. CASE a.job # "transcode"
      <4>1. jobs'["transcode"] = jobs["transcode"]
        BY <1>4, <3>2 DEF RowStep, OwnRows, JobTypes
      <4> QED
        BY <1>5, <4>1 DEF LoneInv, QuietInv, TranscodeOK, JobTypes
    <3> QED
      BY <3>1, <3>2
  <2>2. b.pc = "commit" /\ a.job = "transcode" => b.allDone
    BY <1>1, SiblingsAreDone DEF Moves, Cuts, Loads, Reads, Inserts, ClaimsJob, Works, Counts,
       Completes, FailsJob, AllJobsCompleted, JobTypes
  <2>3. b.pc = "reject" => a.job = "transcode"
    BY <1>1 DEF Moves, Cuts, Loads, Reads, Inserts, ClaimsJob, Works, Counts, Completes, FailsJob
  <2> QED
    BY <1>2, <1>3, <2>1, <2>2, <2>3 DEF LoneInv, QuietInv, TranscodeOK, At
<1> QED
  BY <1>6, <1>7, <1>8 DEF LoneInv, QuietInv, flow

\* ... and every step of the server keeps it: one case per action.
LEMMA QuietStep ==
    ASSUME "overrun" \notin Faults, LoneInv, [WorkflowNext]_vars
    PROVE  QuietInv'
<1>0. /\ activity \in [JobTypes -> ActivityRow] /\ stale = {} /\ TypeInv
      /\ \A s \in Slots : slot[s].pc # "idle" => slot[s].job \in JobTypes
  BY DEF LoneInv, FlowInv, ServerInv, FlowTypeOK, QuietInv, TypeInv, HasJob
\* Steps that touch neither rows nor slots.
<1>1. ASSUME UNCHANGED <<video, jobs, slot, stale>>,
             \A j \in JobTypes : activity'[j].state = "succeeded" => jobs[j].status = "completed"
      PROVE  QuietInv'
  BY <1>0, <1>1 DEF LoneInv, QuietInv, SessionsOK, ReportsOK, TranscodeOK, At
<1>2. CASE StartWorkflow
  BY <1>1, <1>2 DEF StartWorkflow, jobVars, Unscheduled, Scheduled
<1>3. ASSUME NEW s \in Slots, NEW j \in JobTypes, Dispatch(s, j)
      PROVE  QuietInv'
  <2>1. PICK b : b = [Idle EXCEPT !.job = j, !.pc = "load",
                                  !.sourceHeight = IF j = "transcode" THEN result ELSE None]
    OBVIOUS
  <2>2. b.job = j /\ b.pc = "load" /\ b.status = "absent"
    BY <2>1 DEF Idle
  <2>3. slot'[s] = b /\ \A t \in Slots \ {s} : slot'[t] = slot[t]
    BY <1>0, <1>3, <2>1, OnlySlot DEF Dispatch, BeginAttempt
  <2>4. UNCHANGED <<video, jobs, stale>>
    BY <1>3 DEF Dispatch, BeginAttempt, rows
  <2>5. \A k \in JobTypes : activity'[k].state = "succeeded" => activity[k].state = "succeeded"
    BY <1>0, <1>3 DEF Dispatch
  <2> QED
    BY <1>0, <2>2, <2>3, <2>4, <2>5 DEF LoneInv, QuietInv, SessionsOK, ReportsOK, TranscodeOK, At
\* A slot is given up.
<1>4. ASSUME NEW s \in Slots, EndAttempt(s), UNCHANGED stale,
             \A j \in JobTypes : activity'[j].state = "succeeded" => jobs[j].status = "completed"
      PROVE  QuietInv'
  <2>1. slot'[s] = Idle /\ \A t \in Slots \ {s} : slot'[t] = slot[t]
    BY <1>0, <1>4, OnlySlot DEF EndAttempt
  <2>2. Idle.pc = "idle"
    BY DEF Idle
  <2>3. UNCHANGED <<video, jobs>>
    BY <1>4 DEF EndAttempt, rows
  <2> QED
    BY <1>0, <1>4, <2>1, <2>2, <2>3
       DEF LoneInv, QuietInv, SessionsOK, ReportsOK, TranscodeOK, At, Running
<1>5. ASSUME NEW s \in Slots, WorkerStep(s) \/ (Misfortune(s) /\ UNCHANGED flow)
      PROVE  QuietInv'
  BY <1>5, QuietKeepsAttempt DEF WorkerStep
<1>6. ASSUME NEW s \in Slots, ReportSuccess(s)
      PROVE  QuietInv'
  <2>1. slot[s].job \in JobTypes /\ jobs[slot[s].job].status = "completed"
    BY <1>0, <1>6 DEF ReportSuccess, At, LoneInv, QuietInv, ReportsOK
  <2>2. \A j \in JobTypes : activity'[j].state = "succeeded" => jobs[j].status = "completed"
    BY <1>0, <1>6, <2>1 DEF ReportSuccess, LoneInv, QuietInv, ReportsOK
  <2> QED
    BY <1>4, <1>6, <2>2 DEF ReportSuccess
<1>7. ASSUME NEW s \in Slots, ReportFailure(s)
      PROVE  QuietInv'
  <2>1. PICK st \in {"scheduled", "failed"} : activity' = [activity EXCEPT ![slot[s].job].state = st]
    BY <1>7 DEF ReportFailure, Retry
  <2>2. slot[s].job \in JobTypes
    BY <1>0, <1>7 DEF ReportFailure
  <2>3. \A j \in JobTypes : activity'[j].state = "succeeded" => activity[j].state = "succeeded"
    BY <1>0, <2>1, <2>2
  <2> QED
    BY <1>4, <1>7, <2>3 DEF ReportFailure, LoneInv, QuietInv, ReportsOK
<1>8. ASSUME NEW s \in Slots, Overrun(s) \/ IgnoreReport(s)
      PROVE  QuietInv'
  BY <1>0, <1>8 DEF Overrun, IgnoreReport, Heard
<1>9. CASE ScheduleTranscode
  <2>1. \A j \in JobTypes : activity'[j].state = "succeeded" => activity[j].state = "succeeded"
    BY <1>0, <1>9 DEF ScheduleTranscode, Scheduled
  <2> QED
    BY <1>1, <1>9, <2>1 DEF ScheduleTranscode, jobVars, LoneInv, QuietInv, ReportsOK
<1>10. CASE CloseFailed \/ CloseCompleted
  BY <1>1, <1>10 DEF CloseFailed, CloseCompleted, jobVars, LoneInv, QuietInv, ReportsOK
<1>11. CASE UNCHANGED vars
  BY <1>1, <1>11 DEF vars, jobVars, flow, LoneInv, QuietInv, ReportsOK
<1> QED
  BY <1>2, <1>3, <1>5, <1>6, <1>7, <1>8, <1>9, <1>10, <1>11
     DEF WorkflowNext, ExecutionNext, WorkflowTask, Report

\* The three parts together are inductive as long as nothing overlaps.
LEMMA LoneFlowStep ==
    ASSUME "overrun" \notin Faults, LoneInv, [WorkflowNext]_vars
    PROVE  LoneInv'
<1>1. FlowInv'
  BY FlowTypeStep, ServerStep DEF LoneInv, FlowInv
<1>2. AloneInv'
  BY FlowIsLone, AloneStep, AloneStutter DEF LoneInv, FlowInv, QuietInv
<1> QED
  BY <1>1, <1>2, QuietStep DEF LoneInv

\* It holds of every execution without overruns.
LEMMA LoneInvariant ==
    ASSUME "overrun" \notin Faults
    PROVE  WorkflowSafety => []LoneInv
<1>1. WorkflowInit => LoneInv
  BY TypeInit, ServerInit, AloneInit, QuietInit DEF WorkflowInit, LoneInv, FlowInv
<1> QED
  BY <1>1, LoneFlowStep, PTL DEF WorkflowSafety

\* Every attempt is one of a started activity, and a closed execution has none.
LEMMA QuietWhenClosed ==
    ASSUME LoneInv
    PROVE  ClosedExecutionIsQuiet
<1> SUFFICES ASSUME execution # "running", NEW s \in Slots PROVE At(s, "idle")
  BY DEF ClosedExecutionIsQuiet
<1>1. \A j \in JobTypes : activity[j].state # "started"
  BY DEF LoneInv, FlowInv, ServerInv, OrderOK
<1> QED
  BY <1>1, LoneAttempts DEF LoneInv, QuietInv, At

\* A closed execution has no attempt left in any slot: gather awaits both of its
\* activities, so the next execution starts alone.
THEOREM ClosedExecutionsAreQuiet ==
    ASSUME "overrun" \notin Faults
    PROVE  WorkflowSafety => []ClosedExecutionIsQuiet
<1>1. LoneInv => ClosedExecutionIsQuiet
  BY QuietWhenClosed
<1> QED
  BY <1>1, LoneInvariant, PTL

\* No step of the workflow takes a completion back, of a job or of the video, and no
\* completed video has an unfinished job (claim_job's early return and its guard).
THEOREM WorkflowCompletionIsFinal ==
    ASSUME "overrun" \notin Faults
    PROVE  WorkflowSafety => CompletedIsFinal /\ []FinishedVideoHasFinishedJobs
<1>1. ASSUME LoneInv, [WorkflowNext]_vars
      PROVE  [/\ \A j \in JobTypes :
                    jobs[j].status = "completed" => jobs'[j].status = "completed"
              /\ video.status = "completed" => video'.status = "completed"]_jobVars
  BY <1>1, FlowIsLone, LoneStepIsFinal DEF LoneInv, FlowInv, QuietInv
<1>2. LoneInv => FinishedVideoHasFinishedJobs
  BY DEF LoneInv, AloneInv
<1> QED
  BY <1>1, <1>2, LoneInvariant, PTL DEF WorkflowSafety, CompletedIsFinal

-------------------------------------------------------------------------------
\* The source height a transcode is given.

ArgumentOK == \A s \in Slots : slot[s].sourceHeight \in {original, None}

\* Nothing but a dispatch gives one, and it gives what metadata has returned.
LEMMA ArgumentStep ==
    ASSUME SafeFlowInv, ArgumentOK, [WorkflowNext]_vars
    PROVE  ArgumentOK'
<1>1. TypeInv
  BY DEF SafeFlowInv, SafeInv
<1>2. ASSUME NEW s \in Slots, NEW b, Becomes(s, b), original' = original,
             b.sourceHeight \in {original, None}
      PROVE  ArgumentOK'
  BY <1>1, <1>2, OnlySlot DEF ArgumentOK
<1>3. ASSUME NEW s \in Slots, Progress(s) \/ Misfortune(s)
      PROVE  ArgumentOK'
  <2>1. PICK b : Becomes(s, b) /\ HandsOn(s, b)
    BY <1>1, <1>3, AttemptMoves
  <2>2. original' = original
    BY <1>1, <1>3, AttemptMoves
  <2> QED
    BY <1>2, <2>1, <2>2 DEF HandsOn, ArgumentOK
<1>4. ASSUME NEW s \in Slots, EndAttempt(s)
      PROVE  ArgumentOK'
  BY <1>2, <1>4 DEF EndAttempt, Idle
<1>5. ASSUME NEW s \in Slots, Begin(s)
      PROVE  ArgumentOK'
  <2>1. PICK j \in JobTypes, h \in {None, original} : BeginAttempt(s, j, h)
    BY <1>5 DEF Begin
  <2>2. PICK b : b = [Idle EXCEPT !.job = j, !.pc = "load", !.sourceHeight = h]
    OBVIOUS
  <2>3. b.sourceHeight = h
    BY <2>2 DEF Idle
  <2> QED
    BY <1>2, <2>1, <2>2, <2>3 DEF BeginAttempt
<1>6. CASE UNCHANGED jobVars
  BY <1>6 DEF jobVars, ArgumentOK
<1> QED
  BY <1>3, <1>4, <1>5, <1>6, FlowIsSlotStep DEF SlotStep

\* The transcode never runs before its siblings are done, nor with a height that is
\* not the original's, though the height may come from a row, a retry or an earlier
\* execution (workflows.py's gather, _stored_metadata).
THEOREM TranscodeRunsLast ==
    ASSUME "overrun" \notin Faults
    PROVE  WorkflowSafety => []TranscodeComesLast
<1>1. WorkflowInit => ArgumentOK
  BY DEF WorkflowInit, JobsInit, ArgumentOK, Idle
<1>2. SafeFlowInv /\ ArgumentOK /\ [WorkflowNext]_vars => ArgumentOK'
  BY ArgumentStep
<1>3. LoneInv /\ ArgumentOK => TranscodeComesLast
  BY SiblingsAreDone DEF ArgumentOK, TranscodeComesLast
<1> QED
  BY <1>1, <1>2, <1>3, SafeFlowInvariant, LoneInvariant, PTL DEF WorkflowSafety

-------------------------------------------------------------------------------
\* The height on record and what was made of it, whatever the file is by now.

RecordOK ==
    /\ jobs["metadata"].status = "completed" => video.height # None
    /\ activity["metadata"].state = "succeeded" => result = video.height
    /\ assets \cap Previews # {} => jobs["metadata"].status = "completed"
    /\ assets \cap Previews \subseteq RenditionsFor(video.height)

\* The attempt answers with the height on record, or works from it.
OfRecord(a) ==
    /\ a.job = "metadata" /\ a.pc = "returned" => a.height = video.height
    /\ a.job = "metadata" /\ a.pc = "read" /\ jobs["metadata"].status = "completed" =>
          a.height = video.height
    /\ a.job = "transcode" /\ a.pc \in Running => a.sourceHeight = video.height
    /\ a.job \in JobTypes /\ a.pc \in Running =>
          a.produced \cup a.fresh \subseteq AssetsOf(a.job, a.sourceHeight)

RecordInv == RecordOK /\ \A s \in Slots : OfRecord(slot[s])

\* Nothing is on record at first.
LEMMA RecordInit == WorkflowInit => RecordInv
BY NoneAssumption DEF WorkflowInit, JobsInit, RecordInv, RecordOK, OfRecord, Idle, NoRow,
   Unscheduled, Running, JobTypes

\* The height on record changes only when metadata completes for the first time.
LEMMA HeightIsSetOnce ==
    ASSUME LoneInv, NEW s \in Slots, NEW b, HandsOn(s, b), Moves(s, b)
    PROVE  /\ jobs["metadata"].status = "completed" => video'.height = video.height
           /\ Completes(s, b) /\ slot[s].job = "metadata" => video'.height = slot[s].height
           /\ \/ video'.height = video.height
              \/ Completes(s, b) /\ slot[s].job = "metadata" /\ video'.height = slot[s].height
           /\ assets' = assets \/ (Completes(s, b) /\ assets' = assets \cup slot[s].fresh)
           /\ jobs'["metadata"].status = "completed" =>
                 \/ jobs["metadata"].status = "completed"
                 \/ Completes(s, b) /\ slot[s].job = "metadata" /\ video'.height = slot[s].height
<1>1. /\ video \in [status : VideoStatuses, height : Heights \cup {None}]
      /\ jobs \in [JobTypes -> JobRow] /\ "metadata" \in JobTypes
      /\ slot[s].job \in JobTypes
      /\ At(s, "commit") => jobs[slot[s].job].status # "completed"
  BY DEF LoneInv, FlowInv, TypeInv, JobsTypeOK, HasJob, HandsOn, AloneInv, Fresh, At, Running,
         JobTypes
<1>2. Completes(s, b) /\ slot[s].job = "metadata" => video'.height = slot[s].height
  BY <1>1 DEF Completes, CompleteRows
<1>3. CASE Completes(s, b)
  BY <1>1, <1>3 DEF Completes, CompleteRows
<1>4. CASE Inserts(s, b)
  BY <1>1, <1>2, <1>4 DEF Inserts, InsertRow, NewRow
<1>5. CASE ClaimsJob(s, b)
  BY <1>1, <1>2, <1>5 DEF ClaimsJob, ClaimRows
<1>6. CASE FailsJob(s, b)
  BY <1>1, <1>2, <1>6 DEF FailsJob, FailRows, JobRow
<1>7. CASE UNCHANGED rows
  BY <1>2, <1>7 DEF rows
<1> QED
  BY <1>3, <1>4, <1>5, <1>6, <1>7 DEF Moves, Cuts, Loads, Reads, Works, Counts

\* A step of an attempt keeps it: what it completes, it completes with what it holds.
LEMMA RecordKeepsAttempt ==
    ASSUME LoneInv, RecordInv, NEW s \in Slots, Progress(s) \/ Misfortune(s), UNCHANGED flow
    PROVE  RecordInv'
<1> DEFINE a == slot[s]
<1>1. PICK b : Becomes(s, b) /\ HandsOn(s, b) /\ Moves(s, b)
  BY AttemptMoves DEF LoneInv, FlowInv
<1>2. slot'[s] = b /\ \A t \in Slots \ {s} : slot'[t] = slot[t]
  BY <1>1, OnlySlot DEF LoneInv, FlowInv
<1>3. /\ a.job \in JobTypes /\ b.job = a.job /\ OfRecord(a)
      /\ At(s, "commit") => jobs[a.job].status # "completed"
      /\ At(s, "commit") /\ a.job = "metadata" => a.height # None
  BY <1>1 DEF LoneInv, FlowInv, TypeInv, HasJob, HandsOn, AloneInv, Fresh, At, Running, RecordInv,
     ServerInv, HeightOK
<1>4. OwnRows(a.job)
  BY AloneStep DEF LoneInv, FlowInv, LoneStep, RowStep
<1>5. /\ jobs["metadata"].status = "completed" => video'.height = video.height
      /\ Completes(s, b) /\ a.job = "metadata" => video'.height = a.height
      /\ \/ video'.height = video.height
         \/ Completes(s, b) /\ a.job = "metadata" /\ video'.height = a.height
      /\ assets' = assets \/ (Completes(s, b) /\ assets' = assets \cup a.fresh)
      /\ jobs'["metadata"].status = "completed" =>
            \/ jobs["metadata"].status = "completed"
            \/ Completes(s, b) /\ a.job = "metadata" /\ video'.height = a.height
      /\ jobs["metadata"].status = "completed" => jobs'["metadata"].status = "completed"
  BY <1>1, <1>4, HeightIsSetOnce DEF OwnRows, JobTypes
<1>6. assets' \cap Previews = assets \cap Previews
        \/ (/\ a.job = "transcode" /\ jobs["metadata"].status = "completed"
            /\ assets' \cap Previews \subseteq (assets \cap Previews) \cup RenditionsFor(video.height))
  <2>1. CASE assets' = assets
    BY <2>1
  <2>2. CASE Completes(s, b) /\ assets' = assets \cup a.fresh
    <3>1. a.pc \in Running
      BY <2>2 DEF Completes, At, Running
    <3>2. a.fresh \subseteq AssetsOf(a.job, a.sourceHeight)
      BY <1>3, <3>1 DEF OfRecord
    <3>3. CASE a.job = "transcode"
      <4>1. a.fresh \subseteq RenditionsFor(video.height)
        BY <1>3, <3>1, <3>2, <3>3 DEF OfRecord, AssetsOf
      <4> QED
        BY <2>2, <3>3, <4>1, SiblingsAreDone
    <3>4. CASE a.job # "transcode"
      <4>1. a.fresh \subseteq {"thumbnail"}
        BY <1>3, <3>2, <3>4 DEF AssetsOf, JobTypes
      <4> QED
        BY <2>2, <4>1 DEF Previews
    <3> QED
      BY <3>3, <3>4
  <2> QED
    BY <1>5, <2>1, <2>2
<1>7. RecordOK'
  <2>1. jobs'["metadata"].status = "completed" => video'.height # None
    BY <1>3, <1>5 DEF RecordInv, RecordOK, Completes
  <2>2. activity'["metadata"].state = "succeeded" => result' = video'.height
    BY <1>5 DEF flow, RecordInv, RecordOK, LoneInv, QuietInv, ReportsOK, JobTypes
  <2>3. assets' \cap Previews # {} => jobs["metadata"].status = "completed"
    BY <1>6 DEF RecordInv, RecordOK
  <2>4. assets' \cap Previews \subseteq RenditionsFor(video.height)
    BY <1>6 DEF RecordInv, RecordOK
  <2> QED
    BY <1>5, <2>1, <2>2, <2>3, <2>4 DEF RecordOK
<1>8. ASSUME NEW c, c = b
      PROVE  OfRecord(c)'
  <2>1. b.job = "metadata" /\ b.pc = "returned" => b.height = video'.height
    <3>1. Completes(s, b) \/ Reads(s, b) \/ b.pc # "returned"
      BY <1>1 DEF Moves, Cuts, Loads, Inserts, ClaimsJob, Works, Counts, FailsJob
    <3>2. CASE Completes(s, b)
      BY <1>3, <1>5, <3>2 DEF Completes
    <3>3. CASE Reads(s, b)
      BY <1>3, <3>3 DEF Reads, OfRecord, At, rows
    <3> QED
      BY <3>1, <3>2, <3>3
  <2>2. b.job = "metadata" /\ b.pc = "read" => b.height = video'.height
    BY <1>1 DEF Moves, Cuts, Loads, Reads, Inserts, ClaimsJob, Works, Counts, Completes, FailsJob,
       rows
  <2>3. b.pc \in Running => a.pc \in Running
    BY <1>1 DEF Moves, Cuts, Loads, Reads, Inserts, ClaimsJob, Works, Counts, Completes, FailsJob,
       Running, At
  <2>4. b.job = "transcode" /\ b.pc \in Running => b.sourceHeight = video'.height
    BY <1>1, <1>3, <1>5, <2>3, SiblingsAreDone DEF HandsOn, OfRecord
  <2>5. b.pc \in Running => b.produced \cup b.fresh \subseteq AssetsOf(b.job, b.sourceHeight)
    BY <1>1, <1>3, <2>3 DEF HandsOn, OfRecord
  <2> QED
    BY <1>8, <2>1, <2>2, <2>4, <2>5 DEF OfRecord
<1>9. ASSUME NEW t \in Slots \ {s}, NEW c, c = slot[t]
      PROVE  OfRecord(c)'
  <2>1. OfRecord(c) /\ (c.job = "metadata" => a.job # "metadata")
    BY <1>9, <1>3 DEF RecordInv, LoneInv, AloneInv, Alone
  <2>2. c.job = "metadata" /\ c.pc = "returned" => c.height = video'.height
    BY <1>5, <1>9, <2>1 DEF OfRecord, LoneInv, QuietInv, ReportsOK, At
  <2>3. c.job = "metadata" /\ c.pc = "read" /\ jobs'["metadata"].status = "completed" =>
          c.height = video'.height
    BY <1>5, <2>1 DEF OfRecord
  <2>4. c.job = "transcode" => video'.height = video.height
    BY <1>5, <1>9, SiblingsAreDone
  <2> QED
    BY <2>1, <2>2, <2>3, <2>4 DEF OfRecord
<1>10. ASSUME NEW t \in Slots
       PROVE  OfRecord(slot[t])'
  BY <1>2, <1>8, <1>9 DEF OfRecord
<1> QED
  BY <1>7, <1>10 DEF RecordInv

\* ... and every step of the server keeps it: one case per action.
LEMMA RecordStep ==
    ASSUME "overrun" \notin Faults, LoneInv, RecordInv, [WorkflowNext]_vars
    PROVE  RecordInv'
<1>0. /\ activity \in [JobTypes -> ActivityRow] /\ TypeInv /\ "metadata" \in JobTypes
      /\ \A s \in Slots : slot[s].pc # "idle" => slot[s].job \in JobTypes
  BY DEF LoneInv, FlowInv, ServerInv, FlowTypeOK, TypeInv, HasJob, JobTypes
\* Steps that touch no row and at most one slot.
<1>1. ASSUME UNCHANGED <<video, jobs, assets>>,
             activity'["metadata"].state = "succeeded" => result' = video.height,
             \A s \in Slots : slot'[s] = slot[s] \/ OfRecord(slot'[s])
      PROVE  RecordInv'
  <2>1. RecordOK'
    BY <1>1 DEF RecordInv, RecordOK
  <2>2. ASSUME NEW s \in Slots
        PROVE  OfRecord(slot[s])'
    BY <1>1 DEF RecordInv, OfRecord
  <2> QED
    BY <2>1, <2>2 DEF RecordInv
<1>2. CASE StartWorkflow
  BY <1>1, <1>2 DEF StartWorkflow, jobVars, Scheduled, JobTypes
<1>3. ASSUME NEW s \in Slots, NEW j \in JobTypes, Dispatch(s, j)
      PROVE  RecordInv'
  <2>1. PICK b : b = [Idle EXCEPT !.job = j, !.pc = "load",
                                  !.sourceHeight = IF j = "transcode" THEN result ELSE None]
    OBVIOUS
  <2>2. /\ b.job = j /\ b.pc = "load" /\ b.produced = {} /\ b.fresh = {}
        /\ j = "transcode" => b.sourceHeight = result
    BY <2>1 DEF Idle
  <2>3. slot'[s] = b /\ \A t \in Slots \ {s} : slot'[t] = slot[t]
    BY <1>0, <1>3, <2>1, OnlySlot DEF Dispatch, BeginAttempt
  <2>4. j = "transcode" => result = video.height
    BY <1>3 DEF Dispatch, LoneInv, FlowInv, ServerInv, OrderOK, RecordInv, RecordOK
  <2>5. OfRecord(b)
    BY <2>2, <2>4 DEF OfRecord
  <2>6. activity'["metadata"].state = "succeeded" => activity["metadata"].state = "succeeded"
    BY <1>0, <1>3 DEF Dispatch
  <2>7. UNCHANGED <<video, jobs, assets, result>>
    BY <1>3 DEF Dispatch, BeginAttempt, rows
  <2> QED
    BY <1>1, <2>3, <2>5, <2>6, <2>7 DEF RecordInv, RecordOK
\* A slot is given up.
<1>4. ASSUME NEW s \in Slots, EndAttempt(s),
             activity'["metadata"].state = "succeeded" => result' = video.height
      PROVE  RecordInv'
  <2>1. slot'[s] = Idle /\ \A t \in Slots \ {s} : slot'[t] = slot[t]
    BY <1>0, <1>4, OnlySlot DEF EndAttempt
  <2>2. OfRecord(Idle)
    BY NoneAssumption DEF OfRecord, Idle, Running
  <2> QED
    BY <1>1, <1>4, <2>1, <2>2 DEF EndAttempt, rows
<1>5. ASSUME NEW s \in Slots, WorkerStep(s) \/ (Misfortune(s) /\ UNCHANGED flow)
      PROVE  RecordInv'
  BY <1>5, RecordKeepsAttempt DEF WorkerStep
<1>6. ASSUME NEW s \in Slots, ReportSuccess(s)
      PROVE  RecordInv'
  <2>1. slot[s].job \in JobTypes
    BY <1>0, <1>6 DEF ReportSuccess, At
  <2>2. CASE slot[s].job = "metadata"
    BY <1>4, <1>6, <2>2 DEF ReportSuccess, At, RecordInv, OfRecord
  <2>3. CASE slot[s].job # "metadata"
    BY <1>0, <1>4, <1>6, <2>1, <2>3 DEF ReportSuccess, RecordInv, RecordOK
  <2> QED
    BY <2>2, <2>3
<1>7. ASSUME NEW s \in Slots, ReportFailure(s)
      PROVE  RecordInv'
  <2>1. PICK st \in {"scheduled", "failed"} : activity' = [activity EXCEPT ![slot[s].job].state = st]
    BY <1>7 DEF ReportFailure, Retry
  <2>2. activity'["metadata"].state = "succeeded" => activity["metadata"].state = "succeeded"
    BY <1>0, <2>1
  <2> QED
    BY <1>4, <1>7, <2>2 DEF ReportFailure, RecordInv, RecordOK
<1>8. ASSUME NEW s \in Slots, Overrun(s) \/ IgnoreReport(s)
      PROVE  RecordInv'
  BY <1>8 DEF Overrun, IgnoreReport, Heard, LoneInv, QuietInv
<1>9. CASE ScheduleTranscode
  BY <1>0, <1>1, <1>9 DEF ScheduleTranscode, Scheduled, jobVars, RecordInv, RecordOK
<1>10. CASE CloseFailed \/ CloseCompleted
  BY <1>1, <1>10 DEF CloseFailed, CloseCompleted, jobVars, RecordInv, RecordOK
<1>11. CASE UNCHANGED vars
  BY <1>1, <1>11 DEF vars, jobVars, flow, RecordInv, RecordOK
<1> QED
  BY <1>2, <1>3, <1>5, <1>6, <1>7, <1>8, <1>9, <1>10, <1>11
     DEF WorkflowNext, ExecutionNext, WorkflowTask, Report

\* No refusal of metadata but for a missing row.
RefusedOK ==
    \A s \in Slots : slot[s].job = "metadata" /\ At(s, "refused") => video.status = "absent"

\* A finished metadata job finds the height it is asked for in the video it has read.
LEMMA RefusedKeepsAttempt ==
    ASSUME LoneInv, RecordInv, RefusedOK,
           NEW s \in Slots, Progress(s) \/ Misfortune(s), UNCHANGED flow
    PROVE  RefusedOK'
<1> DEFINE a == slot[s]
<1>1. PICK b : Becomes(s, b) /\ HandsOn(s, b) /\ Moves(s, b)
  BY AttemptMoves DEF LoneInv, FlowInv
<1>2. slot'[s] = b /\ \A t \in Slots \ {s} : slot'[t] = slot[t]
  BY <1>1, OnlySlot DEF LoneInv, FlowInv
<1>3. video.status = "absent" => video' = video
  BY <1>1, VideoStaysPresent DEF LoneInv, FlowInv, QuietInv, SessionsOK, rows
<1>4. b.job = "metadata" /\ b.pc = "refused" => video.status = "absent"
  <2>1. CASE Reads(s, b)
    BY <1>1, <2>1 DEF Reads, HandsOn, RecordInv, RecordOK, OfRecord, At
  <2>2. CASE FailsJob(s, b)
    BY <1>1, <2>2 DEF FailsJob, HandsOn, LoneInv, QuietInv, TranscodeOK
  <2> QED
    BY <1>1, <2>1, <2>2 DEF Moves, Cuts, Loads, Inserts, ClaimsJob, Works, Counts, Completes
<1> QED
  BY <1>2, <1>3, <1>4 DEF RefusedOK, At

\* The server's steps refuse nothing and leave the video alone.
LEMMA RefusedStep ==
    ASSUME LoneInv, RecordInv, RefusedOK, [WorkflowNext]_vars
    PROVE  RefusedOK'
<1>0. TypeInv
  BY DEF LoneInv, FlowInv
<1>1. ASSUME NEW s \in Slots, NEW b, Becomes(s, b), b.pc \in {"idle", "load"}, UNCHANGED rows
      PROVE  RefusedOK'
  BY <1>0, <1>1, OnlySlot DEF RefusedOK, At, rows
<1>2. ASSUME NEW s \in Slots, NEW j \in JobTypes, Dispatch(s, j)
      PROVE  RefusedOK'
  <2>1. PICK b : b = [Idle EXCEPT !.job = j, !.pc = "load",
                                  !.sourceHeight = IF j = "transcode" THEN result ELSE None]
    OBVIOUS
  <2>2. b.pc = "load"
    BY <2>1 DEF Idle
  <2> QED
    BY <1>1, <1>2, <2>1, <2>2 DEF Dispatch, BeginAttempt
<1>3. ASSUME NEW s \in Slots, Report(s)
      PROVE  RefusedOK'
  <2>1. Becomes(s, Idle) /\ UNCHANGED rows
    BY <1>3 DEF Report, ReportSuccess, ReportFailure, IgnoreReport, EndAttempt
  <2>2. Idle.pc = "idle"
    BY DEF Idle
  <2> QED
    BY <1>1, <2>1, <2>2
<1>4. ASSUME NEW s \in Slots, WorkerStep(s) \/ (Misfortune(s) /\ UNCHANGED flow)
      PROVE  RefusedOK'
  BY <1>4, RefusedKeepsAttempt DEF WorkerStep
<1>5. ASSUME UNCHANGED jobVars
      PROVE  RefusedOK'
  BY <1>5 DEF jobVars, RefusedOK, At
<1>6. CASE StartWorkflow \/ WorkflowTask \/ \E s \in Slots : Overrun(s)
  BY <1>5, <1>6
     DEF StartWorkflow, WorkflowTask, ScheduleTranscode, CloseFailed, CloseCompleted, Overrun
<1>7. CASE UNCHANGED vars
  BY <1>5, <1>7 DEF vars
<1> QED
  BY <1>2, <1>3, <1>4, <1>6, <1>7 DEF WorkflowNext, ExecutionNext

\* A metadata attempt is refused for good only when the video has no row: a job
\* whose report was lost is answered from the columns it had committed, whichever
\* attempt finds it completed (_stored_metadata).
THEOREM MetadataAttemptsAreAnswered ==
    ASSUME "overrun" \notin Faults
    PROVE  WorkflowSafety => []MetadataIsAnswered
<1>1. WorkflowInit => RecordInv /\ RefusedOK
  BY RecordInit DEF WorkflowInit, JobsInit, RefusedOK, Idle, At
<1>2. LoneInv /\ RecordInv /\ [WorkflowNext]_vars => RecordInv'
  BY RecordStep
<1>3. LoneInv /\ RecordInv /\ RefusedOK /\ [WorkflowNext]_vars => RefusedOK'
  BY RefusedStep
<1>4. RefusedOK => MetadataIsAnswered
  BY DEF RefusedOK, MetadataIsAnswered
<1> QED
  BY <1>1, <1>2, <1>3, <1>4, LoneInvariant, PTL DEF WorkflowSafety

-------------------------------------------------------------------------------
\* The refinement: what VideoLifecycle sees of a state, and of a step.

Done == {j \in JobTypes : jobs[j].status = "completed"}

Seen == <<video.status, Done, execution>>

LifecycleMoves == UNCHANGED Seen \/ Lifecycle!Start \/ Lifecycle!WorkerNext

\* What the lifecycle sees is what the mapping says.
LEMMA SeenIsMapped == Seen = Lifecycle!lifecycle /\ Seen' = (Lifecycle!lifecycle)'
BY DEF Seen, Done, Lifecycle!lifecycle

\* A commit of an attempt is a claim, a completion or a failure of its job, or nothing
\* the lifecycle sees.
LEMMA CommitIsSeen ==
    ASSUME LoneInv, NEW s \in Slots, NEW b, HandsOn(s, b), Moves(s, b), UNCHANGED execution
    PROVE  LifecycleMoves
<1> DEFINE a == slot[s]
<1>1. /\ video \in [status : VideoStatuses, height : Heights \cup {None}]
      /\ jobs \in [JobTypes -> JobRow]
      /\ a.job \in JobTypes /\ a.pc # "idle"
  BY DEF LoneInv, FlowInv, TypeInv, JobsTypeOK, HasJob, HandsOn
<1>2. execution = "running"
  BY <1>1, LoneAttempts DEF LoneInv, FlowInv, ServerInv, OrderOK, QuietInv
<1>3. a.pc \in Running \ {"load", "read"} =>
        a.job \notin Done /\ video.status # "absent" /\ a.status # "completed"
  BY <1>1 DEF LoneInv, AloneInv, Fresh, QuietInv, SessionsOK, Done
<1>4. CASE UNCHANGED rows
  BY <1>4 DEF rows, LifecycleMoves, Seen, Done
<1>5. CASE Inserts(s, b)
  <2>1. Done' = Done /\ video' = video
    BY <1>1, <1>3, <1>5 DEF Inserts, InsertRow, NewRow, Done, At, Running
  <2> QED
    BY <2>1 DEF LifecycleMoves, Seen
<1>6. CASE ClaimsJob(s, b)
  <2>1. Done' = Done
    BY <1>1, <1>3, <1>6 DEF ClaimsJob, ClaimRows, Done, At, Running
  <2>2. video'.status \in {video.status, "processing"}
    BY <1>1, <1>6 DEF ClaimsJob, ClaimRows
  <2>3. Done # JobTypes /\ video.status # "absent"
    BY <1>1, <1>3, <1>6 DEF ClaimsJob, At, Running
  <2> QED
    BY <1>2, <2>1, <2>2, <2>3
       DEF LifecycleMoves, Seen, Done, Lifecycle!WorkerNext, Lifecycle!Claim
<1>7. CASE Completes(s, b)
  <2>1. Done' = Done \cup {a.job}
    BY <1>1, <1>7 DEF Completes, CompleteRows, JobRow, Done
  <2>2. a.job \notin Done /\ video.status # "absent" /\ a.status # "completed"
    BY <1>3, <1>7 DEF Completes, At, Running
  <2>3. video'.status = IF a.allDone THEN "completed" ELSE video.status
    BY <1>1, <1>7, <2>2 DEF Completes, CompleteRows
  <2>4. a.allDone => JobTypes \ {a.job} \subseteq Done
    BY <1>7 DEF LoneInv, AloneInv, Fresh, Completes, At, Done
  <2>5. a.job = "transcode" => a.allDone /\ Done = JobTypes \ {a.job}
    BY <1>7, <2>2, SiblingsAreDone DEF LoneInv, QuietInv, TranscodeOK, Completes, Done, JobTypes
  <2>6. a.job # "transcode" => Done' # JobTypes
    BY <1>1, <2>1, <2>2 DEF LoneInv, QuietInv, TranscodeOK, Done, JobTypes
  <2>7. video'.status = IF Done' = JobTypes THEN "completed" ELSE video.status
    BY <1>1, <2>1, <2>2, <2>3, <2>4, <2>5, <2>6 DEF Done
  <2>8. \E j \in JobTypes : Lifecycle!Finish(j)
    BY <1>1, <1>2, <2>1, <2>2, <2>5, <2>7 DEF Lifecycle!Finish, Done
  <2> QED
    BY <2>8 DEF LifecycleMoves, Lifecycle!WorkerNext
<1>8. CASE FailsJob(s, b)
  <2>1. Done' = Done
    BY <1>1, <1>3, <1>8 DEF FailsJob, FailRows, JobRow, Done, Running
  <2>2. video'.status = "failed"
    BY <1>1, <1>8 DEF FailsJob, FailRows
  <2>3. Done # JobTypes /\ video.status # "absent"
    BY <1>1, <1>3, <1>8 DEF FailsJob, Running
  <2> QED
    BY <1>2, <2>1, <2>2, <2>3
       DEF LifecycleMoves, Seen, Done, Lifecycle!WorkerNext, Lifecycle!Fail
<1> QED
  BY <1>4, <1>5, <1>6, <1>7, <1>8 DEF Moves, Cuts, Loads, Reads, Works, Counts

\* Every step of the workflow is one of the lifecycle or a stutter: one case per action.
LEMMA LifecycleStep ==
    ASSUME "overrun" \notin Faults, LoneInv, [WorkflowNext]_vars
    PROVE  LifecycleMoves
<1>1. ASSUME UNCHANGED <<video, jobs, execution>>
      PROVE  LifecycleMoves
  BY <1>1 DEF LifecycleMoves, Seen, Done
<1>2. ASSUME UNCHANGED <<video, jobs>>
      PROVE  video'.status = video.status /\ Done' = Done
  BY <1>2 DEF Done
<1>3. CASE StartWorkflow
  <2>1. video'.status = video.status /\ Done' = Done
    BY <1>2, <1>3 DEF StartWorkflow, jobVars
  <2> QED
    BY <1>3, <2>1 DEF StartWorkflow, LifecycleMoves, Done, Lifecycle!Start
<1>4. ASSUME NEW s \in Slots, WorkerStep(s) \/ (Misfortune(s) /\ UNCHANGED flow)
      PROVE  LifecycleMoves
  <2>1. PICK b : HandsOn(s, b) /\ Moves(s, b)
    BY <1>4, AttemptMoves DEF WorkerStep, LoneInv, FlowInv
  <2> QED
    BY <1>4, <2>1, CommitIsSeen DEF WorkerStep, flow
<1>5. CASE CloseFailed
  <2>1. video'.status = video.status /\ Done' = Done
    BY <1>2, <1>5 DEF CloseFailed, jobVars
  <2> QED
    BY <1>5, <2>1 DEF CloseFailed, LifecycleMoves, Done, Lifecycle!WorkerNext, Lifecycle!Close
<1>6. CASE CloseCompleted
  <2>1. video'.status = video.status /\ Done' = Done
    BY <1>2, <1>6 DEF CloseCompleted, jobVars
  <2>2. Done = JobTypes
    BY <1>6 DEF CloseCompleted, LoneInv, FlowInv, ServerInv, OrderOK, QuietInv, ReportsOK, Done,
       JobTypes
  <2> QED
    BY <1>6, <2>1, <2>2
       DEF CloseCompleted, LifecycleMoves, Done, Lifecycle!WorkerNext, Lifecycle!Close
<1>7. ASSUME NEW s \in Slots, Report(s) \/ Overrun(s) \/ \E j \in JobTypes : Dispatch(s, j)
      PROVE  LifecycleMoves
  BY <1>1, <1>7 DEF Report, ReportSuccess, ReportFailure, IgnoreReport, EndAttempt, Overrun,
     Dispatch, BeginAttempt, rows, jobVars
<1>8. CASE ScheduleTranscode
  BY <1>1, <1>8 DEF ScheduleTranscode, jobVars
<1>9. CASE UNCHANGED vars
  BY <1>1, <1>9 DEF vars, jobVars, flow
<1> QED
  BY <1>3, <1>4, <1>5, <1>6, <1>7, <1>8, <1>9 DEF WorkflowNext, ExecutionNext, WorkflowTask

\* The workflow with its retries, its workers and their sessions implements the life of
\* a video that VideoLifecycle describes: the initial states are its initial states, and
\* every step is one of its steps or none.
THEOREM WorkflowImplementsLifecycle ==
    ASSUME "overrun" \notin Faults
    PROVE  WorkflowSafety => ImplementsLifecycle
<1>1. WorkflowInit => Lifecycle!LifecycleInit
  BY DEF WorkflowInit, JobsInit, NoRow, Lifecycle!LifecycleInit
<1>2. ASSUME LoneInv, [WorkflowNext]_vars
      PROVE  [Lifecycle!LifecycleNext]_(Lifecycle!lifecycle)
  BY <1>2, LifecycleStep, SeenIsMapped DEF LifecycleMoves, Lifecycle!LifecycleNext
<1> QED
  BY <1>1, <1>2, LoneInvariant, PTL
     DEF WorkflowSafety, ImplementsLifecycle, Lifecycle!LifecycleSpec
===============================================================================
