-------------------------- MODULE TemporalWorkerProofs --------------------------
(***************************************************************************)
(* Theorems about TemporalWorker, for any number of slots and any size of  *)
(* the connection pool.                                                    *)
(***************************************************************************)
EXTENDS TemporalWorker, FiniteSetTheorems, TLAPS

\* The pool of the process, as numbers can be reasoned about.
PoolInv == WithinCapacity /\ IsFiniteSet(holding)

Held == {"loading", "claiming", "saving", "marking", "end"}

\* Only an attempt that met an error of its own goes to mark its job.
Justified(a) == (a.phase \in {"mark", "marking"} \/ a.marked) => a.error

WorkerInv ==
    /\ process \in {"up", "stopping", "expired", "down"}
    /\ attempt \in [Slots -> Attempts]
    /\ children \in SUBSET Slots
    /\ PoolInv
    /\ NoWaitWithConnection
    /\ NoOrphans
    /\ holding \subseteq Slots
    /\ \A s \in Slots : Justified(attempt[s])

\* A started process has no attempt, no child and no connection.
LEMMA WorkerStarts == WorkerInit => WorkerInv
<1> SUFFICES ASSUME WorkerInit PROVE WorkerInv
  OBVIOUS
<1>1. PoolInv /\ holding = {}
  <2>1. IsFiniteSet({}) /\ Cardinality({}) = 0
    BY FS_EmptySet
  <2> QED
    BY <2>1, PoolAssumption DEF WorkerInit, PoolInit, PoolInv, WithinCapacity, Capacity
<1> QED
  BY <1>1 DEF WorkerInit, WorkerInv, NoAttempt, Attempts, Phases, Justified,
              NoWaitWithConnection, NoOrphans

\* A step that changes one attempt, and of the pool and the children at most that
\* attempt's part, keeps the invariant if the new attempt fits what it holds.
LEMMA OneSlotMoves ==
    ASSUME WorkerInv, NEW s \in Slots, NEW a \in Attempts,
           attempt' = [attempt EXCEPT ![s] = a],
           process' = process, PoolInv',
           holding' \subseteq holding \cup {s},
           children' \subseteq children \cup {s},
           s \in holding' => a.phase \in Held,
           s \in children' => a.phase \in {"work", "reap"},
           Justified(a)
    PROVE  WorkerInv'
<1>1. attempt' \in [Slots -> Attempts]
  BY DEF WorkerInv
<1>2. attempt'[s] = a /\ \A t \in Slots \ {s} : attempt'[t] = attempt[t]
  BY DEF WorkerInv
<1>3. NoWaitWithConnection'
  BY <1>2 DEF WorkerInv, NoWaitWithConnection, Held
<1>4. NoOrphans'
  BY <1>2 DEF WorkerInv, NoOrphans
<1>5. \A t \in Slots : Justified(attempt'[t])
  BY <1>2 DEF WorkerInv
<1>6. children' \in SUBSET Slots /\ holding' \subseteq Slots
  BY DEF WorkerInv
<1> QED
  BY <1>1, <1>3, <1>4, <1>5, <1>6 DEF WorkerInv

\* The attempt an assignment to some of its fields leaves behind.
LEMMA MovedAttempt ==
    ASSUME NEW s \in Slots, attempt[s] \in Attempts, NEW p \in Phases
    PROVE  /\ [attempt[s] EXCEPT !.phase = p] \in Attempts
           /\ [attempt[s] EXCEPT !.phase = p, !.error = TRUE] \in Attempts
BY DEF Attempts

\* A change of phase keeps the invariant if the new phase fits what the attempt holds,
\* and is not the marking of a job but by an attempt with an error.
LEMMA GotoMoves ==
    ASSUME WorkerInv, NEW s \in Slots, NEW p \in Phases, Goto(s, p),
           p \in {"mark", "marking"} => attempt[s].error,
           process' = process, PoolInv',
           holding' \subseteq holding \cup {s},
           children' \subseteq children \cup {s},
           s \in holding' => p \in Held,
           s \in children' => p \in {"work", "reap"}
    PROVE  WorkerInv'
<1> DEFINE a == [attempt[s] EXCEPT !.phase = p]
<1>1. attempt[s] \in Attempts /\ Justified(attempt[s])
  BY DEF WorkerInv
<1>2. a \in Attempts
  BY <1>1, MovedAttempt
<1>3. attempt' = [attempt EXCEPT ![s] = a]
  BY DEF Goto
<1>4. a.phase = p /\ Justified(a)
  BY <1>1 DEF Justified, Attempts
<1> QED
  BY <1>2, <1>3, <1>4, OneSlotMoves

\* So does an error, whatever phase it leads to.
LEMMA RaiseMoves ==
    ASSUME WorkerInv, NEW s \in Slots, NEW p \in Phases, Raise(s, p),
           process' = process, PoolInv',
           holding' \subseteq holding \cup {s},
           children' \subseteq children \cup {s},
           s \in holding' => p \in Held,
           s \in children' => p \in {"work", "reap"}
    PROVE  WorkerInv'
<1> DEFINE a == [attempt[s] EXCEPT !.phase = p, !.error = TRUE]
<1>1. attempt[s] \in Attempts
  BY DEF WorkerInv
<1>2. a \in Attempts
  BY <1>1, MovedAttempt
<1>3. attempt' = [attempt EXCEPT ![s] = a]
  BY DEF Raise
<1>4. a.phase = p /\ Justified(a)
  BY <1>1 DEF Justified, Attempts
<1> QED
  BY <1>2, <1>3, <1>4, OneSlotMoves

\* The pool along the ways an attempt's step can touch it.
LEMMA PoolMoves ==
    ASSUME WorkerInv, NEW s \in Slots,
           CheckOut(s) \/ Return(s) \/ PoolTimeout(s) \/ UNCHANGED holding
    PROVE  PoolInv' /\ holding' \subseteq holding \cup {s}
<1>1. /\ holding \subseteq Sessions /\ s \in Sessions
      /\ IsFiniteSet(holding) /\ Cardinality(holding) \in Nat
      /\ Capacity \in Nat /\ Cardinality(holding) =< Capacity
  BY SlotsAssumption, PoolAssumption, FS_CardinalityType DEF WorkerInv, PoolInv, WithinCapacity, Capacity
<1>2. CASE CheckOut(s)
  <2>1. IsFiniteSet(holding \cup {s}) /\ Cardinality(holding \cup {s}) = Cardinality(holding) + 1
    BY <1>1, <1>2, FS_AddElement DEF CheckOut
  <2> QED
    BY <1>1, <1>2, <2>1 DEF CheckOut, Exhausted, PoolInv, WithinCapacity, Capacity
<1>3. CASE Return(s)
  <2>1. /\ IsFiniteSet(holding \ {s})
        /\ Cardinality(holding \ {s}) \in {Cardinality(holding), Cardinality(holding) - 1}
    BY <1>1, FS_RemoveElement
  <2> QED
    BY <1>1, <1>3, <2>1 DEF Return, PoolInv, WithinCapacity, Capacity
<1>4. CASE PoolTimeout(s) \/ UNCHANGED holding
  BY <1>1, <1>4 DEF PoolTimeout, PoolInv, WithinCapacity, Capacity
<1> QED
  BY <1>2, <1>3, <1>4 DEF CheckOut, Return, PoolTimeout

-------------------------------------------------------------------------------
\* An attempt that takes a connection, or waits for one in vain, keeps the invariant.
LEMMA ConnectingKeepsInv ==
    ASSUME WorkerInv, NEW s \in Slots, Poll(s) \/ Connect(s) \/ ConnectTimesOut(s)
    PROVE  WorkerInv'
<1>1. attempt[s] \in Attempts /\ Justified(attempt[s])
  BY DEF WorkerInv
<1>2. (s \in holding => attempt[s].phase \in Held)
      /\ (s \in children => attempt[s].phase \in {"work", "reap"})
  BY DEF WorkerInv, NoWaitWithConnection, NoOrphans, Held
<1>3. CASE Poll(s)
  <2>1. PoolInv' /\ s \notin holding' /\ s \notin children'
    BY <1>2, <1>3, PoolMoves DEF Poll, At, Held
  <2> QED
    BY <1>3, <2>1, GotoMoves DEF Poll, Phases
<1>4. CASE Connect(s)
  <2>1. PoolInv' /\ holding' \subseteq holding \cup {s}
    BY <1>4, PoolMoves DEF Connect
  <2>2. PICK p \in {"loading", "claiming", "saving", "marking"} :
           Goto(s, p) /\ (p = "marking" => attempt[s].phase = "mark")
    BY <1>4 DEF Connect, Waits
  <2>3. s \notin children' /\ process' = process /\ children' = children
    BY <1>2, <1>4 DEF Connect, Waits
  <2> QED
    BY <1>1, <2>1, <2>2, <2>3, GotoMoves DEF Phases, Held, Justified
<1>5. CASE ConnectTimesOut(s)
  <2>1. PoolInv' /\ holding' = holding /\ process' = process /\ children' = children
    BY <1>5, PoolMoves DEF ConnectTimesOut, PoolTimeout
  <2>2. s \notin holding' /\ s \notin children'
    BY <1>2, <1>5 DEF ConnectTimesOut, PoolTimeout, Waits
  <2>3. Raise(s, "end") \/ Raise(s, "mark")
    BY <1>5 DEF ConnectTimesOut
  <2>4. CASE Raise(s, "end")
    BY <2>1, <2>2, <2>4, RaiseMoves DEF Phases
  <2>5. CASE Raise(s, "mark")
    BY <2>1, <2>2, <2>5, RaiseMoves DEF Phases
  <2> QED
    BY <2>3, <2>4, <2>5
<1> QED
  BY <1>3, <1>4, <1>5

\* An attempt that holds a connection gives it back before it waits or works again.
LEMMA StatementsKeepInv ==
    ASSUME WorkerInv, NEW s \in Slots,
           Insert(s) \/ Claim(s) \/ Save(s) \/ Mark(s) \/ EndAttempt(s)
    PROVE  WorkerInv'
<1>1. attempt[s] \in Attempts /\ Justified(attempt[s])
  BY DEF WorkerInv
<1>2. s \in children => attempt[s].phase \in {"work", "reap"}
  BY DEF WorkerInv, NoOrphans
<1>3. s \notin children' /\ process' = process /\ children' = children
  BY <1>2 DEF Insert, Claim, Save, Mark, EndAttempt, At
<1>4. PoolInv' /\ holding' \subseteq holding \cup {s}
  BY PoolMoves DEF Insert, Claim, Save, Mark, EndAttempt
<1>5. CASE Insert(s)
  <2>1. Goto(s, "claim") /\ s \notin holding'
    BY <1>5 DEF Insert, Return
  <2> QED
    BY <1>3, <1>4, <2>1, GotoMoves DEF Phases
<1>6. CASE Claim(s)
  <2>1. CASE Goto(s, "work") /\ Return(s)
    BY <1>3, <1>4, <2>1, GotoMoves DEF Phases, Return
  <2>2. CASE Raise(s, "mark") /\ Return(s)
    BY <1>3, <1>4, <2>2, RaiseMoves DEF Phases, Return
  <2>3. CASE Goto(s, "end")
    BY <1>3, <1>4, <2>3, GotoMoves DEF Phases, Held
  <2>4. CASE Raise(s, "end")
    BY <1>3, <1>4, <2>4, RaiseMoves DEF Phases, Held
  <2> QED
    BY <1>6, <2>1, <2>2, <2>3, <2>4 DEF Claim
<1>7. CASE Save(s)
  <2>1. CASE Goto(s, "end")
    BY <1>3, <1>4, <2>1, GotoMoves DEF Phases, Held
  <2>2. CASE Raise(s, "end")
    BY <1>3, <1>4, <2>2, RaiseMoves DEF Phases, Held
  <2> QED
    BY <1>7, <2>1, <2>2 DEF Save
<1>8. CASE Mark(s)
  <2>1. PICK done \in BOOLEAN :
           attempt' = [attempt EXCEPT ![s].phase = "end", ![s].marked = done]
    BY <1>8 DEF Mark
  <2> DEFINE a == [attempt[s] EXCEPT !.phase = "end", !.marked = done]
  <2>2. attempt' = [attempt EXCEPT ![s] = a]
    BY <2>1
  <2>3. a \in Attempts /\ a.phase = "end" /\ a.error = attempt[s].error
    BY <1>1 DEF Attempts, Phases
  <2>4. attempt[s].error
    BY <1>1, <1>8 DEF Mark, At, Justified
  <2>5. Justified(a)
    BY <2>3, <2>4 DEF Justified
  <2> QED
    BY <1>3, <1>4, <2>2, <2>3, <2>5, OneSlotMoves DEF Held
<1>9. CASE EndAttempt(s)
  <2>1. attempt' = [attempt EXCEPT ![s] = NoAttempt] /\ s \notin holding'
    BY <1>9 DEF EndAttempt, Return
  <2>2. NoAttempt \in Attempts /\ Justified(NoAttempt)
    BY DEF NoAttempt, Attempts, Phases, Justified
  <2> QED
    BY <1>3, <1>4, <2>1, <2>2, OneSlotMoves
<1> QED
  BY <1>5, <1>6, <1>7, <1>8, <1>9

\* Children are started and ended by the attempt at work, which holds no connection.
LEMMA WorkKeepsInv ==
    ASSUME WorkerInv, NEW s \in Slots, Spawn(s) \/ ChildExits(s) \/ TransferEnds(s)
    PROVE  WorkerInv'
<1>1. attempt[s] \in Attempts /\ attempt[s].phase = "work"
  BY DEF WorkerInv, Spawn, ChildExits, TransferEnds, At
<1>2. PoolInv' /\ holding' = holding /\ process' = process
  BY PoolMoves DEF Spawn, ChildExits, TransferEnds
<1>3. s \notin holding'
  BY <1>1, <1>2 DEF WorkerInv, NoWaitWithConnection
<1>4. CASE UNCHANGED attempt /\ children' \subseteq children \cup {s}
  <2>1. attempt' = [attempt EXCEPT ![s] = attempt[s]]
    BY <1>4 DEF WorkerInv
  <2>2. Justified(attempt[s])
    BY DEF WorkerInv
  <2> QED
    BY <1>1, <1>2, <1>3, <1>4, <2>1, <2>2, OneSlotMoves
<1>5. CASE s \notin children' /\ children' \subseteq children /\ Goto(s, "save")
  BY <1>2, <1>3, <1>5, GotoMoves DEF Phases
<1>6. CASE s \notin children' /\ children' \subseteq children /\ Raise(s, "mark")
  BY <1>2, <1>3, <1>6, RaiseMoves DEF Phases
<1> QED
  BY <1>4, <1>5, <1>6 DEF Spawn, ChildExits, TransferEnds

\* A cancelled attempt ends unmarked, its child before it.
LEMMA CancellationKeepsInv ==
    ASSUME WorkerInv, NEW s \in Slots, Cancel(s) \/ Reap(s)
    PROVE  WorkerInv'
<1>1. attempt[s] \in Attempts /\ Justified(attempt[s])
  BY DEF WorkerInv
<1>2. PoolInv' /\ holding' = holding /\ process' = process
  BY PoolMoves DEF Cancel, Reap
<1>3. s \in children => s \notin holding
  BY DEF WorkerInv, NoWaitWithConnection, NoOrphans
<1>4. CASE Cancel(s)
  <2> DEFINE p == IF s \in children THEN "reap" ELSE "end"
             a == [attempt[s] EXCEPT !.cancelled = TRUE, !.phase = p]
  <2>1. attempt' = [attempt EXCEPT ![s] = a] /\ children' = children
    BY <1>4 DEF Cancel
  <2>2. a \in Attempts /\ a.phase = p /\ Justified(a)
    BY <1>1 DEF Attempts, Phases, Justified
  <2> QED
    BY <1>2, <1>3, <2>1, <2>2, OneSlotMoves DEF Held
<1>5. CASE Reap(s)
  <2>1. Goto(s, "end") /\ s \notin children' /\ children' \subseteq children
    BY <1>5 DEF Reap
  <2> QED
    BY <1>2, <2>1, GotoMoves DEF Phases, Held
<1> QED
  BY <1>4, <1>5

\* The process ends with its attempts, or takes them, their children and its
\* connections with it.
LEMMA ProcessKeepsInv ==
    ASSUME WorkerInv, Signal \/ GraceExpires \/ Exit \/ Kill \/ Restart \/ UNCHANGED workerVars
    PROVE  WorkerInv'
<1>1. CASE Kill
  <2>1. PoolInv'
    <3>1. IsFiniteSet({}) /\ Cardinality({}) = 0
      BY FS_EmptySet
    <3> QED
      BY <1>1, <3>1, PoolAssumption DEF Kill, PoolInv, WithinCapacity, Capacity
  <2>2. attempt' \in [Slots -> Attempts] /\ \A s \in Slots : attempt'[s] = NoAttempt
    BY <1>1 DEF Kill, NoAttempt, Attempts, Phases
  <2> QED
    BY <1>1, <2>1, <2>2 DEF Kill, WorkerInv, NoAttempt, Justified,
                            NoWaitWithConnection, NoOrphans
<1>2. CASE process' \in {"up", "stopping", "expired", "down"}
           /\ UNCHANGED <<attempt, children, holding>>
  <2>1. PoolInv'
    BY <1>2 DEF WorkerInv, PoolInv, WithinCapacity, Capacity
  <2> QED
    BY <1>2, <2>1 DEF WorkerInv, NoWaitWithConnection, NoOrphans
<1> QED
  BY <1>1, <1>2 DEF Signal, GraceExpires, Exit, Restart, workerVars, WorkerInv

\* Every step of the worker keeps the invariant.
LEMMA WorkerStepKeepsInv == WorkerInv /\ [WorkerNext]_workerVars => WorkerInv'
<1> SUFFICES ASSUME WorkerInv, [WorkerNext]_workerVars PROVE WorkerInv'
  OBVIOUS
<1> QED
  BY ConnectingKeepsInv, StatementsKeepInv, WorkKeepsInv, CancellationKeepsInv,
     ProcessKeepsInv DEF WorkerNext, Step

\* The invariant holds in every state the process can reach.
LEMMA WorkerInvariant == WorkerSpec => []WorkerInv
BY WorkerStarts, WorkerStepKeepsInv, PTL DEF WorkerSpec

-------------------------------------------------------------------------------
\* Every variable keeps its type, and however many attempts run, they never hold more
\* connections than pool_size + max_overflow.
THEOREM WorkerTypeCorrect == WorkerSpec => []WorkerTypeOK
<1>1. WorkerInv => WorkerTypeOK
  BY DEF WorkerInv, PoolInv, WorkerTypeOK
<1> QED
  BY <1>1, WorkerInvariant, PTL

\* No attempt waits, transfers or encodes with a connection in its hand.
THEOREM NoneWaitsWithConnection == WorkerSpec => []NoWaitWithConnection
<1>1. WorkerInv => NoWaitWithConnection
  BY DEF WorkerInv
<1> QED
  BY <1>1, WorkerInvariant, PTL

\* No ffmpeg process outlives its attempt, however the process is stopped.
THEOREM ChildrenAreReaped == WorkerSpec => []NoOrphans
<1>1. WorkerInv => NoOrphans
  BY DEF WorkerInv
<1> QED
  BY <1>1, WorkerInvariant, PTL

\* A shutdown never marks a job failed.
THEOREM ShutdownMarksNothing == WorkerSpec => []CancelledIsNotFailed
<1>1. WorkerInv => CancelledIsNotFailed
  BY DEF WorkerInv, CancelledIsNotFailed, Justified
<1> QED
  BY <1>1, WorkerInvariant, PTL
===============================================================================
