----------------------------- MODULE ConnectionPool -----------------------------
(***************************************************************************)
(* The connection pool of one process (engine in common/db/session.py) as  *)
(* its sessions see it.  A session takes a connection with the first       *)
(* statement of a transaction and gives it back when the transaction ends  *)
(* or the session is closed.  Connections are interchangeable, and one     *)
(* found dead is replaced (pool_pre_ping), so only their holders count.    *)
(***************************************************************************)
EXTENDS Naturals, FiniteSets

CONSTANTS
    Sessions,       \* whoever may open a session
    PoolSize,       \* db_pool_size
    MaxOverflow     \* db_max_overflow

ASSUME PoolAssumption == PoolSize \in Nat /\ MaxOverflow \in Nat

VARIABLE holding    \* the sessions that hold a connection

Capacity == PoolSize + MaxOverflow

Exhausted == Cardinality(holding) >= Capacity

PoolInit == holding = {}

\* Mutant of CheckOut: overflow without a limit (max_overflow = -1).
CheckOutUnlimited(s) ==
    /\ s \notin holding
    /\ holding' = holding \cup {s}

CheckOut(s) ==
    /\ s \notin holding
    /\ ~Exhausted
    /\ holding' = holding \cup {s}

\* db_pool_timeout passes with every connection taken.
PoolTimeout(s) ==
    /\ s \notin holding
    /\ Exhausted
    /\ UNCHANGED holding

\* Commit, rollback or the end of `async with SessionFactory()`.
Return(s) == holding' = holding \ {s}

-------------------------------------------------------------------------------
\* The database is never asked for more connections than the two settings add up to.
WithinCapacity == holding \subseteq Sessions /\ Cardinality(holding) =< Capacity
===============================================================================
