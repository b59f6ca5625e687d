-------------------------- MODULE DatabaseProofs ---------------------------
(***************************************************************************)
(* What the components that share the database rest on: the pool and the   *)
(* budget of failures stay within their limits.                            *)
(***************************************************************************)
EXTENDS Database, FiniteSetTheorems, TLAPS

\* A connection that comes out of a pool that is not full leaves it within its
\* limit.
LEMMA ConnectKeepsLimit ==
    ASSUME NEW session, IsFiniteSet(conns), Cardinality(conns) <= PoolSize,
           Connect(session)
    PROVE  IsFiniteSet(conns') /\ Cardinality(conns') <= PoolSize
<1>1. PoolSize \in Nat /\ Cardinality(conns) \in Nat
  BY Instance, FS_CardinalityType
<1>2. /\ IsFiniteSet(conns \cup {session})
      /\ Cardinality(conns \cup {session}) =
           IF session \in conns THEN Cardinality(conns) ELSE Cardinality(conns) + 1
  BY FS_AddElement, Zenon
<1>3. session \in conns \/ Cardinality(conns) < PoolSize
  BY <1>1 DEF Connect, PoolFull
<1> QED
  BY <1>1, <1>2, <1>3 DEF Connect

\* Returning a connection keeps the pool within its limit.
LEMMA DisconnectKeepsLimit ==
    ASSUME NEW session, IsFiniteSet(conns), Cardinality(conns) <= PoolSize,
           Disconnect(session)
    PROVE  IsFiniteSet(conns') /\ Cardinality(conns') <= PoolSize
<1>1. PoolSize \in Nat /\ Cardinality(conns) \in Nat
  BY Instance, FS_CardinalityType
<1>2. /\ IsFiniteSet(conns \ {session})
      /\ Cardinality(conns \ {session}) =
           IF session \in conns THEN Cardinality(conns) - 1 ELSE Cardinality(conns)
  BY FS_RemoveElement, Zenon
<1> QED
  BY <1>1, <1>2 DEF Disconnect

\* Using up the budget of failures keeps it a budget.
LEMMA FaultTyped ==
    ASSUME faults \in 0 .. MaxFaults, Fault
    PROVE  faults' \in 0 .. MaxFaults
BY Instance DEF Fault
=============================================================================
