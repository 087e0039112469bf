--------------------------- MODULE Runtime_proofs ---------------------------
(* Theorems about Runtime, for any number of calls and connections.         *)
EXTENDS Runtime, TLAPS

USE NoneAssumption

LEMMA InitTyped == Init => TypeOK
  BY DEF Init, TypeOK, Awaits

LEMMA StepTyped == TypeOK /\ [Next]_vars => TypeOK'
  <1> SUFFICES ASSUME TypeOK, [Next]_vars PROVE TypeOK'
    OBVIOUS
  <1> USE DEF TypeOK, Awaits, Return, EnsureConnected, DropClient
  <1>1. ASSUME NEW t \in Calls,
               CallUnserialized(t) \/ CallSerialized(t) \/ Acquire(t)
        PROVE  TypeOK'
    BY <1>1 DEF CallUnserialized, CallSerialized, Acquire
  <1>2. ASSUME NEW t \in Calls, NEW c \in Clients, Connected(t, c) PROVE TypeOK'
    BY <1>2 DEF Connected
  <1>3. ASSUME NEW t \in Calls,
               ConnectFails(t) \/ Answered(t) \/ RunEscapes(t) \/ Closed(t) \/ Cancelled(t)
        PROVE  TypeOK'
    BY <1>3 DEF ConnectFails, Answered, RunEscapes, Closed, Cancelled
  <1>4. ASSUME NEW t \in Calls, RunFails(t) PROVE TypeOK'
    BY <1>4 DEF RunFails
  <1>5. ASSUME NEW c \in Clients, ConnectionBreaks(c) PROVE TypeOK'
    BY <1>5 DEF ConnectionBreaks
  <1>6. CASE Unload
    BY <1>6 DEF Unload
  <1>7. CASE UNCHANGED vars
    BY <1>7 DEF vars
  <1> QED BY <1>1, <1>2, <1>3, <1>4, <1>5, <1>6, <1>7 DEF Next

\* Every variable of the runtime keeps its type.
THEOREM TypeCorrect == Spec => []TypeOK
  BY InitTyped, StepTyped, PTL DEF Spec

----------------------------------------------------------------------------
\* Whoever acts under serialized=True is the holder of the action lock.
LockInv ==
    \A t \in Calls :
        /\ pc[t] = "lock" => t \in serialized
        /\ pc[t] = "idle" => t \notin serialized
        /\ t \in serialized /\ Acting(t) => action_lock = t
        /\ action_lock = t => t \in serialized /\ Acting(t)

LEMMA InitLock == Init => LockInv
  BY DEF Init, LockInv, Acting

LEMMA StepLock == TypeOK /\ LockInv /\ [Next]_vars => LockInv'
  <1> SUFFICES ASSUME TypeOK, LockInv, [Next]_vars PROVE LockInv'
    OBVIOUS
  <1> USE DEF TypeOK, LockInv, Acting, Return, EnsureConnected, DropClient
  <1>1. ASSUME NEW t \in Calls, CallUnserialized(t) PROVE LockInv'
    <2>1. t \notin serialized
      BY <1>1 DEF CallUnserialized
    <2> QED BY <1>1, <2>1 DEF CallUnserialized
  <1>2. ASSUME NEW t \in Calls, CallSerialized(t) \/ Acquire(t) PROVE LockInv'
    BY <1>2 DEF CallSerialized, Acquire
  <1>3. ASSUME NEW t \in Calls, NEW c \in Clients, Connected(t, c) PROVE LockInv'
    BY <1>3 DEF Connected
  <1>4. ASSUME NEW t \in Calls,
               ConnectFails(t) \/ Answered(t) \/ RunEscapes(t) \/ Closed(t) \/ Cancelled(t)
        PROVE  LockInv'
    BY <1>4 DEF ConnectFails, Answered, RunEscapes, Closed, Cancelled
  <1>5. ASSUME NEW t \in Calls, RunFails(t) PROVE LockInv'
    BY <1>5 DEF RunFails
  <1>6. ASSUME NEW c \in Clients, ConnectionBreaks(c) PROVE LockInv'
    BY <1>6 DEF ConnectionBreaks
  <1>7. CASE Unload
    BY <1>7 DEF Unload
  <1>8. CASE UNCHANGED vars
    BY <1>8 DEF vars
  <1> QED BY <1>1, <1>2, <1>3, <1>4, <1>5, <1>6, <1>7, <1>8 DEF Next

\* Serialized calls of an entry exclude each other, for any number of calls.
THEOREM SerializedCorrect == Spec => []SerializedCallsExclude
  <1>1. TypeOK /\ LockInv => SerializedCallsExclude
    BY DEF TypeOK, LockInv, SerializedCallsExclude
  <1> QED BY <1>1, InitTyped, StepTyped, InitLock, StepLock, PTL DEF Spec

\* The lock is held by a call under way or free, however many calls queue for
\* it and wherever they fail or are cancelled: the safety that
\* EveryCallReturns rests on.
THEOREM LockCorrect == Spec => []LockFollowsCalls
  <1>1. TypeOK /\ LockInv => LockFollowsCalls
    BY DEF TypeOK, LockInv, LockFollowsCalls
  <1> QED BY <1>1, InitTyped, StepTyped, InitLock, StepLock, PTL DEF Spec

----------------------------------------------------------------------------
LEMMA StepCached == TypeOK /\ CachedClientNotClosed /\ [Next]_vars => CachedClientNotClosed'
  <1> SUFFICES ASSUME TypeOK, CachedClientNotClosed, [Next]_vars
               PROVE  CachedClientNotClosed'
    OBVIOUS
  <1> USE DEF CachedClientNotClosed, TypeOK
  <1>1. ASSUME NEW t \in Calls, NEW c \in Clients, Connected(t, c)
        PROVE  CachedClientNotClosed'
    BY <1>1 DEF Connected
  <1>2. ASSUME DropClient PROVE CachedClientNotClosed'
    BY <1>2 DEF DropClient
  <1>3. ASSUME NEW c \in Clients, ConnectionBreaks(c) PROVE CachedClientNotClosed'
    BY <1>3 DEF ConnectionBreaks
  <1>4. CASE UNCHANGED <<client, conn>>
    BY <1>4
  <1> QED
    BY <1>1, <1>2, <1>3, <1>4
    DEF Next, vars, CallUnserialized, CallSerialized, Acquire, ConnectFails, Answered,
        RunFails, RunEscapes, Closed, Cancelled, Unload

\* The cache never hands out a client that this integration has closed.
THEOREM CachedCorrect == Spec => []CachedClientNotClosed
  <1>1. Init => CachedClientNotClosed
    BY DEF Init, CachedClientNotClosed
  <1> QED BY <1>1, StepCached, InitTyped, StepTyped, PTL DEF Spec
=============================================================================
