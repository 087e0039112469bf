------------------------------ MODULE Runtime ------------------------------
(***************************************************************************)
(* PiManagerRuntime: the coroutines of one config entry share one cached    *)
(* SSH client and one asyncio lock.  Coroutines interleave only where they  *)
(* await, so each action below runs from one await to the next.             *)
(***************************************************************************)
EXTENDS Naturals

CONSTANTS
    Calls,      \* slots for concurrent async_run_helper calls
    Clients,    \* AsyncSSHClient objects: bounds the connections ever made
    None

ASSUME NoneAssumption == None \notin Calls \cup Clients

VARIABLES
    client,       \* runtime.client
    conn,         \* what has become of each client's connection
    action_lock,  \* the call that holds the lock, or None
    serialized,   \* the calls made with serialized=True
    pc,           \* the await each call is suspended at
    using,        \* the client each call runs its command on, or closes
    loaded        \* the config entry is set up

vars == <<client, conn, action_lock, serialized, pc, using, loaded>>

Awaits == {"idle", "lock", "connect", "run", "close"}

TypeOK ==
    /\ client \in Clients \cup {None}
    /\ conn \in [Clients -> {"new", "open", "broken", "closed"}]
    /\ action_lock \in Calls \cup {None}
    /\ serialized \in SUBSET Calls
    /\ pc \in [Calls -> Awaits]
    /\ using \in [Calls -> Clients \cup {None}]
    /\ \A t \in Calls : pc[t] \in {"run", "close"} => using[t] \in Clients
    /\ loaded \in BOOLEAN

----------------------------------------------------------------------------
\* Slip: the cached client is used without a look at whether there is one.
EnsureConnected_NoCheck(t) ==
    /\ using' = [using EXCEPT ![t] = client]
    /\ pc' = [pc EXCEPT ![t] = "run"]

\* async_ensure_connected up to its first await: a cached client is used at
\* once, whatever state its connection is in.
EnsureConnected(t) ==
    /\ using' = [using EXCEPT ![t] = client]
    /\ pc' = [pc EXCEPT ![t] = IF client # None THEN "run" ELSE "connect"]

\* Slip: a call that fails returns without leaving `async with lock`.
Return_Locked(t) ==
    /\ pc' = [pc EXCEPT ![t] = "idle"]
    /\ using' = [using EXCEPT ![t] = None]
    /\ serialized' = serialized \ {t}
    /\ UNCHANGED action_lock

\* The call returns or raises, and leaves `async with lock` either way.
Return(t) ==
    /\ pc' = [pc EXCEPT ![t] = "idle"]
    /\ using' = [using EXCEPT ![t] = None]
    /\ serialized' = serialized \ {t}
    /\ action_lock' = IF action_lock = t THEN None ELSE action_lock

\* Slip: the client is taken out of the cache only after its close.
DropClient_Late ==
    /\ conn' = [c \in Clients |-> IF c = client THEN "closed" ELSE conn[c]]
    /\ UNCHANGED client

\* _drop_client up to its await: the cache is emptied before the close, and
\* whatever client was cached is the one that is closed.
DropClient ==
    /\ client' = None
    /\ conn' = [c \in Clients |-> IF c = client THEN "closed" ELSE conn[c]]

----------------------------------------------------------------------------
\* An unserialized call (status) needs no lock.
CallUnserialized(t) ==
    /\ loaded /\ pc[t] = "idle"
    /\ EnsureConnected(t)
    /\ UNCHANGED <<client, conn, action_lock, serialized, loaded>>

\* Slip: serialized=True is not passed on.
CallSerialized_NullLock(t) ==
    /\ loaded /\ pc[t] = "idle"
    /\ EnsureConnected(t)
    /\ serialized' = serialized \cup {t}
    /\ UNCHANGED <<client, conn, action_lock, loaded>>

CallSerialized(t) ==
    /\ loaded /\ pc[t] = "idle"
    /\ pc' = [pc EXCEPT ![t] = "lock"]
    /\ serialized' = serialized \cup {t}
    /\ UNCHANGED <<client, conn, action_lock, using, loaded>>

Acquire(t) ==
    /\ pc[t] = "lock"
    /\ action_lock = None
    /\ action_lock' = t
    /\ EnsureConnected(t)
    /\ UNCHANGED <<client, conn, serialized, loaded>>

\* The key is loaded and the new client connects: it becomes the cached
\* client, without a look at the one that another call may have put there.
Connected(t, c) ==
    /\ pc[t] = "connect"
    /\ conn[c] = "new"
    /\ conn' = [conn EXCEPT ![c] = "open"]
    /\ client' = c
    /\ using' = [using EXCEPT ![t] = c]
    /\ pc' = [pc EXCEPT ![t] = "run"]
    /\ UNCHANGED <<action_lock, serialized, loaded>>

\* Key missing, host unreachable, key refused or fingerprint changed: the
\* new client is closed before it was ever cached.
ConnectFails(t) ==
    /\ pc[t] = "connect"
    /\ Return(t)
    /\ UNCHANGED <<client, conn, loaded>>

\* The helper answers, with a result or with an error code of its own.
Answered(t) ==
    /\ pc[t] = "run"
    /\ conn[using[t]] = "open"
    /\ Return(t)
    /\ UNCHANGED <<client, conn, loaded>>

\* PiManagerConnectionError: the transport failed, or the answer took longer
\* than the timeout.
RunFails(t) ==
    /\ pc[t] = "run"
    /\ DropClient
    /\ IF client # None
       THEN /\ using' = [using EXCEPT ![t] = client]
            /\ pc' = [pc EXCEPT ![t] = "close"]
            /\ UNCHANGED <<action_lock, serialized>>
       ELSE Return(t)
    /\ UNCHANGED loaded

\* A channel that ends without an exit status raises a TypeError, which the
\* handler for connection errors lets pass: the client stays cached.
RunEscapes(t) ==
    /\ pc[t] = "run"
    /\ conn[using[t]] # "open"
    /\ Return(t)
    /\ UNCHANGED <<client, conn, loaded>>

Closed(t) ==
    /\ pc[t] = "close"
    /\ Return(t)
    /\ UNCHANGED <<client, conn, loaded>>

\* The task is cancelled at an await (a refresh task, when its entry is
\* unloaded): `async with` releases the lock, `except Exception` and the
\* handler for connection errors do not run.
Cancelled(t) ==
    /\ ~loaded /\ pc[t] # "idle"
    /\ Return(t)
    /\ UNCHANGED <<client, conn, loaded>>

ConnectionBreaks(c) ==
    /\ conn[c] = "open"
    /\ conn' = [conn EXCEPT ![c] = "broken"]
    /\ UNCHANGED <<client, action_lock, serialized, pc, using, loaded>>

\* async_unload_entry, as far as async_close's await.  Calls already made
\* keep the runtime and run on.
Unload ==
    /\ loaded
    /\ loaded' = FALSE
    /\ DropClient
    /\ UNCHANGED <<action_lock, serialized, pc, using>>

----------------------------------------------------------------------------
Init ==
    /\ client = None
    /\ conn = [c \in Clients |-> "new"]
    /\ action_lock = None
    /\ serialized = {}
    /\ pc = [t \in Calls |-> "idle"]
    /\ using = [t \in Calls |-> None]
    /\ loaded = TRUE

\* Every await of a call ends: connecting and running have timeouts.
Resume(t) ==
    \/ \E c \in Clients : Connected(t, c)
    \/ ConnectFails(t) \/ Answered(t) \/ RunFails(t) \/ RunEscapes(t) \/ Closed(t)

Next ==
    \/ \E t \in Calls :
          \/ CallUnserialized(t)
          \/ CallSerialized(t)
          \/ Acquire(t)
          \/ \E c \in Clients : Connected(t, c)
          \/ ConnectFails(t)
          \/ Answered(t)
          \/ RunFails(t)
          \/ RunEscapes(t)
          \/ Closed(t)
          \/ Cancelled(t)
    \/ \E c \in Clients : ConnectionBreaks(c)
    \/ Unload

Spec == Init /\ [][Next]_vars

\* asyncio resumes what is ready, and its Lock serves waiters in turn.
Fairness == \A t \in Calls : WF_vars(Resume(t)) /\ SF_vars(Acquire(t))

FairSpec == Spec /\ Fairness

----------------------------------------------------------------------------
\* A call that has the host's attention: past the lock and not yet returned.
Acting(t) == pc[t] \in {"connect", "run", "close"}

\* Two serialized calls of an entry are never under way together, however
\* they fail, time out or are cancelled.
SerializedCallsExclude ==
    \A t, u \in serialized : Acting(t) /\ Acting(u) => t = u

\* The action lock is never left behind: while it is taken, a serialized
\* call is under way that returns it, so who waits for it waits for an await
\* of another call that has a timeout, and not for a call that failed, was
\* cancelled or has returned.
LockFollowsCalls ==
    action_lock # None => action_lock \in serialized /\ Acting(action_lock)

\* The client the next call will pick up is never one this integration has
\* closed, though any number of failing calls drop and replace it.
CachedClientNotClosed == client # None => conn[client] # "closed"

\* No failure, timeout or cancellation leaves a call waiting for the lock.
EveryCallReturns == \A t \in Calls : pc[t] # "idle" ~> pc[t] = "idle"
=============================================================================
