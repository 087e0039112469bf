-------------------------- MODULE Allowlist_proofs --------------------------
(* Theorems about Allowlist: typing, then the agreement of host and entry. *)
EXTENDS Allowlist, TLAPS

\* What leaving, queueing and advancing do to the tasks.
LEMMA LeaveTyped ==
  ASSUME TypeOK, NEW t \in Tasks, Leave(t)
  PROVE  /\ lock' \in [Runtimes -> Tasks \cup {None}]
         /\ pc' \in [Tasks -> DialogSteps \cup PressSteps \cup {"idle"}]
         /\ runtime' \in [Tasks -> Runtimes \cup {None}]
         /\ asked' \in [Tasks -> Options \cup Services \cup {None}]
         /\ \A u \in Tasks : pc'[u] # "idle" =>
               /\ runtime'[u] \in Runtimes
               /\ asked'[u] \in (IF u \in Dialogs THEN Options ELSE Services)
  <1>1. /\ lock' \in [Runtimes -> Tasks \cup {None}]
        /\ pc' \in [Tasks -> DialogSteps \cup PressSteps \cup {"idle"}]
        /\ runtime' \in [Tasks -> Runtimes \cup {None}]
        /\ asked' \in [Tasks -> Options \cup Services \cup {None}]
    BY DEF TypeOK, Leave
  <1>2. \A u \in Tasks : pc'[u] # "idle" =>
           u # t /\ pc[u] # "idle" /\ runtime'[u] = runtime[u] /\ asked'[u] = asked[u]
    BY DEF TypeOK, Leave
  <1> QED BY <1>1, <1>2 DEF TypeOK

LEMMA QueueTyped ==
  ASSUME TypeOK, NEW t \in Tasks, NEW what,
         what \in (IF t \in Dialogs THEN Options ELSE Services),
         Queue(t, what)
  PROVE  /\ pc' \in [Tasks -> DialogSteps \cup PressSteps \cup {"idle"}]
         /\ runtime' \in [Tasks -> Runtimes \cup {None}]
         /\ asked' \in [Tasks -> Options \cup Services \cup {None}]
         /\ \A u \in Tasks : pc'[u] # "idle" =>
               /\ runtime'[u] \in Runtimes
               /\ asked'[u] \in (IF u \in Dialogs THEN Options ELSE Services)
  <1>1. what \in Options \cup Services
    OBVIOUS
  <1>2. /\ pc' \in [Tasks -> DialogSteps \cup PressSteps \cup {"idle"}]
        /\ runtime' \in [Tasks -> Runtimes \cup {None}]
        /\ asked' \in [Tasks -> Options \cup Services \cup {None}]
    BY <1>1 DEF TypeOK, Queue, DialogSteps
  <1>3. \A u \in Tasks : IF u = t
           THEN runtime'[u] = current /\ asked'[u] = what
           ELSE pc'[u] = pc[u] /\ runtime'[u] = runtime[u] /\ asked'[u] = asked[u]
    BY DEF TypeOK, Queue
  <1> QED BY <1>2, <1>3 DEF TypeOK

LEMMA GotoTyped ==
  ASSUME TypeOK, NEW t \in Tasks, pc[t] # "idle",
         NEW step \in DialogSteps \cup PressSteps, Goto(t, step)
  PROVE  /\ pc' \in [Tasks -> DialogSteps \cup PressSteps \cup {"idle"}]
         /\ \A u \in Tasks : pc'[u] # "idle" => pc[u] # "idle"
         /\ \A u \in Tasks : u # t => pc'[u] = pc[u]
         /\ pc'[t] = step
         /\ UNCHANGED <<runtime, asked>>
  BY DEF TypeOK, Goto

LEMMA FaultTyped == TypeOK /\ Fault => faults' \in 0 .. MaxFaults
  BY ConstantsAssumption DEF TypeOK, Fault

LEMMA InitTyped == Init => TypeOK
  <1> SUFFICES ASSUME Init PROVE TypeOK
    OBVIOUS
  <1>1. options \in Options /\ allowed \in SUBSET Services
    BY ConstantsAssumption DEF Init, Options
  <1>2. buttons \in SUBSET Services
    BY <1>1 DEF Init, ButtonsFor, Options
  <1>3. current \in Runtimes
    BY ConstantsAssumption DEF Init
  <1>4. /\ lock \in [Runtimes -> Tasks \cup {None}]
        /\ pc \in [Tasks -> DialogSteps \cup PressSteps \cup {"idle"}]
        /\ runtime \in [Tasks -> Runtimes \cup {None}]
        /\ asked \in [Tasks -> Options \cup Services \cup {None}]
        /\ \A t \in Tasks : pc[t] = "idle"
    BY DEF Init
  <1>5. faults \in 0 .. MaxFaults
    BY ConstantsAssumption DEF Init
  <1> QED BY <1>1, <1>2, <1>3, <1>4, <1>5 DEF Init, TypeOK

LEMMA StepTyped == TypeOK /\ [Next]_vars => TypeOK'
  <1> SUFFICES ASSUME TypeOK, [Next]_vars PROVE TypeOK'
    OBVIOUS
  <1> USE DEF entry, task, history
  <1>1. ASSUME NEW t \in Dialogs, NEW o \in Choices, Submit(t, o) PROVE TypeOK'
    <2>1. o \in Options /\ t \in Tasks
      BY ConstantsAssumption DEF Tasks
    <2> QED BY <1>1, <2>1, QueueTyped DEF Submit, TypeOK
  <1>2. ASSUME NEW t \in Dialogs, NEW o \in Choices, SubmitUnloaded(t, o) PROVE TypeOK'
    <2>1. o \in Options
      BY ConstantsAssumption
    <2>2. changed' \in BOOLEAN /\ options' \in Options /\ UNCHANGED <<setup, current, buttons>>
      BY <1>2, <2>1 DEF SubmitUnloaded, SaveOptions, TypeOK
    <2> QED BY <1>2, <2>2 DEF SubmitUnloaded, TypeOK
  <1>3. ASSUME NEW t \in Dialogs, NotValidated(t) PROVE TypeOK'
    BY <1>3, LeaveTyped DEF NotValidated, TypeOK, Tasks
  <1>4. ASSUME NEW t \in Dialogs, AcquireDialog(t) PROVE TypeOK'
    <2>1. t \in Tasks /\ "configure" \in DialogSteps /\ pc[t] # "idle"
      BY <1>4 DEF Tasks, DialogSteps, AcquireDialog
    <2>2. lock' \in [Runtimes -> Tasks \cup {None}]
      BY <1>4, <2>1 DEF AcquireDialog, Take, TypeOK
    <2>3. alone' \in SUBSET Dialogs
      BY <1>4 DEF AcquireDialog, TypeOK
    <2> QED BY <1>4, <2>1, <2>2, <2>3, GotoTyped DEF AcquireDialog, TypeOK
  <1>5. ASSUME NEW t \in Dialogs, HostConfigures(t) PROVE TypeOK'
    <2>1. t \in Tasks /\ "written" \in DialogSteps /\ pc[t] # "idle"
      BY <1>5 DEF Tasks, DialogSteps, HostConfigures
    <2>2. allowed' \in SUBSET Services
      BY <1>5, <2>1 DEF HostConfigures, TypeOK, Options
    <2> QED BY <1>5, <2>1, <2>2, GotoTyped DEF HostConfigures, TypeOK
  <1>6. ASSUME NEW t \in Dialogs, Answered(t) PROVE TypeOK'
    <2>1. t \in Tasks /\ pc[t] # "idle"
      BY <1>6 DEF Answered, Tasks
    <2>2. options' \in Options /\ changed' \in BOOLEAN /\ UNCHANGED <<setup, current, buttons>>
      BY <1>6, <2>1 DEF Answered, SaveOptions, TypeOK
    <2>3. agreed' \in BOOLEAN /\ alone' \in SUBSET Dialogs /\ UNCHANGED <<allowed, strays, faults>>
      BY <1>6 DEF Answered, TypeOK
    <2> QED BY <1>6, <2>1, <2>2, <2>3, LeaveTyped DEF Answered, TypeOK
  <1>7. ASSUME NEW t \in Dialogs, DialogFails(t) PROVE TypeOK'
    <2>1. t \in Tasks /\ pc[t] # "idle"
      BY <1>7 DEF DialogFails, Tasks
    <2>2. asked[t].services \in SUBSET Services
      BY <2>1 DEF TypeOK, Options
    <2>3. strays' \in SUBSET SUBSET Services /\ agreed' \in BOOLEAN
      BY <1>7, <2>2 DEF DialogFails, TypeOK
    <2>4. faults' \in 0 .. MaxFaults
      BY <1>7, FaultTyped DEF DialogFails
    <2>5. alone' \in SUBSET Dialogs /\ UNCHANGED <<entry, allowed>>
      BY <1>7 DEF DialogFails, TypeOK
    <2> QED BY <1>7, <2>1, <2>3, <2>4, <2>5, LeaveTyped DEF DialogFails, TypeOK
  <1>8. ASSUME NEW services \in SUBSET Services, StrayConfigures(services) PROVE TypeOK'
    BY <1>8 DEF StrayConfigures, Intrude, TypeOK
  <1>9. CASE Reconfigure
    BY <1>9 DEF Reconfigure, Intrude, TypeOK
  <1>10. ASSUME NEW t \in Presses, NEW s \in Services, Press(t, s) PROVE TypeOK'
    <2>1. t \in Tasks /\ t \notin Dialogs
      BY ConstantsAssumption DEF Tasks
    <2> QED BY <1>10, <2>1, QueueTyped DEF Press, TypeOK
  <1>11. ASSUME NEW t \in Presses, AcquirePress(t) PROVE TypeOK'
    <2>1. t \in Tasks /\ "check" \in PressSteps /\ pc[t] # "idle"
      BY <1>11 DEF Tasks, PressSteps, AcquirePress
    <2>2. lock' \in [Runtimes -> Tasks \cup {None}]
      BY <1>11, <2>1 DEF AcquirePress, Take, TypeOK
    <2> QED BY <1>11, <2>1, <2>2, GotoTyped DEF AcquirePress, TypeOK
  <1>12. ASSUME NEW t \in Presses, HostChecks(t) \/ HostRestarts(t) PROVE TypeOK'
    <2>1. t \in Tasks /\ pc[t] # "idle"
      BY <1>12 DEF Tasks, HostChecks, HostRestarts
    <2>2. PICK step \in {"restart", "done"} : Goto(t, step)
      BY <1>12 DEF HostChecks, HostRestarts
    <2>3. step \in PressSteps
      BY DEF PressSteps
    <2> QED BY <1>12, <2>1, <2>2, <2>3, GotoTyped DEF HostChecks, HostRestarts, TypeOK
  <1>13. ASSUME NEW t \in Presses, PressEnds(t) PROVE TypeOK'
    <2>1. faults' \in 0 .. MaxFaults
      BY <1>13, FaultTyped DEF PressEnds, TypeOK
    <2> QED BY <1>13, <2>1, LeaveTyped DEF PressEnds, TypeOK, Tasks
  <1>14. CASE Unload
    BY <1>14 DEF Unload, TypeOK
  <1>15. CASE SetUpNext
    <2>1. CASE SetUp
      BY <2>1 DEF SetUp, FreeRuntimes, TypeOK
    <2>2. CASE SetUpButtons
      BY <2>2 DEF SetUpButtons, ButtonsFor, Options, TypeOK
    <2>3. CASE SetUpDone
      BY <2>3 DEF SetUpDone, TypeOK
    <2> QED BY <1>15, <2>1, <2>2, <2>3 DEF SetUpNext
  <1>16. CASE UNCHANGED vars
    BY <1>16 DEF vars, TypeOK
  <1> QED
    BY <1>1, <1>2, <1>3, <1>4, <1>5, <1>6, <1>7, <1>8, <1>9, <1>10, <1>11, <1>12, <1>13,
       <1>14, <1>15, <1>16 DEF Next, DialogNext, PressNext

\* Every variable keeps its type; a dialog or press that is under way has the
\* runtime it goes through, whatever set-ups and unloads happen meanwhile.
THEOREM TypeCorrect == Spec => []TypeOK
  BY InitTyped, StepTyped, PTL DEF Spec

----------------------------------------------------------------------------
(* Host and entry *)

AtHost(t) == pc[t] \in {"configure", "written"}

\* A dialog's host call holds the lock of its runtime.
LockInv == \A t \in Dialogs : AtHost(t) => lock[runtime[t]] = t

\* A dialog that nothing crossed shares its runtime with every other dialog
\* at the host, and what it wrote is still there.
AloneInv ==
    \A t \in alone :
       /\ AtHost(t)
       /\ \A u \in Dialogs : AtHost(u) => runtime[u] = runtime[t]
       /\ Written(t) => allowed = asked[t].services

IInv == TypeOK /\ LockInv /\ AloneInv /\ HostAgrees

\* Under the invariant a dialog that nothing crossed is the only one there.
LEMMA AloneIsAlone ==
  ASSUME IInv, NEW t \in alone, NEW u \in Dialogs, AtHost(u)
  PROVE  u = t
  <1>1. t \in Dialogs /\ AtHost(t) /\ runtime[u] = runtime[t]
    BY DEF IInv, TypeOK, AloneInv
  <1> QED BY <1>1 DEF IInv, LockInv

\* Only a dialog's own steps move it, and other tasks leave its lock alone.
LEMMA OthersKeepLock ==
  ASSUME IInv, NEW t \in Tasks, NEW u \in Dialogs, u # t, AtHost(u),
         \/ Leave(t)
         \/ Take(t) /\ UNCHANGED runtime
         \/ UNCHANGED <<lock, runtime>>
         \/ \E what : Queue(t, what) /\ UNCHANGED lock
  PROVE  lock'[runtime'[u]] = u
  <1>1. u \in Tasks /\ runtime[u] \in Runtimes /\ lock[runtime[u]] = u /\ u # None
    BY ConstantsAssumption DEF IInv, TypeOK, LockInv, AtHost, Tasks
  <1>2. CASE Leave(t)
    BY <1>1, <1>2 DEF IInv, TypeOK, Leave
  <1>3. CASE Take(t) /\ UNCHANGED runtime
    BY <1>1, <1>3 DEF IInv, TypeOK, Take
  <1>4. CASE UNCHANGED <<lock, runtime>>
    BY <1>1, <1>4
  <1>5. CASE \E what : Queue(t, what) /\ UNCHANGED lock
    BY <1>1, <1>5 DEF IInv, TypeOK, Queue
  <1> QED BY <1>2, <1>3, <1>4, <1>5

\* What a step of one task leaves to the others.
LEMMA OthersStay ==
  ASSUME TypeOK, NEW t \in Tasks,
         \/ Leave(t)
         \/ \E step : Goto(t, step)
         \/ \E what : Queue(t, what)
  PROVE  \A u \in Tasks : u # t =>
            pc'[u] = pc[u] /\ runtime'[u] = runtime[u] /\ asked'[u] = asked[u]
  BY DEF TypeOK, Leave, Goto, Queue

LEMMA InitAgrees == Init => LockInv /\ AloneInv /\ HostAgrees
  BY DEF Init, LockInv, AloneInv, HostAgrees, AtHost, Tasks

\* Steps after which no dialog is nearer to the host than before, and which
\* write neither the options nor the allowlist.
LEMMA Bystander ==
  ASSUME IInv, NEW t \in Tasks,
         Leave(t) \/ (\E what : Queue(t, what) /\ UNCHANGED lock),
         ~Written(t) \/ t \notin Dialogs,
         UNCHANGED <<options, allowed>>, agreed' => agreed,
         alone' = alone \/ alone' = alone \ {t}, t \in alone => alone' = alone \ {t}
  PROVE  LockInv' /\ AloneInv' /\ HostAgrees'
  <1>1. \A u \in Tasks : u # t =>
           pc'[u] = pc[u] /\ runtime'[u] = runtime[u] /\ asked'[u] = asked[u]
    BY OthersStay DEF IInv
  <1>2. pc'[t] \in {"idle", "lock"}
    BY DEF IInv, TypeOK, Leave, Queue
  <1>3. LockInv'
    <2> SUFFICES ASSUME NEW u \in Dialogs, AtHost(u)' PROVE lock'[runtime'[u]] = u
      BY DEF LockInv
    <2>1. u # t /\ u \in Tasks
      BY <1>2 DEF AtHost, Tasks
    <2>2. AtHost(u)
      BY <1>1, <2>1 DEF AtHost
    <2> QED BY <2>1, <2>2, OthersKeepLock
  <1>4. AloneInv'
    <2> SUFFICES ASSUME NEW u \in alone'
                 PROVE  /\ AtHost(u)'
                        /\ \A v \in Dialogs : AtHost(v)' => runtime'[v] = runtime'[u]
                        /\ Written(u)' => allowed' = asked'[u].services
      BY DEF AloneInv
    <2>1. u \in alone /\ u # t /\ u \in Tasks
      BY DEF IInv, TypeOK, Tasks
    <2>2. \A v \in Dialogs : AtHost(v)' => AtHost(v) /\ runtime'[v] = runtime[v]
      BY <1>1, <1>2 DEF AtHost, Tasks
    <2> QED BY <1>1, <2>1, <2>2 DEF IInv, AloneInv, AtHost, Written
  <1>5. HostAgrees'
    <2>1. \A u \in Dialogs : Written(u) => Written(u)'
      BY <1>1 DEF Written, Tasks
    <2> QED BY <2>1 DEF IInv, HostAgrees
  <1> QED BY <1>3, <1>4, <1>5

LEMMA StepAgrees == IInv /\ [Next]_vars => LockInv' /\ AloneInv' /\ HostAgrees'
  <1> SUFFICES ASSUME IInv, [Next]_vars PROVE LockInv' /\ AloneInv' /\ HostAgrees'
    OBVIOUS
  <1> USE DEF entry, task, history
  <1>1. ASSUME NEW t \in Dialogs, NEW o \in Choices, Submit(t, o)
        PROVE  LockInv' /\ AloneInv' /\ HostAgrees'
    <2>1. t \in Tasks /\ ~Written(t) /\ t \notin alone
      BY <1>1 DEF Submit, Queue, Written, Tasks, IInv, AloneInv, AtHost
    <2> QED BY <1>1, <2>1, Bystander DEF Submit
  <1>2. ASSUME NEW t \in Dialogs, NEW o \in Choices, SubmitUnloaded(t, o)
        PROVE  LockInv' /\ AloneInv' /\ HostAgrees'
    BY <1>2 DEF SubmitUnloaded, IInv, LockInv, AloneInv, HostAgrees, AtHost, Written
  <1>3. ASSUME NEW t \in Dialogs, NotValidated(t)
        PROVE  LockInv' /\ AloneInv' /\ HostAgrees'
    <2>1. t \in Tasks /\ ~Written(t) /\ t \notin alone
      BY <1>3 DEF NotValidated, Written, Tasks, IInv, AloneInv, AtHost
    <2> QED BY <1>3, <2>1, Bystander DEF NotValidated
  <1>4. ASSUME NEW t \in Dialogs, AcquireDialog(t)
        PROVE  LockInv' /\ AloneInv' /\ HostAgrees'
    <2>1. /\ t \in Tasks /\ t # None /\ pc[t] = "lock" /\ runtime[t] \in Runtimes
          /\ lock[runtime[t]] = None
          /\ UNCHANGED <<runtime, asked, options, allowed, agreed>>
      BY <1>4, ConstantsAssumption DEF AcquireDialog, Take, Goto, Tasks, IInv, TypeOK
    <2>2. pc'[t] = "configure" /\ lock'[runtime[t]] = t
      BY <1>4, <2>1 DEF AcquireDialog, Take, Goto, IInv, TypeOK
    <2>3. \A u \in Dialogs : u # t => pc'[u] = pc[u]
      BY <1>4 DEF AcquireDialog, Goto, IInv, TypeOK, Tasks
    <2>4. LockInv'
      <3> SUFFICES ASSUME NEW u \in Dialogs, AtHost(u)', u # t PROVE lock'[runtime'[u]] = u
        BY <2>1, <2>2 DEF LockInv
      <3>1. AtHost(u)
        BY <2>3 DEF AtHost
      <3> QED BY <1>4, <2>1, <3>1, OthersKeepLock DEF AcquireDialog
    <2>5. \A u \in Dialogs : AtHost(u) => u \in Crossing(t)
      BY <2>1, ConstantsAssumption DEF IInv, LockInv, AtHost, Crossing, Tasks
    <2>6. \A u \in alone' : u = t /\ Crossing(t) = {}
      BY <1>4, <2>5 DEF AcquireDialog, IInv, TypeOK, AloneInv
    <2>7. AloneInv'
      BY <2>1, <2>2, <2>3, <2>5, <2>6 DEF AloneInv, AtHost, Written
    <2>8. HostAgrees'
      BY <2>1, <2>3 DEF IInv, HostAgrees, Written
    <2> QED BY <2>4, <2>7, <2>8
  <1>5. ASSUME NEW t \in Dialogs, HostConfigures(t)
        PROVE  LockInv' /\ AloneInv' /\ HostAgrees'
    <2>1. /\ t \in Tasks /\ AtHost(t) /\ pc'[t] = "written" /\ allowed' = asked[t].services
          /\ UNCHANGED <<runtime, asked, options, agreed, alone, lock>>
      BY <1>5 DEF HostConfigures, Goto, Tasks, AtHost, IInv, TypeOK
    <2>2. \A u \in Dialogs : u # t => pc'[u] = pc[u]
      BY <1>5 DEF HostConfigures, Goto, IInv, TypeOK, Tasks
    <2>3. \A u \in Dialogs : AtHost(u)' <=> AtHost(u)
      BY <2>1, <2>2 DEF AtHost
    <2>4. LockInv'
      BY <2>1, <2>3 DEF IInv, LockInv
    <2>5. \A u \in alone : u = t
      BY <2>1, AloneIsAlone
    <2>6. AloneInv'
      BY <2>1, <2>3, <2>5 DEF IInv, AloneInv
    <2>7. HostAgrees'
      BY <2>1 DEF HostAgrees, Written
    <2> QED BY <2>4, <2>6, <2>7
  <1>6. ASSUME NEW t \in Dialogs, Answered(t)
        PROVE  LockInv' /\ AloneInv' /\ HostAgrees'
    <2>1. /\ t \in Tasks /\ Written(t) /\ AtHost(t) /\ pc'[t] = "idle"
          /\ options' = asked[t] /\ allowed' = allowed
          /\ agreed' = (t \in alone) /\ alone' = alone \ {t}
      BY <1>6 DEF Answered, SaveOptions, Leave, Tasks, AtHost, Written, IInv, TypeOK
    <2>2. \A u \in Tasks : u # t =>
             pc'[u] = pc[u] /\ runtime'[u] = runtime[u] /\ asked'[u] = asked[u]
      BY <1>6, <2>1, OthersStay DEF Answered, IInv
    <2>3. LockInv'
      <3> SUFFICES ASSUME NEW u \in Dialogs, AtHost(u)' PROVE lock'[runtime'[u]] = u
        BY DEF LockInv
      <3>1. u # t /\ AtHost(u)
        BY <2>1, <2>2 DEF AtHost, Tasks
      <3> QED BY <1>6, <2>1, <3>1, OthersKeepLock DEF Answered
    <2>4. alone' = {}
      BY <2>1, AloneIsAlone
    <2>5. HostAgrees'
      BY <2>1 DEF IInv, AloneInv, HostAgrees
    <2> QED BY <2>3, <2>4, <2>5 DEF AloneInv
  <1>7. ASSUME NEW t \in Dialogs, DialogFails(t)
        PROVE  LockInv' /\ AloneInv' /\ HostAgrees'
    <2>1. /\ t \in Tasks /\ Leave(t) /\ alone' = alone \ {t}
          /\ UNCHANGED <<options, allowed>>
          /\ agreed' => agreed /\ pc[t] = "configure"
      <3>1. t \in Tasks /\ Leave(t) /\ alone' = alone \ {t} /\ UNCHANGED <<options, allowed>>
        BY <1>7 DEF DialogFails, Tasks, entry
      <3>2. \/ agreed' = (agreed /\ pc[t] = "configure")
            \/ pc[t] = "configure" /\ agreed' = agreed
        BY <1>7, Zenon DEF DialogFails
      <3>3. ASSUME agreed' PROVE agreed /\ pc[t] = "configure"
        <4>1. CASE agreed' = (agreed /\ pc[t] = "configure")
          BY <3>3, <4>1, Zenon
        <4>2. CASE pc[t] = "configure" /\ agreed' = agreed
          BY <3>3, <4>2, Zenon
        <4> QED BY <3>2, <4>1, <4>2, Zenon
      <3> QED BY <3>1, <3>3, Zenon
    <2>2. CASE pc[t] = "configure"
      BY <2>1, <2>2, Bystander DEF Written
    <2>3. CASE ~agreed'
      <3>1. \A u \in Tasks : u # t =>
               pc'[u] = pc[u] /\ runtime'[u] = runtime[u] /\ asked'[u] = asked[u]
        BY <2>1, OthersStay DEF IInv
      <3>2. pc'[t] = "idle"
        BY <2>1 DEF Leave, IInv, TypeOK
      <3>3. \A u \in Dialogs : AtHost(u)' => u # t /\ AtHost(u) /\ runtime'[u] = runtime[u]
        BY <3>1, <3>2 DEF AtHost, Tasks
      <3>4. LockInv'
        <4> SUFFICES ASSUME NEW u \in Dialogs, AtHost(u)' PROVE lock'[runtime'[u]] = u
          BY DEF LockInv
        <4> QED BY <2>1, <3>3, OthersKeepLock
      <3>5. AloneInv'
        <4> SUFFICES ASSUME NEW u \in alone'
                     PROVE  /\ AtHost(u)'
                            /\ \A v \in Dialogs : AtHost(v)' => runtime'[v] = runtime'[u]
                            /\ Written(u)' => allowed' = asked'[u].services
          BY DEF AloneInv
        <4>1. u \in alone /\ u # t /\ u \in Tasks
          BY <2>1 DEF IInv, TypeOK, Tasks
        <4> QED BY <2>1, <3>1, <3>3, <4>1 DEF IInv, AloneInv, AtHost, Written
      <3> QED BY <2>3, <3>4, <3>5 DEF HostAgrees
    <2> QED BY <2>1, <2>2, <2>3
  <1>8. ASSUME NEW services \in SUBSET Services, StrayConfigures(services)
        PROVE  LockInv' /\ AloneInv' /\ HostAgrees'
    BY <1>8 DEF StrayConfigures, Intrude, IInv, LockInv, AloneInv, HostAgrees, AtHost
  <1>9. CASE Reconfigure
    BY <1>9 DEF Reconfigure, Intrude, IInv, LockInv, AloneInv, HostAgrees, AtHost
  <1>10. ASSUME NEW t \in Presses, NEW s \in Services, Press(t, s)
         PROVE  LockInv' /\ AloneInv' /\ HostAgrees'
    <2>1. t \in Tasks /\ t \notin Dialogs /\ t \notin alone
      BY ConstantsAssumption DEF Tasks, IInv, TypeOK
    <2> QED BY <1>10, <2>1, Bystander DEF Press
  <1>11. ASSUME NEW t \in Presses, AcquirePress(t) \/ HostChecks(t) \/ HostRestarts(t)
         PROVE  LockInv' /\ AloneInv' /\ HostAgrees'
    <2>1. t \in Tasks /\ t \notin Dialogs
      BY ConstantsAssumption DEF Tasks
    <2>2. /\ UNCHANGED <<runtime, asked, options, allowed, agreed, alone>>
          /\ Take(t) \/ UNCHANGED lock
      BY <1>11 DEF AcquirePress, HostChecks, HostRestarts, Goto
    <2>3. \A u \in Dialogs : pc'[u] = pc[u]
      BY <1>11, <2>1 DEF AcquirePress, HostChecks, HostRestarts, Goto, IInv, TypeOK, Tasks
    <2>4. LockInv'
      <3> SUFFICES ASSUME NEW u \in Dialogs, AtHost(u)' PROVE lock'[runtime'[u]] = u
        BY DEF LockInv
      <3>1. u # t /\ AtHost(u)
        BY <2>1, <2>3 DEF AtHost
      <3> QED BY <2>1, <2>2, <3>1, OthersKeepLock
    <2>5. AloneInv'
      BY <2>2, <2>3 DEF IInv, TypeOK, AloneInv, AtHost, Written
    <2>6. HostAgrees'
      BY <2>2, <2>3 DEF IInv, HostAgrees, Written
    <2> QED BY <2>4, <2>5, <2>6
  <1>12. ASSUME NEW t \in Presses, PressEnds(t)
         PROVE  LockInv' /\ AloneInv' /\ HostAgrees'
    <2>1. t \in Tasks /\ t \notin Dialogs /\ t \notin alone
      BY ConstantsAssumption DEF Tasks, IInv, TypeOK
    <2> QED BY <1>12, <2>1, Bystander DEF PressEnds
  <1>13. CASE Unload \/ SetUpNext \/ UNCHANGED vars
    BY <1>13 DEF Unload, SetUpNext, SetUp, SetUpButtons, SetUpDone, vars, IInv, LockInv,
                 AloneInv, HostAgrees, AtHost, Written
  <1> QED
    BY <1>1, <1>2, <1>3, <1>4, <1>5, <1>6, <1>7, <1>8, <1>9, <1>10, <1>11, <1>12, <1>13
    DEF Next, DialogNext, PressNext

LEMMA Agreement == Spec => []IInv
  <1>1. Init => IInv
    BY InitTyped, InitAgrees DEF IInv
  <1>2. IInv /\ [Next]_vars => IInv'
    BY StepTyped, StepAgrees DEF IInv
  <1> QED BY <1>1, <1>2, PTL DEF Spec

\* Dialogs that overlap through one runtime save in the order in which they
\* reached the host, so that host and entry agree after a save until one of
\* the named events parts them, with any number of dialogs, presses and
\* reloads.
THEOREM AgreementCorrect == Spec => []HostAgrees
  <1>1. IInv => HostAgrees
    BY DEF IInv
  <1> QED BY Agreement, <1>1, PTL

\* While host and entry agree, no stale button and no press that had to wait
\* restarts a service that was taken off the options.
THEOREM RestartsCorrect == Spec => RestartsListed
  <1>1. IInv /\ [Next]_vars =>
           [\A t \in Presses :
              pc[t] = "check" /\ pc'[t] = "restart" /\ agreed =>
                 asked[t] \in options.services \/ \E u \in Dialogs : Written(u)]_vars
    <2> SUFFICES ASSUME IInv, Next, NEW t \in Presses,
                        pc[t] = "check", pc'[t] = "restart", agreed
                 PROVE  asked[t] \in options.services \/ \E u \in Dialogs : Written(u)
      BY DEF vars, task
    <2>1. t \in Tasks /\ t \notin Dialogs
      BY ConstantsAssumption DEF Tasks
    <2>2. asked[t] \in allowed
      <3>1. ASSUME NEW u \in Tasks, u # t,
                   Leave(u) \/ (\E step : Goto(u, step)) \/ (\E what : Queue(u, what))
            PROVE  FALSE
        BY <2>1, <3>1, OthersStay DEF IInv
      <3>2. ASSUME NEW u \in Dialogs, DialogNext(u) PROVE FALSE
        <4>1. u \in Tasks /\ u # t
          BY <2>1 DEF Tasks
        <4> QED BY <3>1, <3>2, <4>1 DEF DialogNext, Submit, SubmitUnloaded, NotValidated,
                   AcquireDialog, HostConfigures, Answered, DialogFails, task
      <3>3. ASSUME NEW u \in Presses, PressNext(u) PROVE u = t
        <4>1. u \in Tasks
          BY DEF Tasks
        <4> QED BY <3>1, <3>3, <4>1 DEF PressNext, Press, AcquirePress, HostChecks,
                   HostRestarts, PressEnds
      <3>4. CASE PressNext(t)
        <4>1. HostChecks(t)
          BY <2>1, <3>4 DEF PressNext, Press, AcquirePress, HostRestarts, PressEnds, Queue,
                   Goto, Leave, IInv, TypeOK
        <4> QED BY <2>1, <4>1 DEF HostChecks, ServiceAllowed, Goto, IInv, TypeOK
      <3> QED BY <3>2, <3>3, <3>4 DEF Next, StrayConfigures, Reconfigure, Unload, SetUpNext,
                 SetUp, SetUpButtons, SetUpDone, task
    <2> QED BY <2>2 DEF IInv, HostAgrees
  <1> QED BY Agreement, <1>1, PTL DEF Spec, RestartsListed

----------------------------------------------------------------------------
(* Buttons and options *)

\* Whoever saves, the change is noted or there was none.
LEMMA SaveNotes ==
  ASSUME NoChangeMissed, NEW o, SaveOptions(o)
  PROVE  NoChangeMissed'
  BY DEF NoChangeMissed, SaveOptions, ListenerOn, ButtonsFor

LEMMA StepMissed == NoChangeMissed /\ [Next]_vars => NoChangeMissed'
  <1> SUFFICES ASSUME NoChangeMissed, [Next]_vars PROVE NoChangeMissed'
    OBVIOUS
  <1>1. ASSUME NEW o, SaveOptions(o) PROVE NoChangeMissed'
    BY <1>1, SaveNotes
  <1>2. CASE Unload
    BY <1>2 DEF Unload, NoChangeMissed
  <1>3. CASE SetUpNext
    BY <1>3 DEF SetUpNext, SetUp, SetUpButtons, SetUpDone, NoChangeMissed, ButtonsFor
  <1>4. CASE UNCHANGED entry
    BY <1>4 DEF entry, NoChangeMissed, ButtonsFor
  <1>5. ASSUME NEW t \in Dialogs, DialogNext(t)
        PROVE  UNCHANGED entry \/ \E o : SaveOptions(o)
    BY <1>5 DEF DialogNext, Submit, SubmitUnloaded, NotValidated, AcquireDialog, HostConfigures,
                Answered, DialogFails
  <1>6. ASSUME NEW t \in Presses, PressNext(t) PROVE UNCHANGED entry
    BY <1>6 DEF PressNext, Press, AcquirePress, HostChecks, HostRestarts, PressEnds
  <1>7. ASSUME NEW services, StrayConfigures(services) PROVE UNCHANGED entry
    BY <1>7 DEF StrayConfigures
  <1>8. Reconfigure => UNCHANGED entry
    BY DEF Reconfigure
  <1> QED BY <1>1, <1>2, <1>3, <1>4, <1>5, <1>6, <1>7, <1>8 DEF Next, vars

\* The listener that set-up registers before the platforms misses no change,
\* for any number of dialogs and at any point of a reload: what
\* OptionsComeIntoForce rests on besides fairness.
THEOREM ChangesCorrect == Spec => []NoChangeMissed
  <1>1. Init => NoChangeMissed
    BY DEF Init, NoChangeMissed
  <1> QED BY <1>1, StepMissed, PTL DEF Spec
=============================================================================
