------------------------- MODULE PackageJobs_proofs -------------------------
(* Theorems about PackageJobs, for any number of processes and unit names.  *)
EXTENDS PackageJobs, TLAPS

USE ConstantsAssumption

----------------------------------------------------------------------------
(* Typing *)

LEMMA InitTyped == Init => TypeOK
  BY DEF Init, TypeOK, EmptyState, NoJob, StateFile, Job, UnitStates, Steps

\* What Exit leaves behind, whatever else the step does.
LEMMA ExitTyped ==
  ASSUME TypeOK, NEW p \in Requests, Exit(p)
  PROVE  /\ lock' \in Requests \cup {None}
         /\ pc' \in [Requests -> Steps]
         /\ op' \in [Requests -> Ops \cup {None}]
         /\ snap' \in [Requests -> StateFile]
         /\ mine' \in [Requests -> Units \cup {None}]
  BY DEF TypeOK, Exit, EmptyState, NoJob, StateFile, Job, Steps

LEMMA JobStateTyped ==
  ASSUME NEW j \in Job
  PROVE  /\ JobState(j) \in Job
         /\ JobState(j).unit = j.unit
  BY DEF JobState, Job

LEMMA StepTyped == TypeOK /\ [Next]_vars => TypeOK'
  <1> SUFFICES ASSUME TypeOK, [Next]_vars PROVE TypeOK'
    OBVIOUS
  <1>1. ASSUME NEW p \in Requests, NEW o \in Ops, Invoke(p, o) PROVE TypeOK'
    BY <1>1 DEF TypeOK, Invoke, FirstStep, Steps
  <1>2. ASSUME NEW p \in Requests, Acquire(p) PROVE TypeOK'
    BY <1>2 DEF TypeOK, Acquire, Steps
  <1>3. ASSUME NEW p \in Requests, Read(p) PROVE TypeOK'
    <2>1. AfterRead(op[p], file) \in Steps
      BY DEF AfterRead, Steps
    <2> QED BY <1>3, <2>1 DEF TypeOK, Read
  <1>4. ASSUME NEW p \in Requests, Probe(p) PROVE TypeOK'
    <2> DEFINE job == JobState(snap[p].job)
    <2>1. job \in Job
      BY JobStateTyped DEF TypeOK, StateFile
    <2>2. CASE Exit(p)
      BY <1>4, <2>2, ExitTyped DEF Probe, TypeOK
    <2>3. CASE snap' = [snap EXCEPT ![p].job = job]
               /\ pc' = [pc EXCEPT ![p] = IF op[p] = "start" THEN "launch" ELSE "write"]
               /\ UNCHANGED <<lock, op, mine>>
      BY <1>4, <2>1, <2>3 DEF Probe, TypeOK, StateFile, Steps
    <2> QED BY <1>4, <2>2, <2>3 DEF Probe
  <1>5. ASSUME NEW p \in Requests, NEW u \in Units, Launch(p, u) PROVE TypeOK'
    BY <1>5 DEF TypeOK, Launch, UnitStates, Steps
  <1>6. ASSUME NEW p \in Requests, Record(p) PROVE TypeOK'
    <2>1. file' \in StateFile
      BY <1>6 DEF TypeOK, Record, StateFile, Job
    <2> QED BY <1>6, <2>1, ExitTyped DEF TypeOK, Record
  <1>7. ASSUME NEW p \in Requests, Apt(p) PROVE TypeOK'
    BY <1>7 DEF TypeOK, Apt, Steps
  <1>8. ASSUME NEW p \in Requests, WriteBack(p) PROVE TypeOK'
    <2>1. file' \in StateFile
      BY <1>8 DEF TypeOK, WriteBack, StateFile
    <2> QED BY <1>8, <2>1, ExitTyped DEF TypeOK, WriteBack
  <1>9. ASSUME NEW p \in Requests, Abort(p) PROVE TypeOK'
    BY <1>9, ExitTyped DEF TypeOK, Abort
  <1>10. ASSUME NEW u \in Units, UnitBegin(u) PROVE TypeOK'
    BY <1>10 DEF TypeOK, UnitBegin, UnitStates
  <1>11. ASSUME NEW u \in Units, NEW s \in {"finished", "failed"}, UnitEnd(u, s) PROVE TypeOK'
    BY <1>11 DEF TypeOK, UnitEnd, UnitStates
  <1>12. CASE Reboot
    BY <1>12 DEF TypeOK, Reboot, UnitStates, Steps, EmptyState, NoJob, StateFile, Job
  <1>13. CASE UNCHANGED vars
    BY <1>13 DEF TypeOK, vars
  <1> QED
    BY <1>1, <1>2, <1>3, <1>4, <1>5, <1>6, <1>7, <1>8, <1>9, <1>10, <1>11, <1>12, <1>13 DEF Next

\* Every variable keeps its type: in particular state.json always holds a
\* whole, well-formed record (_write_json replaces the file atomically).
THEOREM TypeCorrect == Spec => []TypeOK
  BY InitTyped, StepTyped, PTL DEF Spec

----------------------------------------------------------------------------
(* The lock and the steps, for every mix of operations *)

\* A process of a start that is between flock and unlock.
Locked(p) == op[p] = "start" /\ pc[p] \in {"read", "probe", "launch", "record"}

ProcessInv ==
    \A p \in Requests :
        /\ pc[p] = "idle" <=> op[p] = None
        /\ pc[p] \in {"lock", "launch", "record"} => op[p] = "start"
        /\ pc[p] = "probe" => op[p] \in {"start", "status"}
        /\ pc[p] \in {"apt", "write"} => op[p] # "start"
        /\ Locked(p) <=> lock = p
        /\ mine[p] # None <=> pc[p] = "record"
        /\ mine[p] # None => unit[mine[p]] # "new"

LEMMA InitProcess == Init => ProcessInv
  BY DEF Init, ProcessInv, Locked

LEMMA StepProcess == TypeOK /\ ProcessInv /\ [Next]_vars => ProcessInv'
  <1> SUFFICES ASSUME TypeOK, ProcessInv, [Next]_vars PROVE ProcessInv'
    OBVIOUS
  <1> USE DEF ProcessInv, Locked, TypeOK
  <1>1. ASSUME NEW p \in Requests, NEW o \in Ops, Invoke(p, o) PROVE ProcessInv'
    <2>1. /\ o = "start" <=> FirstStep(o) = "lock"
          /\ FirstStep(o) \in {"lock", "apt", "read"}
      BY DEF FirstStep, MaintenanceOps
    <2> QED BY <1>1, <2>1 DEF Invoke
  <1>2. ASSUME NEW p \in Requests, Acquire(p) PROVE ProcessInv'
    BY <1>2 DEF Acquire
  <1>3. ASSUME NEW p \in Requests, Read(p) PROVE ProcessInv'
    <2>1. /\ AfterRead(op[p], file) \in {"probe", "launch", "apt", "write"}
          /\ AfterRead(op[p], file) = "probe" => op[p] \in {"start", "status"}
          /\ AfterRead(op[p], file) = "launch" => op[p] = "start"
          /\ AfterRead(op[p], file) \in {"apt", "write"} => op[p] # "start"
      BY DEF AfterRead
    <2> QED BY <1>3, <2>1 DEF Read
  <1>4. ASSUME NEW p \in Requests, Probe(p) PROVE ProcessInv'
    BY <1>4 DEF Probe, Exit
  <1>5. ASSUME NEW p \in Requests, NEW u \in Units, Launch(p, u) PROVE ProcessInv'
    BY <1>5 DEF Launch
  <1>6. ASSUME NEW p \in Requests, Record(p) PROVE ProcessInv'
    BY <1>6 DEF Record, Exit
  <1>7. ASSUME NEW p \in Requests, Apt(p) PROVE ProcessInv'
    BY <1>7 DEF Apt
  <1>8. ASSUME NEW p \in Requests, WriteBack(p) PROVE ProcessInv'
    BY <1>8 DEF WriteBack, Exit
  <1>9. ASSUME NEW p \in Requests, Abort(p) PROVE ProcessInv'
    BY <1>9 DEF Abort, Exit
  <1>10. ASSUME NEW u \in Units, UnitBegin(u) PROVE ProcessInv'
    BY <1>10 DEF UnitBegin
  <1>11. ASSUME NEW u \in Units, NEW s \in {"finished", "failed"}, UnitEnd(u, s)
         PROVE ProcessInv'
    BY <1>11 DEF UnitEnd
  <1>12. CASE Reboot
    BY <1>12 DEF Reboot
  <1>13. CASE UNCHANGED vars
    BY <1>13 DEF vars
  <1> QED
    BY <1>1, <1>2, <1>3, <1>4, <1>5, <1>6, <1>7, <1>8, <1>9, <1>10, <1>11, <1>12, <1>13 DEF Next

LEMMA ProcessCorrect == Spec => [](TypeOK /\ ProcessInv)
  BY InitTyped, StepTyped, InitProcess, StepProcess, PTL DEF Spec

\* For every mix of operations and every mishap, the flock belongs to a
\* start at work or to nobody: the safety that StartsAnswer rests on.
THEOREM FlockCorrect == Spec => []FlockFollowsStarts
  <1>1. TypeOK /\ ProcessInv => FlockFollowsStarts
    BY DEF TypeOK, ProcessInv, Locked, FlockFollowsStarts
  <1> QED BY <1>1, ProcessCorrect, PTL

----------------------------------------------------------------------------
(* No interleaving invents a success *)

\* A job record names a unit that was launched, and one that says succeeded
\* has the unit's fate behind it.
Honest(job) ==
    /\ job.state # "none" => job.unit \in Launched
    /\ job.state = "succeeded" => unit[job.unit] \in {"finished", "lost"}

HonestInv ==
    /\ Honest(file.job)
    /\ \A p \in Requests : Honest(snap[p].job)

\* A unit that was launched stays so, and a fate once sealed stays sealed.
UnitsAge ==
    \A u \in Units :
        /\ unit[u] # "new" => unit'[u] # "new"
        /\ unit[u] \in {"finished", "lost"} => unit'[u] \in {"finished", "lost"}

LEMMA Aging == TypeOK /\ [Next]_vars => UnitsAge
  BY DEF TypeOK, Next, vars, UnitsAge, Invoke, Acquire, Read, Probe, Launch, Record, Apt,
         WriteBack, Abort, UnitBegin, UnitEnd, Reboot, UnitStates

\* Asking systemd keeps a record honest: of the units it has begun, only one
\* with a fate looks inactive.
LEMMA JobStateHonest ==
  ASSUME TypeOK, NEW j \in Job, Honest(j), unit[j.unit] # "queued"
  PROVE  Honest(JobState(j))
  BY DEF TypeOK, Honest, JobState, ActiveState, ExecMainStatus, Job, Launched, UnitStates

LEMMA NoJobHonest == Honest(NoJob) /\ Honest(NoJob)'
  BY DEF Honest, NoJob

LEMMA InitHonest == Init => HonestInv
  BY NoJobHonest DEF Init, HonestInv, EmptyState

LEMMA StepHonest ==
  ASSUME "early" \notin Mishaps, TypeOK, ProcessInv, HonestInv, [Next]_vars
  PROVE  HonestInv'
  <1>1. UnitsAge
    BY Aging
  <1>2. /\ Honest(file.job)
        /\ \A p \in Requests : Honest(snap[p].job)
    BY DEF HonestInv
  <1> DEFINE Copied(j) == /\ j.state # "none" => j.unit \in Units /\ unit'[j.unit] # "new"
                          /\ j.state = "succeeded" => unit'[j.unit] \in {"finished", "lost"}
  <1>3. /\ Copied(file.job)
        /\ \A p \in Requests : Copied(snap[p].job)
        /\ Copied(NoJob)
    BY <1>1, <1>2 DEF UnitsAge, Honest, Launched, NoJob
  <1>4. ASSUME NEW p \in Requests, Probe(p) PROVE Copied(JobState(snap[p].job))
    <2>1. snap[p].job \in Job /\ unit[snap[p].job.unit] # "queued"
      BY <1>4 DEF TypeOK, StateFile, Probe
    <2>2. Honest(JobState(snap[p].job))
      BY <1>2, <2>1, JobStateHonest
    <2> QED BY <2>2, <1>1 DEF UnitsAge, Honest, Launched
  <1> SUFFICES /\ Copied(file'.job)
               /\ \A p \in Requests : Copied(snap'[p].job)
    BY DEF HonestInv, Honest, Launched
  <1> HIDE DEF Copied
  <1>5. ASSUME NEW p \in Requests, Exit(p) PROVE \A q \in Requests : Copied(snap'[q].job)
    BY <1>3, <1>5 DEF Exit, TypeOK, EmptyState
  <1>6. ASSUME NEW p \in Requests, Read(p)
        PROVE  Copied(file'.job) /\ \A q \in Requests : Copied(snap'[q].job)
    BY <1>3, <1>6 DEF Read, TypeOK
  <1>7. ASSUME NEW p \in Requests, Probe(p)
        PROVE  Copied(file'.job) /\ \A q \in Requests : Copied(snap'[q].job)
    <2>1. CASE Exit(p)
      BY <1>3, <1>5, <1>7, <2>1 DEF Probe
    <2>2. CASE snap' = [snap EXCEPT ![p].job = JobState(snap[p].job)]
      <3>1. \A q \in Requests :
              snap'[q].job = IF q = p THEN JobState(snap[p].job) ELSE snap[q].job
        BY <2>2 DEF TypeOK, StateFile
      <3> QED BY <1>3, <1>4, <1>7, <3>1 DEF Probe
    <2> QED BY <1>7, <2>1, <2>2 DEF Probe
  <1>8. ASSUME NEW p \in Requests, Record(p)
         PROVE  Copied(file'.job) /\ \A q \in Requests : Copied(snap'[q].job)
    <2>1. file'.job = [unit |-> mine[p], state |-> "running"]
      BY <1>8 DEF Record, TypeOK, StateFile
    <2>2. mine[p] \in Units /\ unit'[mine[p]] # "new"
      BY <1>8 DEF Record, TypeOK, ProcessInv
    <2>3. Copied(file'.job)
      BY <2>1, <2>2 DEF Copied
    <2> QED BY <1>5, <1>8, <2>3 DEF Record
  <1>9. ASSUME NEW p \in Requests, WriteBack(p)
         PROVE  Copied(file'.job) /\ \A q \in Requests : Copied(snap'[q].job)
    <2>1. file'.job = snap[p].job
      BY <1>9 DEF WriteBack, TypeOK, StateFile
    <2> QED BY <1>3, <1>5, <1>9, <2>1 DEF WriteBack
  <1>10. ASSUME NEW p \in Requests, Abort(p)
         PROVE  Copied(file'.job) /\ \A q \in Requests : Copied(snap'[q].job)
    BY <1>3, <1>5, <1>10 DEF Abort
  <1>11. CASE Reboot
    BY <1>3, <1>11 DEF Reboot, EmptyState
  <1>12. CASE UNCHANGED <<file, snap>>
    BY <1>3, <1>12
  <1>13. \/ UNCHANGED <<file, snap>>
         \/ Reboot
         \/ \E p \in Requests :
               Read(p) \/ Probe(p) \/ Record(p) \/ WriteBack(p) \/ Abort(p)
    BY DEF Next, vars, Invoke, Acquire, Launch, Apt, UnitBegin, UnitEnd
  <1> QED
    BY <1>6, <1>7, <1>8, <1>9, <1>10, <1>11, <1>12, <1>13

\* However many processes of whatever operations interleave, and whatever
\* stale copies they write back, a job recorded as succeeded ended with
\* status 0 or was wiped out by a reboot.  The assumption is that nobody asks
\* for a unit that systemd-run has queued and systemd not yet begun.
THEOREM SuccessCorrect ==
  ASSUME "early" \notin Mishaps
  PROVE  Spec => []SuccessIsReal
  <1>1. TypeOK /\ ProcessInv /\ HonestInv /\ [Next]_vars => HonestInv'
    BY StepHonest
  <1>2. HonestInv => SuccessIsReal
    BY DEF HonestInv, Honest, SuccessIsReal
  <1> QED
    BY <1>1, <1>2, InitHonest, ProcessCorrect, PTL DEF Spec

----------------------------------------------------------------------------
(* Starts alone are serialized *)

\* With no other writer, what the holder of the lock has read is what
\* state.json says, and past the check nothing recorded is live.
Ended(job) == job.state = "running" => ~Live(job.unit)

SerialInv ==
    /\ \A p \in Requests : op[p] \in {"start", None}
    /\ \A p \in Requests : pc[p] = "probe" => snap[p].job = file.job
    /\ \A p \in Requests : pc[p] \in {"launch", "record"} => Ended(file.job)

StartsOnly == Ops = {"start"} /\ "early" \notin Mishaps

LEMMA InitSerial == Init => SerialInv
  BY DEF Init, SerialInv

\* Units only die, except the one that a Launch brings to life.
LEMMA EndedStays ==
  ASSUME TypeOK, NEW j \in Job, Ended(j), j.state = "running" => unit[j.unit] # "new",
         [Next]_vars
  PROVE  j.state = "running" /\ j.unit \in Units => ~(unit'[j.unit] \in {"queued", "running"})
  <1> SUFFICES ASSUME j.state = "running", j.unit \in Units
               PROVE  ~(unit'[j.unit] \in {"queued", "running"})
    OBVIOUS
  <1>1. unit[j.unit] \notin {"new", "queued", "running"}
    BY DEF Ended, Live
  <1>2. ASSUME NEW p \in Requests, NEW u \in Units, Launch(p, u)
        PROVE  unit'[j.unit] = unit[j.unit]
    BY <1>1, <1>2 DEF Launch, TypeOK
  <1>3. ASSUME NEW u \in Units, NEW s \in {"finished", "failed"}, UnitEnd(u, s)
        PROVE  unit'[j.unit] = unit[j.unit]
    BY <1>1, <1>3 DEF UnitEnd, TypeOK
  <1>4. ASSUME NEW u \in Units, UnitBegin(u)
        PROVE  unit'[j.unit] = unit[j.unit]
    BY <1>1, <1>4 DEF UnitBegin, TypeOK
  <1>5. CASE Reboot
    BY <1>1, <1>5 DEF Reboot, TypeOK
  <1>6. CASE UNCHANGED unit
    BY <1>1, <1>6
  <1> QED
    BY <1>1, <1>2, <1>3, <1>4, <1>5, <1>6
    DEF Next, vars, Invoke, Acquire, Read, Probe, Record, Apt, WriteBack, Abort

LEMMA StepSerial ==
  ASSUME StartsOnly, TypeOK, ProcessInv, HonestInv, SerialInv, [Next]_vars
  PROVE  SerialInv'
  <1>1. \A p \in Requests : op'[p] \in {"start", None}
    BY DEF StartsOnly, SerialInv, TypeOK, Next, vars, Invoke, Acquire, Read, Probe, Launch,
           Record, Apt, WriteBack, Abort, UnitBegin, UnitEnd, Reboot, Exit
  \* The file changes only when the holder records, and ends its turn.
  <1>2. \/ file' = file
        \/ \E p \in Requests : Record(p) /\ \A q \in Requests : pc'[q] \notin {"probe", "launch", "record"}
    <2>1. ASSUME NEW p \in Requests, Record(p)
          PROVE  \A q \in Requests : pc'[q] \notin {"probe", "launch", "record"}
      BY <2>1 DEF Record, Exit, ProcessInv, SerialInv, Locked, TypeOK
    <2>2. ASSUME NEW p \in Requests PROVE ~WriteBack(p)
      BY DEF WriteBack, ProcessInv, SerialInv
    <2> QED
      BY <2>1, <2>2 DEF Next, vars, Invoke, Acquire, Read, Probe, Launch, Apt, Abort,
                        UnitBegin, UnitEnd, Reboot
  <1>3. file.job \in Job /\ (file.job.state = "running" => file.job.unit \in Units /\ unit[file.job.unit] # "new")
    BY DEF TypeOK, StateFile, HonestInv, Honest, Launched
  <1>4. Ended(file.job) /\ file' = file => Ended(file.job)'
    BY <1>3, EndedStays DEF Ended, Live
  <1>5. ASSUME NEW q \in Requests, pc'[q] = "probe", file' = file
        PROVE  snap'[q].job = file'.job
    BY <1>5 DEF SerialInv, TypeOK, Next, vars, Invoke, Acquire, Read, Probe, Launch, Record,
                Apt, WriteBack, Abort, UnitBegin, UnitEnd, Reboot, Exit, FirstStep, StartsOnly
  <1>6. ASSUME NEW q \in Requests, pc'[q] \in {"launch", "record"}, file' = file
        PROVE  Ended(file.job)
    <2>1. CASE pc[q] \in {"launch", "record"}
      BY <2>1 DEF SerialInv
    <2>2. CASE pc[q] = "read" /\ Read(q)
      <3>1. op[q] = "start"
        BY <2>2 DEF SerialInv, ProcessInv
      <3>2. file.job.state # "running"
        <4>1. file.job.state = "running" => AfterRead(op[q], file) = "probe"
          BY <3>1 DEF AfterRead
        <4>2. pc'[q] = AfterRead(op[q], file)
          BY <2>2 DEF Read, TypeOK
        <4> QED BY <1>6, <4>1, <4>2
      <3> QED BY <3>2 DEF Ended
    <2>3. CASE pc[q] = "probe" /\ Probe(q)
      <3>1. op[q] = "start" /\ JobState(file.job).state # "running"
        BY <1>6, <2>3 DEF Probe, Exit, SerialInv, ProcessInv, TypeOK
      <3>2. unit[file.job.unit] # "queued"
        BY <2>3 DEF Probe, SerialInv, StartsOnly
      <3> QED BY <1>6, <2>3, <3>1, <3>2, <1>3 DEF JobState, ActiveState, Ended, Live
    <2>4. pc'[q] = pc[q] \/ (pc[q] = "read" /\ Read(q)) \/ (pc[q] = "probe" /\ Probe(q))
            \/ pc[q] = "launch"
      BY <1>6 DEF TypeOK, Next, vars, Invoke, Acquire, Read, Probe, Launch, Record,
                Apt, WriteBack, Abort, UnitBegin, UnitEnd, Reboot, Exit, FirstStep, StartsOnly
    <2> QED BY <1>6, <2>1, <2>2, <2>3, <2>4
  <1> QED
    BY <1>1, <1>2, <1>4, <1>5, <1>6 DEF SerialInv

LEMMA SerialImplies ==
  ASSUME StartsOnly, TypeOK, ProcessInv, SerialInv
  PROVE  TrackedJobsSerialized
  <1>1. ASSUME NEW p \in Requests, NEW q \in Requests, mine[p] # None, mine[q] # None
        PROVE  p = q /\ Ended(file.job)
    BY <1>1 DEF ProcessInv, Locked, SerialInv, TypeOK
  <1>2. ASSUME NEW u \in TrackedUnits, NEW v \in TrackedUnits PROVE u = v
    <2>1. /\ u \in Units /\ Live(u) /\ Tracked(u)
          /\ v \in Units /\ Live(v) /\ Tracked(v)
      BY DEF TrackedUnits, LiveUnits
    <2>2. u # None /\ v # None
      BY <2>1 DEF ConstantsAssumption
    <2> QED BY <1>1, <2>1, <2>2 DEF Tracked, Ended
  <1> QED BY <1>2 DEF TrackedJobsSerialized

LEMMA SerialCorrect ==
  ASSUME StartsOnly
  PROVE  Spec => [](TypeOK /\ ProcessInv /\ HonestInv /\ SerialInv)
  <1>1. TypeOK /\ ProcessInv /\ HonestInv /\ [Next]_vars => HonestInv'
    BY StepHonest DEF StartsOnly
  <1>2. TypeOK /\ ProcessInv /\ HonestInv /\ SerialInv /\ [Next]_vars => SerialInv'
    BY StepSerial
  <1> QED
    BY <1>1, <1>2, InitHonest, InitSerial, ProcessCorrect, PTL DEF Spec

\* Any number of start requests, from any number of callers, with aborts,
\* unrecorded launches and reboots anywhere: of the jobs the helper knows of,
\* one at most is queued or at work, if no start looks at a unit before
\* systemd has begun it.
THEOREM StartsSerialized ==
  ASSUME StartsOnly
  PROVE  Spec => []TrackedJobsSerialized
  <1>1. TypeOK /\ ProcessInv /\ SerialInv => TrackedJobsSerialized
    BY SerialImplies
  <1> QED BY <1>1, SerialCorrect, PTL

\* Every step of the helper's starts is a step of the one-job slot, or no
\* step of it, under the same condition.
THEOREM ImplementsSlot ==
  ASSUME StartsOnly
  PROVE  Spec => SlotSpec
  <1> DEFINE Inv == TypeOK /\ ProcessInv /\ HonestInv /\ SerialInv
  <1>1. Init => Slot!Init
    BY DEF Init, Slot!Init, TrackedUnits, LiveUnits, Live, Launched
  <1>2. Inv /\ Inv' /\ [Next]_vars => [Slot!Next]_(Slot!slot)
    <2> SUFFICES ASSUME Inv, Inv', [Next]_vars PROVE [Slot!Next]_(Slot!slot)
      OBVIOUS
    <2>1. TrackedJobsSerialized
      BY SerialImplies
    <2>2. ASSUME NEW p \in Requests, NEW u \in Units, Launch(p, u)
          PROVE  Slot!Start(u)
      <3>1. u \notin Launched /\ Launched' = Launched \cup {u}
        BY <2>2 DEF Launch, Launched, TypeOK
      <3>2. TrackedUnits = {}
        <4>1. \A q \in Requests : mine[q] = None
          BY <2>2 DEF Launch, ProcessInv, Locked, SerialInv, TypeOK
        <4>2. Ended(file.job)
          BY <2>2 DEF Launch, SerialInv
        <4> QED BY <4>1, <4>2 DEF TrackedUnits, Tracked, Ended, LiveUnits, ConstantsAssumption
      <3>3. TrackedUnits' = {u}
        <4>1. ASSUME NEW v \in TrackedUnits' PROVE v = u
          <5>1. CASE unit[v] = unit'[v]
            <6>1. v \in LiveUnits
              BY <5>1 DEF TrackedUnits, LiveUnits, Live
            <6>2. ~Tracked(v)
              BY <6>1, <3>2 DEF TrackedUnits
            <6> QED BY <2>2, <6>1, <6>2 DEF TrackedUnits, Tracked, LiveUnits, Launch, TypeOK
          <5> QED BY <2>2, <5>1 DEF Launch, TypeOK, TrackedUnits, LiveUnits
        <4>2. u \in TrackedUnits'
          BY <2>2 DEF Launch, TypeOK, TrackedUnits, LiveUnits, Live, Tracked
        <4> QED BY <4>1, <4>2
      <3> QED BY <3>1, <3>2, <3>3 DEF Slot!Start
    \* Every other step launches nothing and adds nothing to the slot.
    <2>3. ASSUME Launched' = Launched, TrackedUnits' \subseteq TrackedUnits
          PROVE  [Slot!Next]_(Slot!slot)
      <3>1. TrackedUnits' = TrackedUnits \/ (TrackedUnits # {} /\ TrackedUnits' = {})
        BY <2>1, <2>3 DEF TrackedJobsSerialized
      <3> QED BY <2>3, <3>1 DEF Slot!Next, Slot!End, Slot!slot
    <2>4. CASE \E p \in Requests : Record(p)
      <3> PICK p \in Requests : Record(p)
        BY <2>4
      <3>1. Launched' = Launched /\ LiveUnits' = LiveUnits
        BY DEF Record, Launched, LiveUnits, Live
      <3>2. file'.job = [unit |-> mine[p], state |-> "running"]
        BY DEF Record, TypeOK, StateFile
      <3>3. \A u \in Units : Tracked(u)' => Tracked(u)
        BY <3>2 DEF Record, Exit, Tracked, TypeOK, ConstantsAssumption
      <3> QED BY <2>3, <3>1, <3>3 DEF TrackedUnits, LiveUnits
    <2>5. CASE \E p \in Requests : Abort(p) \/ Probe(p)
      <3>1. Launched' = Launched /\ LiveUnits' = LiveUnits
        BY <2>5 DEF Abort, Probe, Launched, LiveUnits, Live
      <3>2. \A u \in Units : Tracked(u)' => Tracked(u)
        BY <2>5 DEF Abort, Probe, Exit, Tracked, TypeOK, ConstantsAssumption
      <3> QED BY <2>3, <3>1, <3>2 DEF TrackedUnits, LiveUnits
    <2>6. CASE Reboot
      <3>1. Launched' = Launched /\ LiveUnits' = {}
        BY <2>6 DEF Reboot, Launched, LiveUnits, Live
      <3> QED BY <2>3, <3>1 DEF TrackedUnits
    <2>7. CASE \E u \in Units : UnitBegin(u) \/ UnitEnd(u, "finished") \/ UnitEnd(u, "failed")
      <3>1. Launched' = Launched /\ LiveUnits' \subseteq LiveUnits
        BY <2>7 DEF UnitBegin, UnitEnd, Launched, LiveUnits, Live, TypeOK
      <3>2. \A u \in Units : Tracked(u)' = Tracked(u)
        BY <2>7 DEF UnitBegin, UnitEnd, Tracked
      <3> QED BY <2>3, <3>1, <3>2 DEF TrackedUnits, LiveUnits
    <2>8. CASE UNCHANGED <<file, unit, mine>>
      BY <2>3, <2>8 DEF TrackedUnits, LiveUnits, Live, Tracked, Launched
    <2>9. ASSUME NEW p \in Requests PROVE ~WriteBack(p)
      BY DEF WriteBack, ProcessInv, SerialInv
    <2>10. \/ \E p \in Requests, u \in Units : Launch(p, u)
           \/ \E p \in Requests : Record(p) \/ Abort(p) \/ Probe(p)
           \/ Reboot
           \/ \E u \in Units : UnitBegin(u) \/ UnitEnd(u, "finished") \/ UnitEnd(u, "failed")
           \/ UNCHANGED <<file, unit, mine>>
      BY <2>9 DEF Next, vars, Invoke, Acquire, Read, Apt
    <2> QED
      BY <2>2, <2>4, <2>5, <2>6, <2>7, <2>8, <2>10 DEF Slot!Next
  <1> QED BY <1>1, <1>2, SerialCorrect, PTL DEF Spec, SlotSpec, Slot!Spec

----------------------------------------------------------------------------
(* The documented promise, where every launch gets its record *)

NoOrphans == \A u \in LiveUnits : Tracked(u)

LEMMA StepNoOrphans ==
  ASSUME "orphan" \notin Mishaps, StartsOnly, TypeOK, ProcessInv, HonestInv, SerialInv,
         NoOrphans, [Next]_vars
  PROVE  NoOrphans'
  <1> SUFFICES ASSUME NEW u \in Units, Live(u)'
               PROVE  Tracked(u)'
    BY DEF NoOrphans, LiveUnits
  <1>1. Live(u) => Tracked(u)
    BY DEF NoOrphans, LiveUnits
  <1>2. ASSUME NEW p \in Requests, NEW v \in Units, Launch(p, v)
        PROVE  Tracked(u)'
    <2>1. CASE u = v
      BY <1>2, <2>1 DEF Launch, Tracked, TypeOK
    <2>2. CASE u # v
      <3>1. Tracked(u)
        BY <1>1, <1>2, <2>2 DEF Launch, Live, TypeOK
      <3>2. mine[p] = None
        BY <1>2 DEF Launch, ProcessInv
      <3> QED BY <1>2, <2>2, <3>1, <3>2 DEF Launch, Tracked, TypeOK, ConstantsAssumption
    <2> QED BY <2>1, <2>2
  <1>3. ASSUME NEW p \in Requests, Record(p)
        PROVE  Tracked(u)'
    <2>1. Live(u)
      BY <1>3 DEF Record, Live
    <2>2. Ended(file.job)
      BY <1>3 DEF Record, SerialInv
    <2>3. PICK q \in Requests : mine[q] = u
      BY <1>1, <2>1, <2>2 DEF Tracked, Ended
    <2>4. q = p
      BY <1>3, <2>3 DEF Record, ProcessInv, Locked, ConstantsAssumption
    <2>5. file'.job = [unit |-> u, state |-> "running"]
      BY <1>3, <2>3, <2>4 DEF Record, TypeOK, StateFile
    <2> QED BY <2>5 DEF Tracked
  <1>4. ASSUME NEW p \in Requests, Exit(p), pc[p] # "record", UNCHANGED <<file, unit>>
        PROVE  Tracked(u)'
    <2>1. Tracked(u)
      BY <1>1, <1>4 DEF Live
    <2>2. mine[p] = None
      BY <1>4 DEF ProcessInv
    <2> QED BY <1>4, <2>1, <2>2 DEF Exit, Tracked, TypeOK, ConstantsAssumption
  <1>5. CASE UNCHANGED <<file, mine>> /\ (Live(u)' => Live(u))
    BY <1>1, <1>5 DEF Tracked
  <1>6. CASE Reboot
    BY <1>6 DEF Reboot, Live
  <1>7. ASSUME NEW p \in Requests PROVE ~WriteBack(p)
    BY DEF WriteBack, ProcessInv, SerialInv
  <1>8. ASSUME NEW v \in Units,
               UnitBegin(v) \/ UnitEnd(v, "finished") \/ UnitEnd(v, "failed")
        PROVE  UNCHANGED <<file, mine>> /\ (Live(u)' => Live(u))
    BY <1>8 DEF UnitBegin, UnitEnd, Live, TypeOK
  <1>9. ASSUME NEW p \in Requests, Probe(p) \/ Abort(p)
        PROVE  \/ Exit(p) /\ pc[p] # "record" /\ UNCHANGED <<file, unit>>
               \/ UNCHANGED <<file, mine, unit>>
    BY <1>9 DEF Probe, Abort
  <1>10. UNCHANGED <<file, mine, unit>> => Tracked(u)'
    BY <1>5 DEF Live
  <1> QED
    BY <1>2, <1>3, <1>4, <1>5, <1>6, <1>7, <1>8, <1>9, <1>10
    DEF Next, vars, Invoke, Acquire, Read, Apt

\* Package jobs are serialized per host (API_CONTRACT.md:106), for every
\* number of overlapping starts, with units that systemd has only queued,
\* aborts and reboots, under three conditions: starts alone write state.json,
\* each records the unit it launched, and no start looks at a unit before
\* systemd has begun it.  The code assures none of them, and without any one
\* the promise breaks: jobs_status_race shows it for the first.
THEOREM JobsSerialized ==
  ASSUME StartsOnly, "orphan" \notin Mishaps
  PROVE  Spec => []SerializedJobs
  <1>1. Init => NoOrphans
    BY DEF Init, NoOrphans, LiveUnits, Live
  <1>2. TypeOK /\ ProcessInv /\ HonestInv /\ SerialInv /\ NoOrphans /\ [Next]_vars => NoOrphans'
    BY StepNoOrphans
  <1>3. TypeOK /\ ProcessInv /\ SerialInv /\ NoOrphans => SerializedJobs
    BY SerialImplies DEF SerializedJobs, NoOrphans, TrackedJobsSerialized, TrackedUnits
  <1> QED BY <1>1, <1>2, <1>3, SerialCorrect, PTL DEF Spec

----------------------------------------------------------------------------
(* The documented promise, where callers take turns *)

\* Nothing overlaps at the host: each process ends before the next begins.
InTurns == OneAtATime = Ops /\ "early" \notin Mishaps /\ "orphan" \notin Mishaps

OneActive == \A p, q \in Requests : op[p] # None /\ op[q] # None => p = q

\* A copy that is to be written back says what state.json says, or settles a
\* job that has ended.
Same(job) ==
    \/ job = file.job
    \/ job.unit = file.job.unit /\ job.state # "running" /\ Ended(file.job)

Current(p) ==
    /\ pc[p] = "probe" => snap[p].job = file.job
    /\ pc[p] = "write" \/ (pc[p] = "apt" /\ op[p] = "check-updates") => Same(snap[p].job)
    /\ pc[p] \in {"launch", "record"} => Ended(file.job)

TurnInv == OneActive /\ \A p \in Requests : Current(p)

LEMMA InitTurn == Init => TurnInv /\ NoOrphans
  BY DEF Init, TurnInv, OneActive, Current, NoOrphans, LiveUnits, Live

LEMMA StepOneActive ==
  ASSUME InTurns, TypeOK, ProcessInv, OneActive, [Next]_vars
  PROVE  OneActive'
  <1>1. ASSUME NEW p \in Requests, NEW o \in Ops, Invoke(p, o) PROVE OneActive'
    <2>1. \A q \in Requests : op[q] = None
      BY <1>1 DEF Invoke, InTurns, TypeOK
    <2> QED BY <1>1, <2>1 DEF Invoke, OneActive, TypeOK
  <1>2. CASE \A q \in Requests : op'[q] \in {op[q], None}
    BY <1>2 DEF OneActive
  <1>3. \/ \E p \in Requests, o \in Ops : Invoke(p, o)
        \/ \A q \in Requests : op'[q] \in {op[q], None}
    BY DEF TypeOK, Next, vars, Acquire, Read, Probe, Launch, Record, Apt, WriteBack, Abort,
           UnitBegin, UnitEnd, Reboot, Exit
  <1> QED BY <1>1, <1>2, <1>3

\* A process that ends leaves nobody at work.
LEMMA ExitIdle ==
  ASSUME TypeOK, ProcessInv, TurnInv, NEW p \in Requests, pc[p] # "idle", Exit(p)
  PROVE  \A q \in Requests : pc'[q] = "idle"
  BY DEF TypeOK, ProcessInv, TurnInv, OneActive, Exit

\* Asking systemd settles a record only when its job has ended.
LEMMA JobStateSettles ==
  ASSUME TypeOK, HonestInv, unit[file.job.unit] # "queued"
  PROVE  Same(JobState(file.job))
  <1>1. file.job \in Job /\ (file.job.state = "running" => file.job.unit \in Units)
    BY DEF TypeOK, StateFile, HonestInv, Honest, Launched
  <1>2. CASE file.job.state = "running" /\ ActiveState(file.job.unit) = "inactive"
    <2>1. unit[file.job.unit] \notin {"queued", "running"}
      BY <1>1, <1>2 DEF ActiveState
    <2>2. Ended(file.job)
      BY <2>1 DEF Ended, Live
    <2>3. JobState(file.job).unit = file.job.unit /\ JobState(file.job).state \in {"succeeded", "failed"}
      BY <1>1, <1>2 DEF JobState, Job
    <2> QED BY <2>2, <2>3 DEF Same
  <1>3. CASE ~(file.job.state = "running" /\ ActiveState(file.job.unit) = "inactive")
    BY <1>3 DEF JobState, Same
  <1> QED BY <1>2, <1>3

LEMMA StepCurrent ==
  ASSUME InTurns, TypeOK, ProcessInv, HonestInv, TurnInv, [Next]_vars
  PROVE  \A p \in Requests : Current(p)'
  <1>1. Ended(file.job) /\ file' = file => Ended(file.job)'
    <2>1. file.job \in Job /\ (file.job.state = "running" => file.job.unit \in Units /\ unit[file.job.unit] # "new")
      BY DEF TypeOK, StateFile, HonestInv, Honest, Launched
    <2> QED BY <2>1, EndedStays DEF Ended, Live
  <1>2. \A p \in Requests : Current(p) /\ (pc[p] # "idle" => \A q \in Requests \ {p} : pc[q] = "idle")
    BY DEF TurnInv, OneActive, ProcessInv
  <1>3. CASE \A q \in Requests : pc'[q] = "idle"
    BY <1>3 DEF Current
  <1>4. ASSUME NEW p \in Requests, NEW o \in Ops, Invoke(p, o) PROVE \A q \in Requests : Current(q)'
    <2>1. \A q \in Requests : pc[q] = "idle"
      BY <1>4 DEF Invoke, InTurns, TypeOK, ProcessInv
    <2>2. pc'[p] = FirstStep(o) /\ op'[p] = o /\ \A q \in Requests \ {p} : pc'[q] = "idle"
      BY <1>4, <2>1 DEF Invoke, TypeOK
    <2>3. FirstStep(o) \in {"lock", "read", "apt"} /\ (FirstStep(o) = "apt" => o # "check-updates")
      BY DEF FirstStep, MaintenanceOps
    <2> QED BY <2>2, <2>3 DEF Current
  <1>5. ASSUME NEW p \in Requests, Acquire(p) PROVE \A q \in Requests : Current(q)'
    <2>1. pc'[p] = "read" /\ \A q \in Requests \ {p} : pc'[q] = "idle"
      BY <1>2, <1>5 DEF Acquire, TypeOK
    <2> QED BY <2>1 DEF Current
  <1>6. ASSUME NEW p \in Requests, Read(p) PROVE \A q \in Requests : Current(q)'
    <2>1. /\ pc'[p] = AfterRead(op[p], file) /\ snap'[p] = file /\ UNCHANGED <<file, unit, op>>
          /\ \A q \in Requests \ {p} : pc'[q] = "idle"
      BY <1>2, <1>6 DEF Read, TypeOK
    <2>2. AfterRead(op[p], file) = "launch" => file.job.state # "running"
      BY DEF AfterRead
    <2>3. AfterRead(op[p], file) # "record"
      BY DEF AfterRead
    <2> QED BY <2>1, <2>2, <2>3 DEF Current, Same, Ended
  <1>7. ASSUME NEW p \in Requests, Probe(p) PROVE \A q \in Requests : Current(q)'
    <2>1. CASE Exit(p)
      BY <1>3, <1>7, <2>1, ExitIdle DEF Probe
    <2>2. CASE /\ op[p] = "status" \/ JobState(snap[p].job).state # "running"
               /\ snap' = [snap EXCEPT ![p].job = JobState(snap[p].job)]
               /\ pc' = [pc EXCEPT ![p] = IF op[p] = "start" THEN "launch" ELSE "write"]
               /\ UNCHANGED <<lock, op, mine>>
      <3>1. snap[p].job = file.job /\ UNCHANGED <<file, unit>> /\ unit[file.job.unit] # "queued"
        BY <1>2, <1>7 DEF Probe, Current, InTurns
      <3>2. snap'[p].job = JobState(file.job)
        BY <2>2, <3>1 DEF TypeOK, StateFile
      <3>3. /\ pc'[p] = IF op[p] = "start" THEN "launch" ELSE "write"
            /\ \A q \in Requests \ {p} : pc'[q] = "idle"
        BY <1>2, <1>7, <2>2 DEF Probe, TypeOK
      <3>4. JobState(file.job).state # "running" => Ended(file.job)
        BY <3>1, JobStateSettles DEF Same, Ended
      <3>5. Same(JobState(file.job))
        BY <3>1, JobStateSettles
      <3> QED BY <2>2, <3>1, <3>2, <3>3, <3>4, <3>5 DEF Current, Same, Ended, Live
    <2> QED BY <1>7, <2>1, <2>2 DEF Probe
  <1>8. ASSUME NEW p \in Requests, NEW u \in Units, Launch(p, u) PROVE \A q \in Requests : Current(q)'
    <2>1. /\ pc'[p] = "record" /\ file' = file
          /\ \A q \in Requests \ {p} : pc'[q] = "idle"
      BY <1>2, <1>8 DEF Launch, TypeOK
    <2>2. Ended(file.job)'
      BY <1>1, <1>2, <1>8 DEF Launch, Current
    <2> QED BY <2>1, <2>2 DEF Current
  <1>9. ASSUME NEW p \in Requests, Record(p) \/ WriteBack(p) \/ Abort(p)
        PROVE  \A q \in Requests : Current(q)'
    BY <1>3, <1>9, ExitIdle DEF Record, WriteBack, Abort
  <1>10. ASSUME NEW p \in Requests, Apt(p) PROVE \A q \in Requests : Current(q)'
    <2>1. /\ pc'[p] \in {"write", "read"}
          /\ pc'[p] = "write" => op[p] = "check-updates"
          /\ \A q \in Requests \ {p} : pc'[q] = "idle"
          /\ pc[p] = "apt" /\ UNCHANGED <<file, unit, op, snap>>
      BY <1>2, <1>10 DEF Apt, TypeOK
    <2> QED BY <1>2, <2>1 DEF Current, Same, Ended, Live
  <1>11. CASE Reboot
    BY <1>3, <1>11 DEF Reboot
  <1>12. CASE UNCHANGED <<file, pc, op, snap>>
    <2> SUFFICES ASSUME NEW p \in Requests PROVE Current(p)'
      OBVIOUS
    <2> QED BY <1>1, <1>2, <1>12 DEF Current, Same
  <1> QED
    BY <1>4, <1>5, <1>6, <1>7, <1>8, <1>9, <1>10, <1>11, <1>12
       DEF Next, vars, UnitBegin, UnitEnd

LEMMA StepTurnOrphans ==
  ASSUME InTurns, TypeOK, ProcessInv, HonestInv, TurnInv, NoOrphans, [Next]_vars
  PROVE  NoOrphans'
  <1> SUFFICES ASSUME NEW u \in Units, Live(u)'
               PROVE  Tracked(u)'
    BY DEF NoOrphans, LiveUnits
  <1>1. Live(u) => Tracked(u)
    BY DEF NoOrphans, LiveUnits
  <1>2. ASSUME NEW p \in Requests, pc[p] \notin {"idle", "record"}
        PROVE  \A q \in Requests : mine[q] = None
    BY <1>2 DEF ProcessInv, TurnInv, OneActive, TypeOK
  <1>3. ASSUME NEW p \in Requests, NEW v \in Units, Launch(p, v) PROVE Tracked(u)'
    <2>1. u # v => Live(u)
      BY <1>3 DEF Launch, Live, TypeOK
    <2>2. ~Tracked(u) \/ ~Live(u)
      <3>1. \A q \in Requests : mine[q] = None
        BY <1>2, <1>3 DEF Launch
      <3>2. Ended(file.job)
        BY <1>3 DEF Launch, TurnInv, Current
      <3> QED BY <3>1, <3>2 DEF Tracked, Ended, ConstantsAssumption
    <2> QED BY <1>1, <1>3, <2>1, <2>2 DEF Launch, Tracked, TypeOK
  <1>4. ASSUME NEW p \in Requests, Record(p) PROVE Tracked(u)'
    <2>1. Live(u) /\ Ended(file.job)
      BY <1>4 DEF Record, Live, TurnInv, Current
    <2>2. PICK q \in Requests : mine[q] = u
      BY <1>1, <2>1 DEF Tracked, Ended
    <2>3. q = p
      BY <1>4, <2>2 DEF Record, ProcessInv, TurnInv, OneActive, ConstantsAssumption
    <2>4. file'.job = [unit |-> u, state |-> "running"]
      BY <1>4, <2>2, <2>3 DEF Record, TypeOK, StateFile
    <2> QED BY <2>4 DEF Tracked
  <1>5. ASSUME NEW p \in Requests, WriteBack(p) PROVE Tracked(u)'
    <2>1. Live(u) /\ \A q \in Requests : mine[q] = None
      BY <1>2, <1>5 DEF WriteBack, Live
    <2>2. file.job.unit = u /\ file.job.state = "running"
      BY <1>1, <2>1 DEF Tracked, ConstantsAssumption
    <2>3. ~Ended(file.job)
      BY <2>1, <2>2 DEF Ended
    <2>4. snap[p].job = file.job
      BY <1>5, <2>3 DEF WriteBack, TurnInv, Current, Same
    <2>5. file'.job = snap[p].job
      BY <1>5 DEF WriteBack, TypeOK, StateFile
    <2> QED BY <2>2, <2>4, <2>5 DEF Tracked
  <1>6. ASSUME NEW p \in Requests, Exit(p), pc[p] # "record", UNCHANGED <<file, unit>>
        PROVE  Tracked(u)'
    <2>1. Tracked(u)
      BY <1>1, <1>6 DEF Live
    <2>2. mine[p] = None
      BY <1>6 DEF ProcessInv
    <2> QED BY <1>6, <2>1, <2>2 DEF Exit, Tracked, TypeOK, ConstantsAssumption
  <1>7. CASE UNCHANGED <<file, mine>> /\ (Live(u)' => Live(u))
    BY <1>1, <1>7 DEF Tracked
  <1>8. ASSUME NEW p \in Requests, Probe(p) \/ Abort(p) PROVE Tracked(u)'
    <2>1. \/ Exit(p) /\ pc[p] # "record" /\ UNCHANGED <<file, unit>>
          \/ UNCHANGED <<file, mine, unit>>
      BY <1>8 DEF Probe, Abort, InTurns
    <2> QED BY <1>6, <1>7, <2>1 DEF Live
  <1>9. CASE Reboot
    BY <1>9 DEF Reboot, Live
  <1>10. ASSUME NEW v \in Units,
                UnitBegin(v) \/ UnitEnd(v, "finished") \/ UnitEnd(v, "failed")
         PROVE  Tracked(u)'
    BY <1>7, <1>10 DEF UnitBegin, UnitEnd, Live, TypeOK
  <1>11. CASE UNCHANGED <<file, mine, unit>>
    BY <1>7, <1>11 DEF Live
  <1> QED
    BY <1>3, <1>4, <1>5, <1>8, <1>9, <1>10, <1>11 DEF Next, vars, Invoke, Acquire, Read, Apt

\* Package jobs are serialized per host, with all operations that write
\* state.json, aborts and reboots, if no two helper processes overlap,
\* launches are recorded and nobody looks at a unit before systemd has begun
\* it.  So the file handling is right for callers that
\* take turns; what jobs_status_race finds is their overlap, which the action
\* lock of the runtime leaves to status and to calls that have timed out.
THEOREM JobsSerializedInTurns ==
  ASSUME InTurns
  PROVE  Spec => []SerializedJobs
  <1>1. TypeOK /\ ProcessInv /\ HonestInv /\ [Next]_vars => HonestInv'
    BY StepHonest DEF InTurns
  <1>2. TypeOK /\ ProcessInv /\ HonestInv /\ TurnInv /\ NoOrphans /\ [Next]_vars
           => TurnInv' /\ NoOrphans'
    BY StepOneActive, StepCurrent, StepTurnOrphans DEF TurnInv
  <1>3. ProcessInv /\ TurnInv /\ NoOrphans => SerializedJobs
    <2> SUFFICES ASSUME ProcessInv, TurnInv, NoOrphans, NEW u \in LiveUnits, NEW v \in LiveUnits
                 PROVE  u = v
      BY DEF SerializedJobs
    <2>1. Tracked(u) /\ Tracked(v) /\ Live(u) /\ Live(v) /\ u # None /\ v # None
      BY DEF NoOrphans, LiveUnits, ConstantsAssumption
    <2>2. ASSUME NEW p \in Requests, NEW q \in Requests, mine[p] = u \/ mine[p] = v, mine[q] # None
          PROVE  p = q /\ Ended(file.job)
      BY <2>1, <2>2 DEF ProcessInv, TurnInv, OneActive, Current
    <2> QED BY <2>1, <2>2 DEF Tracked, Ended
  <1> QED BY <1>1, <1>2, <1>3, InitHonest, InitTurn, ProcessCorrect, PTL DEF Spec
=============================================================================
