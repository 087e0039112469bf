---------------------------- MODULE PackageJobs ----------------------------
(***************************************************************************)
(* The root helper of one managed host: every SSH request starts a separate *)
(* pi-managerctl process, and all of them read, change and replace the same *)
(* state.json.  Only the operations that start a package job take the flock *)
(* on update.lock; status, check-updates and the maintenance queries do not.*)
(* The job itself runs in a transient systemd unit, which state.json names. *)
(***************************************************************************)
EXTENDS Naturals, FiniteSets

CONSTANTS
    Requests,       \* slots for concurrent helper processes
    Units,          \* unit names: bounds the jobs ever launched
    None,           \* no process, no unit, no result
    Ops,            \* the helper operations that are requested
    OneAtATime,     \* operations the caller never has two of in flight
    Mishaps         \* what may go wrong: "abort", "orphan", "early", "reboot"

MaintenanceOps == {"preview-upgrade", "preview-dist-upgrade", "preview-autoremove",
                   "audit-packages", "show-package-holds", "failed-services"}
ResultOps == MaintenanceOps \cup {"check-updates"}

ASSUME ConstantsAssumption ==
    /\ None \notin Requests \cup Units \cup Ops
    /\ IsFiniteSet(Requests) /\ IsFiniteSet(Units)
    /\ Ops \subseteq ResultOps \cup {"start", "status"}
    /\ OneAtATime \subseteq Ops
    /\ Mishaps \subseteq {"abort", "orphan", "early", "reboot"}

VARIABLES
    file,   \* state.json: the job record and the retained results
    lock,   \* the process that holds the flock, or None
    unit,   \* what systemd and the worker have done with each unit name
    pc,     \* where each helper process is
    op,     \* the operation it runs
    snap,   \* its private copy of state.json
    mine    \* the unit it has launched and not yet recorded

vars == <<file, lock, unit, pc, op, snap, mine>>

----------------------------------------------------------------------------
Job == [unit : Units \cup {None}, state : {"none", "running", "succeeded", "failed"}]
StateFile == [job : Job, results : [ResultOps -> Requests \cup {None}]]

NoJob == [unit |-> None, state |-> "none"]
EmptyState == [job |-> NoJob, results |-> [o \in ResultOps |-> None]]

UnitStates == {"new", "queued", "running", "finished", "failed", "lost"}
Steps == {"idle", "lock", "read", "probe", "launch", "record", "apt", "write"}

TypeOK ==
    /\ file \in StateFile
    /\ lock \in Requests \cup {None}
    /\ unit \in [Units -> UnitStates]
    /\ pc \in [Requests -> Steps]
    /\ op \in [Requests -> Ops \cup {None}]
    /\ snap \in [Requests -> StateFile]
    /\ mine \in [Requests -> Units \cup {None}]

Live(u) == unit[u] \in {"queued", "running"}
LiveUnits == {u \in Units : Live(u)}
Launched == {u \in Units : unit[u] # "new"}

----------------------------------------------------------------------------
\* systemd, as `systemctl show` presents it.  A unit that is waiting, that
\* ended well (and was collected) or that a reboot wiped out looks inactive
\* with status 0; a unit that failed stays loaded as failed.
ActiveState(u) ==
    IF unit[u] = "running" THEN "activating"
    ELSE IF unit[u] = "failed" THEN "failed" ELSE "inactive"

ExecMainStatus(u) == IF unit[u] = "failed" THEN 1 ELSE 0

\* Slip: whatever is no longer activating counts as a success.
JobState_AnyEnd(job) ==
    IF job.state = "running" /\ ActiveState(job.unit) # "activating"
    THEN [job EXCEPT !.state = "succeeded"] ELSE job

\* Slip: only a unit that systemd still has settles the record.
JobState_Loaded(job) ==
    IF job.state = "running" /\ ActiveState(job.unit) = "failed"
    THEN [job EXCEPT !.state = "failed"] ELSE job

\* The job record as the helper sees it now.  Only a record that still says
\* running is compared with systemd, and only inactive settles it.
JobState(job) ==
    IF job.state = "running" /\ ActiveState(job.unit) = "inactive"
    THEN [job EXCEPT !.state = IF ExecMainStatus(job.unit) = 0 THEN "succeeded" ELSE "failed"]
    ELSE job

----------------------------------------------------------------------------
\* Where an operation begins: under the lock, at its apt queries, or at
\* state.json.  check-updates reads state.json BEFORE it runs apt.
FirstStep(o) ==
    CASE o = "start" -> "lock"
      [] o \in MaintenanceOps -> "apt"
      [] OTHER -> "read"

\* Slip: a start does not look at the job that is recorded.
AfterRead_NoCheck(o, s) ==
    CASE o = "start" -> "launch"
      [] o = "check-updates" -> "apt"
      [] o = "status" /\ s.job.state = "running" -> "probe"
      [] OTHER -> "write"

AfterRead(o, s) ==
    IF o \in {"start", "status"} /\ s.job.state = "running" THEN "probe"
    ELSE CASE o = "start" -> "launch"
           [] o = "check-updates" -> "apt"
           [] OTHER -> "write"

\* Slip: the lock outlives the process.
Exit_KeepsLock(p) ==
    /\ pc' = [pc EXCEPT ![p] = "idle"]
    /\ op' = [op EXCEPT ![p] = None]
    /\ snap' = [snap EXCEPT ![p] = EmptyState]
    /\ mine' = [mine EXCEPT ![p] = None]
    /\ UNCHANGED lock

\* A process ends: its locals die and the kernel drops a flock it held.
Exit(p) ==
    /\ pc' = [pc EXCEPT ![p] = "idle"]
    /\ op' = [op EXCEPT ![p] = None]
    /\ snap' = [snap EXCEPT ![p] = EmptyState]
    /\ mine' = [mine EXCEPT ![p] = None]
    /\ lock' = IF lock = p THEN None ELSE lock

\* Bound: a start is requested only while a unit name is left for it.
NameLeft ==
    Cardinality({q \in Requests : op[q] = "start"}) < Cardinality(Units \ Launched)

Invoke(p, o) ==
    /\ pc[p] = "idle"
    /\ o \in OneAtATime => \A q \in Requests : op[q] \notin OneAtATime
    /\ o = "start" => NameLeft
    /\ pc' = [pc EXCEPT ![p] = FirstStep(o)]
    /\ op' = [op EXCEPT ![p] = o]
    /\ UNCHANGED <<file, lock, unit, snap, mine>>

\* Slip: no fcntl module, so no lock is taken.
Acquire_Unlocked(p) ==
    /\ pc[p] = "lock"
    /\ pc' = [pc EXCEPT ![p] = "read"]
    /\ UNCHANGED <<file, lock, unit, op, snap, mine>>

Acquire(p) ==
    /\ pc[p] = "lock"
    /\ lock = None
    /\ lock' = p
    /\ pc' = [pc EXCEPT ![p] = "read"]
    /\ UNCHANGED <<file, unit, op, snap, mine>>

Read(p) ==
    /\ pc[p] = "read"
    /\ snap' = [snap EXCEPT ![p] = file]
    /\ pc' = [pc EXCEPT ![p] = AfterRead(op[p], file)]
    /\ UNCHANGED <<file, lock, unit, op, mine>>

\* _job_state for a record that says running; a start that finds it still
\* running answers update_already_running and writes nothing.  (Bound: unless
\* "early" is among the mishaps, systemd has taken the unit off its queue
\* before another process asks for it.)
Probe(p) ==
    LET job == JobState(snap[p].job) IN
    /\ pc[p] = "probe"
    /\ unit[snap[p].job.unit] = "queued" => "early" \in Mishaps
    /\ UNCHANGED <<file, unit>>
    /\ \/ /\ op[p] = "start" /\ job.state = "running"
          /\ Exit(p)
       \/ /\ op[p] = "status" \/ job.state # "running"
          /\ snap' = [snap EXCEPT ![p].job = job]
          /\ pc' = [pc EXCEPT ![p] = IF op[p] = "start" THEN "launch" ELSE "write"]
          /\ UNCHANGED <<lock, op, mine>>

\* systemd-run --no-block queues the transient unit and returns at once.
Launch(p, u) ==
    /\ pc[p] = "launch"
    /\ unit[u] = "new"
    /\ unit' = [unit EXCEPT ![u] = "queued"]
    /\ mine' = [mine EXCEPT ![p] = u]
    /\ pc' = [pc EXCEPT ![p] = "record"]
    /\ UNCHANGED <<file, lock, op, snap>>

\* Slip: the record takes its state from the summary's wording.
Record_Started(p) ==
    /\ pc[p] = "record"
    /\ file' = [snap[p] EXCEPT !.job = [unit |-> mine[p], state |-> "started"]]
    /\ Exit(p)
    /\ UNCHANGED unit

\* The copy read under the lock goes back with the new job in it, and the
\* lock is released.
Record(p) ==
    /\ pc[p] = "record"
    /\ file' = [snap[p] EXCEPT !.job = [unit |-> mine[p], state |-> "running"]]
    /\ Exit(p)
    /\ UNCHANGED unit

\* The apt, dpkg or systemctl queries of an operation return.
Apt(p) ==
    /\ pc[p] = "apt"
    /\ pc' = [pc EXCEPT ![p] = IF op[p] = "check-updates" THEN "write" ELSE "read"]
    /\ UNCHANGED <<file, lock, unit, op, snap, mine>>

\* status writes back its copy with the probed job, a query its copy with
\* its own result added.  Nothing is locked, nothing is read again.
WriteBack(p) ==
    /\ pc[p] = "write"
    /\ file' = IF op[p] = "status" THEN snap[p] ELSE [snap[p] EXCEPT !.results[op[p]] = p]
    /\ Exit(p)
    /\ UNCHANGED unit

\* An AgentError (command_timeout, package_check_failed, start failed), an
\* OSError in _write_json, or a kill: the process ends before its write.
\* After the launch the unit runs on without a record: an orphan.  (So it
\* does when systemd-run times out having created it: a Launch, then this.)
Abort(p) ==
    /\ pc[p] # "idle"
    /\ (IF pc[p] = "record" THEN "orphan" ELSE "abort") \in Mishaps
    /\ Exit(p)
    /\ UNCHANGED <<file, unit>>

----------------------------------------------------------------------------
UnitBegin(u) ==
    /\ unit[u] = "queued"
    /\ unit' = [unit EXCEPT ![u] = "running"]
    /\ UNCHANGED <<file, lock, pc, op, snap, mine>>

\* The worker's apt-get or dpkg returns 0, or the worker answers an error.
UnitEnd(u, s) ==
    /\ unit[u] = "running"
    /\ unit' = [unit EXCEPT ![u] = s]
    /\ UNCHANGED <<file, lock, pc, op, snap, mine>>

\* Every process and every transient unit is gone; state.json stays.
Reboot ==
    /\ "reboot" \in Mishaps
    /\ lock' = None
    /\ unit' = [u \in Units |-> IF unit[u] \in {"new", "finished"} THEN unit[u] ELSE "lost"]
    /\ pc' = [p \in Requests |-> "idle"]
    /\ op' = [p \in Requests |-> None]
    /\ snap' = [p \in Requests |-> EmptyState]
    /\ mine' = [p \in Requests |-> None]
    /\ UNCHANGED file

----------------------------------------------------------------------------
Init ==
    /\ file = EmptyState
    /\ lock = None
    /\ unit = [u \in Units |-> "new"]
    /\ pc = [p \in Requests |-> "idle"]
    /\ op = [p \in Requests |-> None]
    /\ snap = [p \in Requests |-> EmptyState]
    /\ mine = [p \in Requests |-> None]

Progress(p) ==
    \/ Read(p) \/ Probe(p) \/ Record(p) \/ Apt(p) \/ WriteBack(p)
    \/ \E u \in Units : Launch(p, u)

Next ==
    \/ \E p \in Requests :
          \/ \E o \in Ops : Invoke(p, o)
          \/ Acquire(p)
          \/ Read(p)
          \/ Probe(p)
          \/ \E u \in Units : Launch(p, u)
          \/ Record(p)
          \/ Apt(p)
          \/ WriteBack(p)
          \/ Abort(p)
    \/ \E u \in Units :
          \/ UnitBegin(u)
          \/ UnitEnd(u, "finished")
          \/ UnitEnd(u, "failed")
    \/ Reboot

Spec == Init /\ [][Next]_vars

\* A process that holds the lock, or needs none, goes on to its end (every
\* command it runs has a timeout); flock serves its waiters; a worker ends
\* (its apt calls time out); Home Assistant polls the status forever.
Fairness ==
    /\ \A p \in Requests : WF_vars(Progress(p)) /\ SF_vars(Acquire(p))
    /\ \A u \in Units :
          /\ WF_vars(UnitBegin(u))
          /\ WF_vars(UnitEnd(u, "finished") \/ UnitEnd(u, "failed"))
    /\ SF_vars(\E p \in Requests : Invoke(p, "status"))

FairSpec == Spec /\ Fairness

----------------------------------------------------------------------------
\* A live unit the helper knows of: recorded as running, or about to be.
Tracked(u) ==
    \/ file.job.unit = u /\ file.job.state = "running"
    \/ \E p \in Requests : mine[p] = u

TrackedUnits == {u \in LiveUnits : Tracked(u)}

\* Two package jobs are never queued or at work at once, leaving aside those
\* a failed start launched and could not record (the check at 900-902 cannot
\* see them).
TrackedJobsSerialized == \A u, v \in TrackedUnits : u = v

\* The documented promise, unconditionally: package jobs are serialized per
\* host (API_CONTRACT.md:106).
SerializedJobs == \A u, v \in LiveUnits : u = v

\* A job is recorded as succeeded only if its worker ended with status 0, or
\* a reboot destroyed the unit and with it the evidence; no interleaving of
\* stale copies ever turns a failure or a running job into a success.  (A
\* look at a unit still queued does: "early" is for that.)
SuccessIsReal ==
    file.job.state = "succeeded" => unit[file.job.unit] \in {"finished", "lost"}

\* The flock is never left behind and never borrowed: whoever holds it is a
\* start between its check and its record, so that no answer, refusal, abort
\* or reboot leaves later starts waiting for a process that has ended.
FlockFollowsStarts ==
    lock # None => op[lock] = "start" /\ pc[lock] \in {"read", "probe", "launch", "record"}

\* A start that waits for the flock gets it and answers.
StartsAnswer == \A p \in Requests : pc[p] = "lock" ~> pc[p] = "idle"

\* A job is recorded while a status holds a copy from before it.
Overtaken ==
    \E p, q \in Requests :
        pc[p] = "record" /\ op[q] = "status" /\ pc[q] \in {"probe", "write"}

\* The units whose launch has been recorded, or never will be.
Past == Launched \ {mine[p] : p \in Requests}

\* A job that ended well is in the end recorded as succeeded, and stays so
\* until a job launched after it is recorded: stale copies of overlapping
\* status polls may turn the record back to running for a while, and never
\* for good.  Where a status holds a copy from before a record, the record
\* may be lost (SerializedJobs), and nothing is claimed.
SuccessReported ==
    []~Overtaken =>
        \A u \in Units, S \in SUBSET Units :
            (file.job.unit = u /\ unit[u] = "finished" /\ Past = S)
                ~> [](file.job \in [unit : Units \ S, state : {"running", "succeeded", "failed"}]
                        \/ file.job = [unit |-> u, state |-> "succeeded"])

\* The same for a job that failed (ACCEPTANCE_TESTS.md M-08: "status later
\* reports completion/failure").
FailureReported ==
    \A u \in Units :
        (file.job.unit = u /\ unit[u] = "failed")
            ~> (file.job.unit # u \/ file.job.state = "failed")

\* The helper implements the slot of JobSlot.
Slot == INSTANCE JobSlot WITH working <- TrackedUnits, used <- Launched
SlotSpec == Slot!Spec
=============================================================================
