------------------------------ MODULE Refresh ------------------------------
(***************************************************************************)
(* The coordinator's refreshes of one entry: the first, which set-up starts *)
(* past the coordinator's lock, and those on the timer or on request, one   *)
(* at a time.  Each reads a status, checks for package updates if a check   *)
(* is due, and publishes what it read; sensors for mounts and interfaces    *)
(* are added as they turn up.  The timer, the lock and the publication are  *)
(* Home Assistant's DataUpdateCoordinator and its debouncer; this code      *)
(* decides which refreshes go past the lock and what a refresh comes to.    *)
(*                                                                         *)
(* The helpers are current, so that async_upgrade_if_needed returns at once *)
(* (Migration has the others), and package checks are enabled.              *)
(***************************************************************************)
EXTENDS StatusContract

CONSTANTS
    Requests,       \* slots for refreshes that take the lock
    First,          \* the refresh that set-up starts
    Candidates,     \* the hosts that may answer at the entry's address
    Machine,        \* the machine id of the entry
    Slug(_),        \* what unique_id keeps of a mount or an interface
    Cadence,        \* ticks between automatic package checks
    MaxEvents       \* bound on calls lost, changes of the host, and reloads

Refreshes == Requests \cup {First}

Items == Mounts \cup Interfaces

ASSUME RefreshAssumption ==
    /\ First \notin Requests
    /\ Candidates \subseteq Hosts /\ \A h \in Candidates : Configured(h)
    /\ Machine \in MachineIds
    /\ Cadence \in Nat /\ MaxEvents \in Nat

VARIABLES
    host,       \* who answers, with which readings
    data, success,  \* what the coordinator shows
    timer,      \* a refresh is scheduled
    pc,         \* where each refresh stands
    answer,     \* the answer a refresh has been given
    attempt,    \* ticks since package_check_attempted_at, up to Cadence
    known, shown,   \* items that have been met, items that have sensors
    events,
    automatic,  \* history: ticks since this runtime began a check, Absent if none
    later,      \* history: <<t, u>> when u, still running, has read after t
    overtaken   \* history: <<t, u>> when such a u has published before t

coordinator == <<data, success, timer>>
entities == <<known, shown>>
history == <<automatic, later, overtaken>>
vars == <<host, coordinator, pc, answer, attempt, entities, events, history>>

Age == 0 .. Cadence \cup {Absent}

TypeOK ==
    /\ host \in Candidates
    /\ data \in Documents \cup {Absent}
    /\ success \in BOOLEAN /\ timer \in BOOLEAN
    /\ pc \in [Refreshes -> {"due", "idle", "asking", "answered", "checking"}]
    /\ answer \in [Refreshes -> Documents \cup {Absent}]
    /\ attempt \in Age
    /\ known \in SUBSET Items /\ shown \in SUBSET known
    /\ events \in 0 .. MaxEvents
    /\ automatic \in Age
    /\ later \in SUBSET (Refreshes \X Refreshes)
    /\ overtaken \in SUBSET (Refreshes \X Refreshes)

Online == success /\ data # Absent

----------------------------------------------------------------------------
(* Entities *)

Met(doc) == doc.filesystems \cup doc.network

\* Slip: sensors are only made for items that set-up already knows.
AddDynamic_AtSetUp(doc) == UNCHANGED entities

\* Sensors for items not met before, in the order of the document.  The
\* entity platform turns down a unique id that is already there.
AddDynamic(doc) ==
    /\ known' = known \cup Met(doc)
    /\ \E added \in SUBSET (Met(doc) \ known) :
          /\ \A m, n \in shown \cup added : m \in added /\ Slug(m) = Slug(n) => m = n
          /\ \A m \in Met(doc) \ known : \E n \in shown \cup added : Slug(n) = Slug(m)
          /\ shown' = shown \cup added

----------------------------------------------------------------------------
(* Refreshes *)

Running(t) == pc[t] \in {"asking", "answered", "checking"}

\* Home Assistant's part: its timer is cancelled when a refresh begins, and
\* set again when it ends, whatever its result.
Begin(t) ==
    /\ pc' = [pc EXCEPT ![t] = "asking"]
    /\ timer' = FALSE
    /\ UNCHANGED <<host, data, success, answer, attempt, entities, events, history>>

StartFirst == pc[First] = "due" /\ Begin(First)

\* Home Assistant's part: the lock of its debouncer, which scheduled and
\* requested refreshes take and async_refresh does not.
LockFree == \A u \in Requests : ~Running(u)

\* Slip: an action calls async_refresh, as set-up does.
Request_Direct(t) == pc[t] = "idle" /\ Begin(t)

\* async_request_refresh, by an action or the timer.
Request(t) == pc[t] = "idle" /\ LockFree /\ Begin(t)

TimerFires(t) == timer /\ Request(t)

\* The status operation runs on the host.
HostAnswers(t) ==
    /\ pc[t] = "asking"
    /\ pc' = [pc EXCEPT ![t] = "answered"]
    /\ answer' = [answer EXCEPT ![t] = Answer(host)]
    /\ later' = later \cup {<<u, t>> : u \in {v \in Refreshes \ {t} : pc[v] \in {"answered", "checking"}}}
    /\ UNCHANGED <<host, coordinator, attempt, entities, events, automatic, overtaken>>

Involving(t) == {p \in Refreshes \X Refreshes : t \in {p[1], p[2]}}

End(t) ==
    /\ pc' = [pc EXCEPT ![t] = "idle"]
    /\ answer' = [answer EXCEPT ![t] = Absent]
    /\ timer' = TRUE

Publish(t) ==
    /\ data' = answer[t]
    /\ success' = TRUE
    /\ AddDynamic(answer[t])
    /\ End(t)
    /\ later' = later \ Involving(t)
    /\ overtaken' = {p \in overtaken : p[1] # t} \cup {p \in later : p[2] = t}

\* Slip: an error is answered with the data of before, not with UpdateFailed.
Fail_OldData(t) ==
    /\ UNCHANGED success
    /\ End(t)
    /\ later' = later \ Involving(t)
    /\ overtaken' = {p \in overtaken : p[1] # t}
    /\ UNCHANGED <<data, attempt, entities, automatic>>

\* UpdateFailed, or an error that nobody expected: the coordinator keeps its
\* data.
Fail(t) ==
    /\ success' = FALSE
    /\ End(t)
    /\ later' = later \ Involving(t)
    /\ overtaken' = {p \in overtaken : p[1] # t}
    /\ UNCHANGED <<data, attempt, entities, automatic>>

\* Slip: the machine is compared only when the entry is set up.
Acceptable_AnyMachine(t) == pc[t] = "answered" /\ Accepts(answer[t])

\* async_status parses the answer and compares the machine with the entry's.
Acceptable(t) == pc[t] = "answered" /\ Accepts(answer[t]) /\ answer[t].id = Machine

Refused(t) ==
    /\ pc[t] = "answered" /\ ~Acceptable(t)
    /\ Fail(t)
    /\ UNCHANGED <<host, events>>

CheckDue == ~(attempt # Absent /\ attempt < Cadence)

ReceivedNoCheck(t) ==
    /\ Acceptable(t) /\ ~CheckDue
    /\ Publish(t)
    /\ UNCHANGED <<host, attempt, events, automatic>>

\* Slip: the attempt is recorded when the check has answered.
ReceivedCheckDue_Late(t) ==
    /\ Acceptable(t) /\ CheckDue
    /\ pc' = [pc EXCEPT ![t] = "checking"]
    /\ automatic' = 0
    /\ UNCHANGED <<host, coordinator, answer, attempt, entities, events, later, overtaken>>

\* async_check_updates_if_due records its attempt and then awaits the check.
ReceivedCheckDue(t) ==
    /\ Acceptable(t) /\ CheckDue
    /\ pc' = [pc EXCEPT ![t] = "checking"]
    /\ attempt' = 0 /\ automatic' = 0
    /\ UNCHANGED <<host, coordinator, answer, entities, events, later, overtaken>>

\* The status is published if the check succeeds, which records another
\* attempt, and if it fails with an error of this integration.
CheckEnds(t) ==
    /\ pc[t] = "checking"
    /\ attempt' \in {0, attempt}
    /\ Publish(t)
    /\ UNCHANGED <<host, events, automatic>>

----------------------------------------------------------------------------
(* The rest of the world *)

\* async_check_updates for a button press or a service call.
ManualCheck ==
    /\ attempt' = 0
    /\ UNCHANGED <<host, coordinator, pc, answer, entities, events, history>>

Older(age) == IF age = Absent \/ age >= Cadence THEN age ELSE age + 1

Tick ==
    /\ attempt' = Older(attempt) /\ automatic' = Older(automatic)
    /\ UNCHANGED <<host, coordinator, pc, answer, entities, events, later, overtaken>>

Event == events < MaxEvents /\ events' = events + 1

\* The status call fails, before or after the host has carried it out; or the
\* channel of the check closes without an exit status, whose TypeError the
\* handler around the check does not expect.
CallLost(t) ==
    /\ pc[t] \in {"asking", "answered", "checking"}
    /\ Event
    /\ Fail(t)
    /\ UNCHANGED host

HostChanges ==
    /\ Event
    /\ host' \in Candidates
    /\ UNCHANGED <<coordinator, pc, answer, attempt, entities, history>>

AtSetUp == [t \in Refreshes |-> IF t = First THEN "due" ELSE "idle"]

\* A new runtime, coordinator and set of sensors; the first refresh is
\* cancelled, and what else the old coordinator runs nobody listens to.  The
\* new runtime has no attempt on record: it checks at once.
Reload ==
    /\ Event
    /\ data' = Absent /\ success' = TRUE /\ timer' = TRUE
    /\ pc' = AtSetUp
    /\ answer' = [t \in Refreshes |-> Absent]
    /\ attempt' = Absent /\ automatic' = Absent
    /\ known' = {} /\ shown' = {}
    /\ later' = {} /\ overtaken' = {}
    /\ UNCHANGED host

----------------------------------------------------------------------------
\* Set-up has forwarded the platforms, which have made the sensors that need
\* no data and listen to the coordinator.
Init ==
    /\ host \in Candidates
    /\ data = Absent /\ success = TRUE /\ timer = TRUE
    /\ pc = AtSetUp
    /\ answer = [t \in Refreshes |-> Absent]
    /\ attempt = Absent /\ automatic = Absent
    /\ known = {} /\ shown = {}
    /\ events = 0
    /\ later = {} /\ overtaken = {}

GoesOn(t) ==
    HostAnswers(t) \/ Refused(t) \/ ReceivedNoCheck(t) \/ ReceivedCheckDue(t) \/ CheckEnds(t)

Next ==
    \/ StartFirst
    \/ \E t \in Requests : Request(t)
    \/ \E t \in Refreshes : GoesOn(t) \/ CallLost(t)
    \/ ManualCheck \/ Tick
    \/ HostChanges \/ Reload

Spec == Init /\ [][Next]_vars

\* The event loop runs what is ready, the timer fires, and a call that is
\* not lost is answered.
Fairness ==
    /\ WF_vars(StartFirst)
    /\ WF_vars(\E t \in Requests : TimerFires(t))
    /\ \A t \in Refreshes : WF_vars(GoesOn(t))

FairSpec == Spec /\ Fairness

----------------------------------------------------------------------------
\* Every mount and interface of the status has a sensor, unless the sensor
\* of another one has its slug: add_dynamic misses none that turn up late,
\* after a failure, or in data published out of order.
EveryItemShown ==
    data # Absent =>
        \A m \in Met(data) : m \in known /\ \E n \in shown : Slug(n) = Slug(m)

\* Data are not replaced by data that were read before them, except by or
\* after the refresh of set-up, which does not take the coordinator's lock.
NoStepBack == \A p \in overtaken : First \in {p[1], p[2]}

\* One runtime's automatic package checks begin at least Cadence apart, though
\* refreshes overlap, checks fail, and presses come between.  The claim does
\* not reach across a reload, and so not across a change of the options:
\* the attempt is kept in the runtime.
ChecksApart ==
    [][\A t \in Refreshes :
          pc[t] = "answered" /\ pc'[t] = "checking" =>
             automatic = Absent \/ automatic >= Cadence]_vars

\* What is shown is the status of a fit host that is the entry's machine,
\* whoever answers at its address by now and whatever was awaited between
\* answer and publication.
OfFitHost(doc) == \E h \in Candidates : Fit(h) /\ h.id = Machine /\ doc = Answer(h)
ShownIsFit == data # Absent => OfFitHost(data)

\* Once calls are no longer lost and the host no longer changes, Online says
\* whether a host is there that is the entry's machine and fit to be shown,
\* and if so it is the status of that host that is shown: a refresh of set-up
\* that ended last with older data is made good by the next.
OnlineSettles ==
    <>[](/\ Online <=> (Fit(host) /\ host.id = Machine)
         /\ Online => data = Answer(host))
=============================================================================
